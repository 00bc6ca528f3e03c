--------------------------- MODULE SourceMeaning ---------------------------
(***************************************************************************)
(* The numbers a program of Typing computes, as the source has them: a     *)
(* name stands for its number, a constant for what it is declared to be,   *)
(* and a number is the same in every type that holds it.  The reference for*)
(* the typer and the folding of constants.                                 *)
(*                                                                         *)
(* A result is the state s, the number v, the type ty it was declared with *)
(* (AnyNumber, of a literal) and whether the typer folds it.  In `met' are *)
(* the numbers that leave their type, and what the compiler gets wrong.    *)
(***************************************************************************)
EXTENDS ValueMeaning

AnyNumber == Void

\* What an operation on numbers of two types is done in: the wider one, signed if
\* one of them is.
Common(l, r) ==
    CASE l = AnyNumber -> r
      [] l # AnyNumber /\ r = AnyNumber -> l
      [] l # AnyNumber /\ r # AnyNumber -> [k |-> IF l.k = r.k THEN l.k ELSE "int", w |-> Larger(l.w, r.w)]

IsIn(n, ty) == ty = AnyNumber \/ n = Wrap(n, ty)

Exactly(s, v, ty, known) == [s |-> s, v |-> v, ty |-> ty, known |-> known]

\* Mets of a number that is to be of a type.
Leaves(s, n, ty) == Met(s, "leaves its type", ~IsIn(n, ty))

RECURSIVE ExactExpr(_, _, _)

\* A constant of the typer: no operand holds it if it is negative.
ExactConstant(s, v, ty) == Exactly(Met(s, "negative constant", v < 0), v, ty, TRUE)

ExactName(s, e) ==
    LET n == s.names[e.name]
    IN IF n.const THEN ExactConstant(s, n.v, n.ty) ELSE Exactly(s, n.v, n.ty, FALSE)

ExactNeg(s, e, want) ==
    Strict(LAMBDA x : Exactly(Leaves(x.s, -x.v, want), -x.v, x.ty, FALSE), ExactExpr(s, e.e, want))

\* What is made of both operands, which are taken in order, with nothing expected of them.
OfBoth(s, e, F(_)) ==
    LET Second(x) == Strict(LAMBDA y : F([s |-> y.s, x |-> x, y |-> y]), ExactExpr(x.s, e.r, AnyNumber))
    IN Strict(Second, ExactExpr(s, e.l, AnyNumber))

SumOf(op, x, y) ==
    CASE op = "ADD" -> x + y
      [] op = "SUB" -> x - y
      [] op = "MUL" -> x * y
      [] op = "DIV" -> Toward0(x, y)
      [] op = "MOD" -> x - y * Toward0(x, y)

ExactSum(s, e, want) ==
    LET Of(b, ty, n) ==
            LET both == b.x.known /\ b.y.known
                left == Leaves(Leaves(Leaves(b.s, b.x.v, ty), b.y.v, ty), n, ty)
            IN Exactly(Met(left, "difference of constants", both /\ e.op = "SUB"), n, ty, both)
    IN OfBoth(s, e, LAMBDA b : Of(b, IF want = AnyNumber THEN Common(b.x.ty, b.y.ty) ELSE want, SumOf(e.op, b.x.v, b.y.v)))

ExactCompare(s, e) ==
    LET Of(b, ty) ==
            LET left == Leaves(Leaves(b.s, b.x.v, ty), b.y.v, ty)
                of == Met(left, "comparison in a constant", s.const /\ (b.x.v < 0 \/ b.y.v < 0))
            IN Exactly(of, Truth(Compared(e.op, b.x.v, b.y.v)), Bool, FALSE)
    IN OfBoth(s, e, LAMBDA b : Of(b, Common(b.x.ty, b.y.ty)))

ExactLogic(s, e) ==
    LET Of(b) ==
            LET n == Truth(IF e.op = "AND" THEN b.x.v # 0 /\ b.y.v # 0 ELSE b.x.v # 0 \/ b.y.v # 0)
            IN Exactly(Met(b.s, "logic in a constant", s.const /\ {b.x.ty, b.y.ty} # {Bool}), n, Bool, FALSE)
    IN OfBoth(s, e, Of)

Keep(s, name, n) == [Leaves(s, n, s.names[name].ty) EXCEPT !.names[name].v = n]

ExactAssign(s, e) ==
    LET ty == s.names[e.l.name].ty
    IN Strict(LAMBDA r : Exactly(Keep(r.s, e.l.name, r.v), r.v, ty, FALSE), ExactExpr(s, e.r, ty))

\* An operation that is wider than its variable cannot be stored there.
ExactOpAssign(s, e) ==
    LET Kept(n) ==
            LET wide == n.ty # s.names[e.l.name].ty
            IN Exactly(Keep(Met(n.s, "wider than its variable", wide), e.l.name, n.v), n.v, n.ty, FALSE)
    IN Strict(Kept, ExactSum(s, e, AnyNumber))

\* The store of an assignment uses up the register that has the value.
UsedAgain(x, stored) == [x EXCEPT !.s = Met(@, "value of an assignment", stored.k # "int")]

\* A cast takes the number modulo the type, but for the evaluator, which keeps it.
ExactCast(s, e) ==
    LET Of(x, n) == Exactly(Met(x.s, "cast in a constant", s.const /\ n # x.v), n, e.to, FALSE)
    IN Strict(LAMBDA x : Of(x, Wrap(x.v, e.to)), ExactExpr(s, e.e, e.to))

\* A constant that is a literal of 64 bits is not set.
ExactConst(s, e, want) ==
    LET Of(x) ==
            LET wide == e.e.k \in {"int", "name", "const"} /\ x.v >= ImmediateLimit \div 2
            IN ExactConstant(Met([x.s EXCEPT !.const = s.const], "constant is a literal", wide), x.v, x.ty)
    IN Strict(Of, ExactExpr([s EXCEPT !.const = TRUE], e.e, want))

ExactExpr(s, e, want) ==
    CASE e.k = "int" -> Exactly(Leaves(s, e.v, want), e.v, AnyNumber, TRUE)
      [] e.k = "bool" -> Exactly(s, Truth(e.v), Bool, FALSE)
      [] e.k = "name" -> ExactName(s, e)
      [] e.k = "neg" -> ExactNeg(s, e, want)
      [] e.k = "sum" -> ExactSum(s, e, want)
      [] e.k = "compare" -> ExactCompare(s, e)
      [] e.k = "logic" -> ExactLogic(s, e)
      [] e.k = "assign" -> UsedAgain(ExactAssign(s, e), e.r)
      [] e.k = "opassign" -> UsedAgain(ExactOpAssign(s, e), e)
      [] e.k = "cast" -> ExactCast(s, e)
      [] e.k = "const" -> ExactConst(s, e, want)

ExactStatement(r, stmt, ret) ==
    LET Declared1(v) ==
            [Leaves(v.s, v.v, stmt.ty) EXCEPT !.names = (stmt.name :> [ty |-> stmt.ty, v |-> v.v, const |-> stmt.const]) @@ @]
    IN CASE stmt.k = "declare" -> Out(Strict(Declared1, ExactExpr(r.s, stmt.e, stmt.ty)), r.v)
         [] stmt.k = "return" -> Strict(LAMBDA v : Out(Leaves(v.s, v.v, ret), v.v), ExactExpr(r.s, stmt.e, ret))
         [] stmt.k = "assign" -> Out(ExactAssign(r.s, stmt).s, r.v)
         [] stmt.k = "opassign" -> Out(ExactOpAssign(r.s, stmt).s, r.v)
         [] OTHER -> Out(ExactExpr(r.s, stmt, AnyNumber).s, r.v)

\* The number a program returns, and what its run has met.
ExactMeaning(source) ==
    LET start == [names |-> <<>>, const |-> FALSE, met |-> {}]
        After(q, stmt) == Strict(LAMBDA r : ExactStatement(r, stmt, source.ret), q)
    IN Strict(LAMBDA r : [v |-> r.v, met |-> r.s.met], FoldLeft(After, Out(start, 0), source.body))
=============================================================================
