------------------------------- MODULE Typing -------------------------------
(***************************************************************************)
(* The typer (src/typer.c) on numbers: what type a literal, a name and an  *)
(* operator get from the type that is expected, where implicit casts are   *)
(* put, and the folding of constants.  The result is a body for IrValues.  *)
(*                                                                         *)
(* A node of the result has its type ty, and, if `has', its value cv, in 64*)
(* bits.  The state t of the typer is the names declared, stop (an error,  *)
(* an assertion or a trap has ended the compiler), and `unset', the value  *)
(* of what is never set.                                                   *)
(***************************************************************************)
EXTENDS EvalValues

NoType == Void      \* NULL: no type is expected, or there is none
AnyInt == [k |-> "anyint", w |-> 64]
AnyBool == [k |-> "anybool", w |-> 1]

Integer == {"int", "uint"}

\* ll_typer_implicit_cast_leftright: the type of an operation.
LeftRight(l, r) ==
    LET wide == Larger(l.w, r.w)
    IN CASE l = r -> l
         [] l = AnyInt /\ r.k \in {"int", "uint", "char"} -> r
         [] r = AnyInt /\ l.k \in {"int", "uint", "char"} -> l
         [] l # r /\ l.k \in Integer /\ r.k \in Integer -> IF "int" \in {l.k, r.k} THEN SignedOf(wide) ELSE UnsignedOf(wide)
         [] l = AnyBool /\ r = Bool -> r
         [] l = Bool /\ r = AnyBool -> l
         [] OTHER -> NoType

\* ll_typer_can_implicitly_cast
Widens(from, to) ==
    \/ from = to
    \/ from = AnyInt /\ to.k \in Integer
    \/ from.k \in Integer /\ to = AnyInt
    \/ from.k \in Integer /\ to.k = from.k /\ to.w >= from.w
    \/ from.k = "uint" /\ to.k = "int" /\ to.w > from.w

(***************************************************************************)
(* ll_typer_can_implicitly_cast_const_value.  For a signed type the lower  *)
(* bound is the positive number 2^(w-1), but for 64 bits; a signed number  *)
(* that is refused is asked for once more, as an unsigned one.             *)
(***************************************************************************)
FitsAsSigned(n, to) ==
    LET half == Values(to.w) \div 2
    IN IF to.k = "int" THEN n <= half - 1 /\ n >= (IF to.w = 64 THEN -half ELSE half)
       ELSE n >= 0 /\ n < Values(to.w)

FitsAsUnsigned(v, to) == v < (IF to.k = "int" THEN Values(to.w) \div 2 ELSE Values(to.w))

Fits(v, from, to) ==
    /\ from.k \in {"anyint", "int", "uint"} /\ to.k \in Integer
    /\ FitsAsUnsigned(v, to) \/ (from.k # "uint" /\ FitsAsSigned(Signed(v, 64), to))

\* ll_typer_can_implicitly_cast_expression
CanGive(e, to) == Widens(e.ty, to) \/ (e.has /\ Fits(e.cv, e.ty, to))

\* ll_typer_can_cast
CanCast(from, to) ==
    \/ from = to
    \/ from.k \in {"char", "int", "uint"} /\ to.k \in {"char", "int", "uint"}
    \/ from.k \in Integer /\ to = AnyInt
----------------------------------------------------------------------------
Typed(t, e) == [t |-> t, e |-> e]
Node(e, ty) == e @@ [ty |-> ty, has |-> FALSE, cv |-> 0]
Known(e, ty, v) == e @@ [ty |-> ty, has |-> TRUE, cv |-> v]

Stop(t) == Typed([t EXCEPT !.stop = TRUE], NoExpr)

\* What follows r, unless the compiler has stopped.
Then(r, F(_)) == CHOOSE y \in {IF q.t.stop THEN q ELSE F(q) : q \in {r}} : TRUE

\* const_value_cast; what it has no case for is a todo.
CastsConstant(from, to) ==
    \/ from.k \in {"anyint", "int", "uint"} /\ to.k \in Integer
    \/ from.k = "uint" /\ to = AnyInt

\* ll_typer_add_implicit_cast: the node of a cast has no constant, and its operand's
\* is the same number.
AddCast(t, e, ty) ==
    CASE e.ty = ty -> Typed(t, e)
      [] e.ty # ty /\ e.has /\ ~CastsConstant(e.ty, ty) -> Stop(t)
      [] OTHER -> Typed(t, Node([k |-> "cast", e |-> e], ty))

\* Both operands, as one type.
CastBoth(ops, ty, F(_, _, _)) ==
    Then(AddCast(ops.t, ops.l, ty), LAMBDA l : Then(AddCast(l.t, ops.r, ty), LAMBDA r : F(r.t, l.e, r.e)))

QuotientOf(l, r, ty) == Toward0(Number(l.cv, ty), Number(r.cv, ty))

\* Mutant: a product is folded as a sum.
FoldedAsSum(op, ty, l, r) ==
    IF op = "SUB" THEN r.cv ELSE IF op = "DIV" THEN As64(QuotientOf(l, r, ty)) ELSE As64(l.cv + r.cv)

\* The constant of an operation on constants.  That of a difference is its right
\* operand, by an assignment that was to be a subtraction.
Folded(op, ty, l, r) ==
    CASE op = "ADD" -> As64(l.cv + r.cv)
      [] op = "SUB" -> r.cv
      [] op = "MUL" -> As64(Number(l.cv, ty) * Number(r.cv, ty))
      [] op = "DIV" -> As64(QuotientOf(l, r, ty))

(***************************************************************************)
(* The fold of a sum: a remainder is an assertion, a division without a    *)
(* quotient a trap, and what is no number a todo.  A difference overwrites *)
(* the constant of its left operand.                                       *)
(***************************************************************************)
FoldSum(t, op, ty, l, r) ==
    LET both == l.has /\ r.has
        sum(left) == [k |-> "sum", op |-> op, l |-> left, r |-> r]
    IN CASE ~both -> Typed(t, Node(sum(l), ty))
         [] both /\ (op = "MOD" \/ (op = "DIV" /\ NoQuotient(Number(l.cv, ty), Number(r.cv, ty))) \/ ty.k \notin {"anyint", "int", "uint"}) -> Stop(t)
         [] OTHER -> Typed(t, Known(sum(IF op = "SUB" THEN [l EXCEPT !.cv = r.cv] ELSE l), ty, Folded(op, ty, l, r)))

\* Of a comparison or a conjunction the result is a boolean, and its fold a todo.
FoldBool(t, e) == IF e.l.has /\ e.r.has THEN Stop(t) ELSE Typed(t, Node(e, Bool))
----------------------------------------------------------------------------
\* ll_typer_type_expression
RECURSIVE TypeOfExpr(_, _, _)

\* A literal takes the type that is expected, whether it fits or not.
TypeInt(t, e, want) ==
    Typed(t, Known(e, IF want.k \in {"int", "uint", "char"} THEN want ELSE AnyInt, As64(e.v)))

\* Without a type expected, true and false read through NULL.
TypeBool(t, e, want) ==
    IF want = NoType THEN Stop(t) ELSE Typed(t, Node(e, IF want = Bool THEN Bool ELSE AnyBool))

\* A name takes the expected type where its own widens to that.
TypeName(t, e, want) ==
    LET known == t.names[e.name]
        ty == IF want # NoType /\ Widens(known.ty, want) THEN want ELSE known.ty
    IN Typed(t, IF known.has THEN Known([k |-> "constant", name |-> e.name], ty, known.cv)
                ELSE Node([k |-> "var", name |-> e.name], ty))

\* What is negated is cast to the expected type, even if that is narrower.
TypeNeg(t, e, want) ==
    LET Negated(x) ==
            LET ty == IF want = NoType THEN x.e.ty ELSE want
            IN IF x.e.ty.k \notin {"anyint", "int"} THEN Stop(x.t)
               ELSE Then(AddCast(x.t, x.e, ty), LAMBDA y : Typed(y.t, Node([k |-> "neg", e |-> y.e], ty)))
    IN Then(TypeOfExpr(t, e.e, want), Negated)

(***************************************************************************)
(* The operands of an operator: each is typed with nothing expected, and   *)
(* numbers without a type are then typed again, with the expected one if   *)
(* both are such numbers, else with that of the other.                     *)
(***************************************************************************)
Operands(t, e, want, F(_)) ==
    LET Pair(x, y) == F([t |-> y.t, l |-> x.e, r |-> y.e])
        Again(x, y, left, right) ==
            Then(IF left = NoType THEN [x EXCEPT !.t = y.t] ELSE TypeOfExpr(y.t, e.l, left),
                 LAMBDA l : Then(IF right = NoType THEN [y EXCEPT !.t = l.t] ELSE TypeOfExpr(l.t, e.r, right),
                                 LAMBDA r : Pair(l, r)))
        Types(x, y) ==
            LET l == x.e.ty = AnyInt
                r == y.e.ty = AnyInt
            IN CASE l /\ r /\ want # NoType -> Again(x, y, want, want)
                 [] l /\ ~(r /\ want # NoType) -> Again(x, y, y.e.ty, NoType)
                 [] ~l /\ r -> Again(x, y, NoType, x.e.ty)
                 [] ~l /\ ~r -> Pair(x, y)
    IN Then(TypeOfExpr(t, e.l, NoType), LAMBDA x : Then(TypeOfExpr(x.t, e.r, NoType), LAMBDA y : Types(x, y)))

\* + to %: the type that is expected, if both operands can be given to it.
TypeSum(t, e, want) ==
    LET Summed1(ops) ==
            LET ty == IF want = NoType THEN LeftRight(ops.l.ty, ops.r.ty) ELSE want
            IN IF ty = NoType \/ (want # NoType /\ ~(CanGive(ops.l, ty) /\ CanGive(ops.r, ty))) THEN Stop(ops.t)
               ELSE CastBoth(ops, ty, LAMBDA t1, l, r : FoldSum(t1, e.op, ty, l, r))
    IN Operands(t, e, want, Summed1)

TypeCompare(t, e, want) ==
    LET Compared1(ops) ==
            LET ty == LeftRight(ops.l.ty, ops.r.ty)
            IN IF ty = NoType \/ ~CanGive(ops.l, ty) \/ ~CanGive(ops.r, ty) THEN Stop(ops.t)
               ELSE CastBoth(ops, ty, LAMBDA t1, l, r : FoldBool(t1, [k |-> "compare", op |-> e.op, l |-> l, r |-> r]))
    IN Operands(t, e, want, Compared1)

TypeLogic(t, e, want) ==
    Operands(t, e, want, LAMBDA ops : FoldBool(ops.t, [k |-> "logic", op |-> e.op, l |-> ops.l, r |-> ops.r]))

TypeAssign(t, e) ==
    LET Given1(l, r) ==
            IF ~CanGive(r.e, l.e.ty) THEN Stop(r.t)
            ELSE Then(AddCast(r.t, r.e, l.e.ty),
                      LAMBDA v : Typed(v.t, Node([k |-> "assign", l |-> l.e, r |-> v.e], l.e.ty)))
    IN Then(TypeOfExpr(t, e.l, NoType), LAMBDA l : Then(TypeOfExpr(l.t, e.r, l.e.ty), LAMBDA r : Given1(l, r)))

\* l op= r is of the type of the operation, which may be wider than l.
TypeOpAssign(t, e, want) ==
    LET Given1(ops) ==
            LET ty == LeftRight(ops.l.ty, ops.r.ty)
            IN IF ty = NoType \/ ~CanGive(ops.r, ty) THEN Stop(ops.t)
               ELSE Then(AddCast(ops.t, ops.r, ty),
                         LAMBDA r : Typed(r.t, Node([k |-> "opassign", op |-> e.op, l |-> ops.l, r |-> r.e], ty)))
    IN Operands(t, e, want, Given1)

TypeCast(t, e) ==
    LET Given1(x) == IF CanCast(x.e.ty, e.to) THEN Typed(x.t, Node([k |-> "cast", e |-> x.e], e.to)) ELSE Stop(x.t)
    IN Then(TypeOfExpr(t, e.e, e.to), Given1)

\* const e: the expression is evaluated at once.
Marked(x, c) ==
    IF c.stop THEN Stop(x.t)
    ELSE Typed(x.t, Known([k |-> "const", e |-> x.e], x.e.ty, IF c.known THEN c.v ELSE x.t.unset))

Evaluated(x) == CHOOSE q \in {Marked(x, c) : c \in {EvalNode(x.e)}} : TRUE

TypeConst(t, e, want) ==
    CHOOSE q \in {IF x.t.stop THEN x ELSE Evaluated(x) : x \in {TypeOfExpr(t, e.e, want)}} : TRUE

TypeOfExpr(t, e, want) ==
    CASE e.k = "int" -> TypeInt(t, e, want)
      [] e.k = "bool" -> TypeBool(t, e, want)
      [] e.k = "name" -> TypeName(t, e, want)
      [] e.k = "neg" -> TypeNeg(t, e, want)
      [] e.k = "sum" -> TypeSum(t, e, want)
      [] e.k = "compare" -> TypeCompare(t, e, want)
      [] e.k = "logic" -> TypeLogic(t, e, want)
      [] e.k = "assign" -> TypeAssign(t, e)
      [] e.k = "opassign" -> TypeOpAssign(t, e, want)
      [] e.k = "cast" -> TypeCast(t, e)
      [] e.k = "const" -> TypeConst(t, e, want)
----------------------------------------------------------------------------
\* A declaration; a constant has no place, and no code.
Declares(p, s, x) ==
    LET name(v) == [ty |-> s.ty, has |-> s.const, cv |-> v.cv]
        Declared1(v) ==
            [t |-> [v.t EXCEPT !.names = (s.name :> name(v.e)) @@ @],
             body |-> IF s.const THEN p.body ELSE Append(p.body, [k |-> "declare", name |-> s.name, ty |-> s.ty, e |-> v.e])]
        Given1(v) == IF v.t.stop \/ (s.const /\ ~v.e.has) THEN [p EXCEPT !.t = Stop(v.t).t] ELSE Declared1(v)
    IN Strict(Given1, IF CanGive(x.e, s.ty) THEN AddCast(x.t, x.e, s.ty) ELSE Stop(x.t))

\* What is returned is typed for the result of the function, and neither checked
\* nor cast.
Continues(p, s, x) ==
    CASE x.t.stop -> [p EXCEPT !.t = x.t]
      [] ~x.t.stop /\ s.k = "declare" -> Declares(p, s, x)
      [] ~x.t.stop /\ s.k = "return" -> [t |-> x.t, body |-> Append(p.body, [k |-> "return", e |-> x.e])]
      [] OTHER -> [t |-> x.t, body |-> Append(p.body, x.e)]

TypeStatement(p, s, ret) ==
    LET e == IF s.k \in {"declare", "return"} THEN s.e ELSE s
        want == CASE s.k = "declare" -> s.ty [] s.k = "return" -> ret [] OTHER -> NoType
    IN IF p.t.stop THEN p ELSE CHOOSE q \in {Continues(p, s, x) : x \in {TypeOfExpr(p.t, e, want)}} : TRUE

\* A program of one function, which has no parameters.
TypeProgram(source, unset) ==
    LET start == [t |-> [names |-> <<>>, stop |-> FALSE, unset |-> unset], body |-> <<>>]
    IN FoldLeft(LAMBDA p, s : CHOOSE q \in {TypeStatement(r, s, source.ret) : r \in {p}} : TRUE, start, source.body)
=============================================================================
