---------------------------- MODULE ValueMeaning ----------------------------
(***************************************************************************)
(* What a program of IrValues means, without registers, frames or bytes:   *)
(* the reference for the code generator.  Operands are evaluated in the    *)
(* order of the generator.                                                 *)
(*                                                                         *)
(* An integer is a number of its type; an array or a struct the sequence of*)
(* its values; a pointer the variable it points into and the path to the   *)
(* part; a slice a pointer to its first element, and its length.           *)
(*                                                                         *)
(* A state s has the variables' values, the running function and `met': the*)
(* situations the run came into that the code generator gets wrong.        *)
(***************************************************************************)
EXTENDS TypeLayout, IrOperands

Wrap(n, ty) == IF ty.k = "int" THEN Signed(n % Values(ty.w), ty.w) ELSE n % Values(ty.w)

Met(s, what, cond) == IF cond THEN [s EXCEPT !.met = @ \union {what}] ELSE s

Out(s, v) == [s |-> s, v |-> v]

PointerTo(name) == [var |-> name, path |-> <<>>]
Inner(ptr, i) == [ptr EXCEPT !.path = Append(@, i)]
Beside(ptr, n) == IF n = 0 THEN ptr ELSE [ptr EXCEPT !.path = Append(Front(@), Last(@) + n)]

RECURSIVE Replaced(_, _, _)
Replaced(v, path, n) ==
    IF path = <<>> THEN n ELSE [v EXCEPT ![Head(path)] = Replaced(@, Tail(path), n)]

At(s, ptr) == FoldLeft(LAMBDA v, i : v[i], s.mem[ptr.var], ptr.path)
With(s, ptr, n) == [s EXCEPT !.mem = (ptr.var :> Replaced(s.mem[ptr.var], ptr.path, n)) @@ @]

Sum(op, x, y, ty) ==
    Wrap(CASE op = "ADD" -> x + y [] op = "SUB" -> x - y [] op = "MUL" -> (x % 256) * y + ((x \div 256) * y % 256) * 256
           [] op = "DIV" -> Toward0(x, y) [] op = "MOD" -> x - y * Toward0(x, y), ty)

Compared(op, x, y) ==
    CASE op = "EQ" -> x = y [] op = "NEQ" -> x # y [] op = "LT" -> x < y
      [] op = "LTE" -> x <= y [] op = "GT" -> x > y [] op = "GTE" -> x >= y

\* A value of a type as one of another.
Cast(s, v, to, from) ==
    CASE to.k \in {"string", "slice"} /\ from.k = "array" -> [ptr |-> Inner(v, 1), len |-> from.n]
      [] to.k = "bool" -> v % Values(8)
      [] to.k \in {"int", "uint", "char"} -> Wrap(v, to)
      [] OTHER -> v

Truth(b) == IF b THEN 1 ELSE 0

IsVariable(e) == e.k \in {"var", "param"}

\* Situations of an operation on x and y.
MetBySum(s, op, ty, x) ==
    Met(Met(s, "division of unsigned", op \in {"DIV", "MOD"} /\ ty.k = "uint"),
        "division of narrow", op \in {"DIV", "MOD"} /\ ty.k = "int" /\ (ty.w < 32 \/ (ty.w = 32 /\ x < 0)))

MetByCompare(s, e, x, y) ==
    Met(Met(s, "comparison of unsigned", e.l.ty.k = "uint" /\ e.op \notin {"EQ", "NEQ"} /\ (x < y) # (Signed(x, e.l.ty.w) < Signed(y, e.l.ty.w))),
        "comparison of comparisons", e.l.k = "compare" /\ e.r.k = "compare")

IsAggregate(ty) == ty.k \in {"struct", "array"}

MetBySmall(s, ty) == Met(s, "small aggregate", IsAggregate(ty) /\ Stride(ty) < 8)

\* An address counts as a pointer, with the alignment of one.
MetByCopy(s, l) == Met(s, "odd copy", l.k \notin {"var", "param"} /\ IsAggregate(l.ty) /\ IsLarge(l.ty) /\ Stride(l.ty) % 8 # 0)

\* A literal that is no immediate operand, of less than 64 bits.
MetByLiteral(s, e) == Met(s, "wide literal", e.v >= ImmediateLimit /\ e.ty.w < 64)

\* The value of a constant, of which an operand holds half as many numbers if it is signed.
Constant(s, e) ==
    LET n == IF e.ty.k = "int" THEN Signed(e.cv, 64) ELSE e.cv
        below == IF e.ty.k = "int" THEN ImmediateLimit \div 2 ELSE ImmediateLimit
    IN Out(Met(s, "wide literal", n \notin 0 .. below - 1 /\ e.ty.w < 64), Wrap(n, e.ty))

RECURSIVE Eval(_, _)
RECURSIVE PlaceOf(_, _)
RECURSIVE Run(_, _, _, _)

Variable(s, e) == IF e.k = "var" THEN <<s.fn, "var", e.name>> ELSE <<s.fn, "param", e.i>>

\* The variable e, read before s became later, has been assigned since then.
MetByAlias(later, e, v) == Met(later, "assigned after it was read", IsVariable(e) /\ later.mem[Variable(later, e)] # v)

\* Two operands, the first one first.
Both(s, e, f) ==
    LET x == Eval(s, e)
        y == Eval(x.s, f)
    IN [s |-> MetByAlias(y.s, e, x.v), x |-> x.v, y |-> y.v]

Initial(to, v) ==
    IF to.k = "array" THEN [i \in 1 .. to.n |-> IF i \in DOMAIN v THEN v[i] ELSE 0] ELSE v

Literal(s, e) ==
    LET items == FoldLeft(LAMBDA r, x : LET o == Eval(r.s, x) IN Out(o.s, Append(r.v, o.v)), Out(s, <<>>), e.items)
    IN Out(items.s, Initial(e.ty, items.v))

\* The characters of a string literal are a variable of their own.
Characters(s, e) == Out([s EXCEPT !.mem = (<<0, "data", e.items>> :> e.items) @@ @], PointerTo(<<0, "data", e.items>>))

Invoked(s, e) ==
    LET Next(r, a) == LET o == Eval(r.s, a) IN Out(o.s, Append(r.v, o.v))
        args == FoldLeft(Next, Out(s, <<>>), e.args)
        changed(i) == IsVariable(e.args[i]) /\ args.s.mem[Variable(s, e.args[i])] # args.v[i]
        done == Run(s.fns, e.fn, [args.s EXCEPT !.fn = e.fn], args.v)
    IN Out(Met([done.s EXCEPT !.fn = s.fn], "assigned after it was read", \E i \in DOMAIN e.args : changed(i)), done.v)

\* A part of a slice or a string.
Part(s, e) ==
    LET start == IF e.start.k = "none" THEN Out(s, 0) ELSE Eval(s, e.start)
        stop == IF e.stop.k = "none" THEN Out(start.s, 0) ELSE Eval(start.s, e.stop)
        whole == Eval(stop.s, e.e)
        to == IF e.stop.k = "none" THEN whole.v.len ELSE stop.v
    IN Out(whole.s, [ptr |-> Beside(whole.v.ptr, start.v), len |-> to - start.v])

\* Where an expression is.
PlaceOf(s, e) ==
    LET left == IF e.e.ty.k \in {"ptr"} THEN Eval(s, e.e) ELSE PlaceOf(s, e.e)
        base == IF e.e.ty.k = "array" THEN left ELSE Eval(s, e.e)
        i == Eval(base.s, e.i)
        narrow == Met(i.s, "narrow index", e.i.k # "int" /\ e.i.ty.w < 64)
    IN CASE IsVariable(e) -> Out(s, PointerTo(Variable(s, e)))
         [] e.k = "deref" -> Eval(s, e.e)
         [] e.k = "field" -> Out(left.s, Inner(left.v, e.i))
         [] e.k = "index" /\ e.e.ty.k = "array" -> Out(narrow, Inner(base.v, i.v + 1))
         [] e.k = "index" /\ e.e.ty.k = "ptr" -> Out(narrow, Beside(base.v, i.v))
         [] e.k = "index" /\ e.e.ty.k \in {"slice", "string"} -> Out(narrow, Beside(base.v.ptr, i.v))

Assigned(s, e) ==
    LET place == PlaceOf(s, e.l)
        v == Eval(place.s, e.r)
        n == Cast(v.s, v.v, e.ty, e.r.ty)
    IN Out(With(MetByCopy(v.s, e.l), place.v, n), n)

OpAssigned(s, e) ==
    LET r == Eval(s, e.r)
        l == Eval(r.s, e.l)
        n == Sum(e.op, l.v, Cast(r.s, r.v, e.ty, e.r.ty), e.ty)
        place == PlaceOf(l.s, e.l)
    IN Out(With(MetBySum(place.s, e.op, e.ty, l.v), place.v, n), n)

Summed(s, e) ==
    LET v == Both(s, e.l, e.r)
        x == Cast(s, v.x, e.ty, e.l.ty)
    IN Out(MetBySum(v.s, e.op, e.ty, x), Sum(e.op, x, Cast(s, v.y, e.ty, e.r.ty), e.ty))

CompareBoth(s, e) ==
    LET v == Both(s, e.r, e.l) IN Out(MetByCompare(v.s, e, v.y, v.x), Truth(Compared(e.op, v.y, v.x)))

Logical(s, e) ==
    LET v == Both(s, e.l, e.r)
        numbers == {e.l.ty.k, e.r.ty.k} # {"bool"}
    IN Out(Met(v.s, "logic of numbers", numbers), Truth(IF e.op = "AND" THEN v.x # 0 /\ v.y # 0 ELSE v.x # 0 \/ v.y # 0))

\* A cast of a cast drops what the inner one did.  An array is cast where it is.
Casted(s, e) ==
    LET v == IF e.e.ty.k = "array" /\ e.e.k # "string" THEN PlaceOf(s, e.e) ELSE Eval(s, e.e)
        n == Cast(v.s, v.v, e.ty, e.e.ty)
    IN Out(Met(v.s, "cast of a cast", e.e.k = "cast" /\ e.e.e.ty.k # "array" /\ n # Cast(v.s, Eval(s, e.e.e).v, e.ty, e.e.e.ty)), n)

Member(s, e) == LET v == Eval(s, e.e) IN Out(v.s, IF e.at = 0 THEN v.v.ptr ELSE v.v.len)

Eval(s, e) ==
    CASE e.k = "int" -> Out(MetByLiteral(s, e), e.v)
      [] e.k \in {"constant", "const"} -> Constant(s, e)
      [] e.k = "bool" -> Out(s, Truth(e.v))
      [] e.k = "string" -> Characters(s, e)
      [] e.k = "neg" -> LET v == Eval(s, e.e) IN Out(v.s, Wrap(-v.v, e.ty))
      [] e.k = "addr" -> PlaceOf(s, e.e)
      [] e.k \in {"var", "param", "deref", "field", "index"} ->
            LET p == PlaceOf(s, e) IN Out(MetBySmall(p.s, e.ty), At(p.s, p.v))
      [] e.k = "member" -> Member(s, e)
      [] e.k = "length" -> Out(s, e.e.ty.n)
      [] e.k = "sum" -> Summed(s, e)
      [] e.k = "compare" -> CompareBoth(s, e)
      [] e.k = "logic" -> Logical(s, e)
      [] e.k = "assign" -> Assigned(s, e)
      [] e.k = "opassign" -> OpAssigned(s, e)
      [] e.k = "cast" -> Casted(s, e)
      [] e.k = "invoke" -> Invoked(s, e)
      [] e.k = "array" -> Literal(s, e)
      [] e.k = "slice" -> Part(s, e)

\* What an uninitialised variable of the type looks like: its parts, to be set.
RECURSIVE Shape(_)
Shape(ty) ==
    CASE ty.k = "array" -> [i \in 1 .. ty.n |-> Shape(ty.of)]
      [] ty.k = "struct" -> [i \in DOMAIN ty.fields |-> Shape(ty.fields[i])]
      [] OTHER -> 0

Executed(r, stmt) ==
    LET declared == [r.s EXCEPT !.mem = (<<r.s.fn, "var", stmt.name>> :> Shape(stmt.ty)) @@ @]
        v == Eval(declared, stmt.e)
    IN CASE stmt.k = "declare" /\ stmt.e.k = "none" -> Out(declared, r.v)
         [] stmt.k = "declare" /\ stmt.e.k # "none" -> Out(With(v.s, PointerTo(<<r.s.fn, "var", stmt.name>>), v.v), r.v)
         [] stmt.k = "return" /\ stmt.e.k = "none" -> r
         [] stmt.k = "return" /\ stmt.e.k # "none" -> Eval(r.s, stmt.e)
         [] OTHER -> Out(Eval(r.s, stmt).s, r.v)

Run(fns, f, s, args) ==
    LET parameters == [i \in {<<f, "param", j>> : j \in 0 .. Len(args) - 1} |-> args[i[3] + 1]]
    IN FoldLeft(Executed, Out([s EXCEPT !.mem = parameters @@ @], 0), fns[f].body)

\* What a program returns, and what its run has met.
Meaning(fns) ==
    LET r == Run(fns, 1, [mem |-> <<>>, fn |-> 1, fns |-> fns, met |-> {}], <<>>) IN [v |-> r.v, met |-> r.s.met]
=============================================================================
