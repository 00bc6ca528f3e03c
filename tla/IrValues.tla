------------------------------ MODULE IrValues ------------------------------
(***************************************************************************)
(* From typed expressions to IR (backends/ir.c): integers of every width,  *)
(* pointers, arrays, structs, slices and strings, for a body without       *)
(* branches.  IrGen has the control flow, over integers of one width.      *)
(*                                                                         *)
(* An expression is a record with its kind k and its type ty, as the typer *)
(* leaves it.  A result is the generator state g and the operand v.        *)
(***************************************************************************)
EXTENDS IrOperands, TypeLayout

NoExpr == [k |-> "none", ty |-> Void]

(***************************************************************************)
(* The function being generated: its ops, the types of its registers and   *)
(* locals, its 64-bit literals and the local of every variable;            *)
(* last_op_was_load; copy_operand, the local that is being declared; the   *)
(* data items, which all functions share; and whether the compiler gave up.*)
(***************************************************************************)
NewFunction(data) ==
    [ops |-> <<>>, regs |-> <<>>, locals |-> <<>>, literals |-> <<>>, var |-> <<>>,
     loaded |-> FALSE, copy |-> None, data |-> data, gaveup |-> FALSE]

Result(g, v) == [g |-> g, v |-> v]

NoCode(r) == [r EXCEPT !.g.gaveup = TRUE]

\* ir_append_op
Append1(g, op, args) ==
    [g EXCEPT !.ops = Append(@, [op |-> op, args |-> args]), !.loaded = (op = "LOAD")]

\* ir_append_op_dst
AppendDst(g, op, ty, args) ==
    LET Append2(h) ==
            Result([Append1(h, op, <<Reg(Len(h.regs))>> \o args) EXCEPT !.regs = Append(@, ty)], Reg(Len(h.regs)))
    IN Strict(Append2, g)

\* A LOAD of what r is the place of.
LoadFrom(r, ty) == Strict(LAMBDA x : AppendDst(x.g, "LOAD", ty, <<x.v>>), r)

\* ir_generate_lhs_load_if_needed, and the same for rhs: no backend sets the
\* flags that would keep an immediate as it is.
LoadIfNeeded(r, ty) ==
    LET Load1(x) == IF x.v.t = "imm" THEN LoadFrom(x, ty) ELSE x IN Strict(Load1, r)

\* ir_generate_cast_if_needed
CastIfNeeded(r, to, from) ==
    LET Cast1(x) ==
            IF to = from THEN x
            ELSE IF from.k \notin {"int", "uint"} \/ to.k \notin {"int", "uint"} THEN NoCode(x)
            ELSE IF from.w = to.w THEN x
            ELSE AppendDst(x.g, "CAST", to, <<x.v>>)
    IN Strict(Cast1, r)

\* ir_generate_expression and ir_generate_statement, which has no value; `lvalue'
\* asks for the place of an expression and not for its value.
RECURSIVE ir_generate(_, _, _)

Value(g, e) == ir_generate(g, e, FALSE)
Place(g, e) == ir_generate(g, e, TRUE)

GenInt(g, e) ==
    IF e.v < ImmediateLimit THEN Result(g, Imm(e.v))
    ELSE Result([g EXCEPT !.literals = Append(@, e.v)], Literal64(Len(g.literals)))

(***************************************************************************)
(* ir_const_to_operand, for a name or a marker whose value cv the typer    *)
(* knows, as 64 bits.  A negative number is or-ed into the bits of the     *)
(* operand's kind, and no one knows the kind it becomes.                   *)
(***************************************************************************)
GenConstant(g, e) ==
    LET n == IF e.ty.k = "int" THEN Signed(e.cv, 64) ELSE e.cv
        below == IF e.ty.k = "int" THEN ImmediateLimit \div 2 ELSE ImmediateLimit
    IN CASE e.ty.k \notin {"int", "uint", "bool"} -> NoCode(Result(g, None))
         [] n \in 0 .. below - 1 -> Result(g, Imm(n))
         [] n < 0 /\ n > 1 - below -> NoCode(Result(g, None))
         [] OTHER -> Result([g EXCEPT !.literals = Append(@, e.cv)], Literal64(Len(g.literals)))

\* A data item: its type, and its values with the bytes of each.
NewData(g, ty, bytes, items) ==
    Result([g EXCEPT !.data = Append(@, [ty |-> ty, bytes |-> bytes, items |-> items])],
           Data(Len(g.data)))

\* A literal is an array of characters; the typer casts it where a string is
\* expected.
GenString(g, e) == NewData(g, e.ty, 1, e.items)

\* AST_KIND_IDENT
GenVariable(g, e, lvalue) ==
    LET at == IF e.k = "var" THEN Local(g.var[e.name]) ELSE Parameter(e.i)
    IN IF lvalue THEN Result(g, at) ELSE AppendDst(g, "LOAD", e.ty, <<at>>)

GenNegation(g, e) ==
    LET r == Value(g, e.e) IN AppendDst(r.g, "NEG", e.ty, <<r.v>>)

GenDereference(g, e, lvalue) ==
    IF lvalue THEN Value(g, e.e) ELSE LoadFrom(Value(g, e.e), e.ty)

\* The place of an index or a member is an address already.
IsAddress(e) == e.k \in {"index", "field", "member", "sum", "assign", "opassign"}

GenAddress(g, e) ==
    LET Address1(r) == IF IsAddress(e.e) THEN r ELSE AppendDst(r.g, "LEA", e.ty, <<r.v>>)
    IN Strict(Address1, Place(g, e.e))

(***************************************************************************)
(* ir_generate_member_access: the base of a chain of members, and the      *)
(* offset of the last one from it.  A pointer inside a chain is loaded and *)
(* becomes the base.  "member" is the pointer (0) or length (8) of a slice *)
(* or string, "field" the field of a struct.                               *)
(***************************************************************************)
RECURSIVE MemberAccess(_, _)

MemberOffset(e) ==
    IF e.k = "member" THEN e.at
    ELSE Fields((IF e.e.ty.k = "ptr" THEN e.e.ty.to ELSE e.e.ty).fields).offsets[e.i]

\* The pointer at offset left.at of left.v.
PointerIn(left, ptr) ==
    LoadFrom(AppendDst(left.g, "LEA_INDEX", Pointer(ptr), <<left.v, Imm(left.at), 1>>), ptr)

Onward(left, e) ==
    IF e.k = "field" /\ e.e.ty.k = "ptr" /\ e.e.k \in {"field", "member"}
    THEN Strict(LAMBDA base : base @@ [at |-> MemberOffset(e)], PointerIn(left, e.e.ty))
    ELSE [left EXCEPT !.at = @ + MemberOffset(e)]

\* Only a variable starts a chain.
ChainBase(g, e) ==
    [(IF e.ty.k = "ptr" THEN Value(g, e) ELSE Place(g, e)) EXCEPT
        !.g.gaveup = @ \/ e.k \notin {"var", "param"}] @@ [at |-> 0]

MemberAccess(g, e) ==
    IF e.k \in {"field", "member"} THEN Strict(LAMBDA left : Onward(left, e), MemberAccess(g, e.e))
    ELSE ChainBase(g, e)

GenMember(g, e, lvalue) ==
    LET At1(base) == AppendDst(base.g, "LEA_INDEX", Pointer(e.ty), <<base.v, Imm(base.at), 1>>)
        Given(place) == IF lvalue THEN place ELSE LoadFrom(place, e.ty)
    IN Strict(LAMBDA base : Given(At1(base)), MemberAccess(g, e))

\* The length of an array is a number.
GenArrayLength(g, e) == AppendDst(g, "LOAD", e.ty, <<Imm(e.e.ty.n)>>)

\* Arithmetic.
GenArithmetic(g, e) ==
    LET Operand(h, x) == LoadIfNeeded(CastIfNeeded(Value(h, x), e.ty, x.ty), e.ty)
        l == Operand(g, e.l)
        r == Operand(l.g, e.r)
    IN AppendDst(r.g, e.op, e.ty, <<l.v, r.v>>)

\* A comparison generates its right side first.
GenCompare(g, e) ==
    LET r == LoadIfNeeded(Value(g, e.r), e.r.ty)
        l == LoadIfNeeded(Value(r.g, e.l), e.l.ty)
    IN AppendDst(l.g, e.op, e.ty, <<l.v, r.v>>)

\* && and ||: both sides are evaluated.
GenLogic(g, e) ==
    LET Side(h, x) == LET r == Value(h, x) IN AppendDst(r.g, "TEST", x.ty, <<r.v>>)
        l == Side(g, e.l)
        r == Side(l.g, e.r)
    IN AppendDst(r.g, e.op, e.ty, <<l.v, r.v>>)

GenAssign(g, e) ==
    LET to == Place(g, e.l)
        r == CastIfNeeded(Value(to.g, e.r), e.ty, e.r.ty)
    IN Result(Append1(r.g, "STORE", <<to.v, r.v>>), r.v)

\* l op= r evaluates l twice: for its value, and for its place.
GenOpAssign(g, e) ==
    LET r == CastIfNeeded(Value(g, e.r), e.ty, e.r.ty)
        l == LoadIfNeeded(CastIfNeeded(Value(r.g, e.l), e.ty, e.l.ty), e.ty)
        sum == AppendDst(l.g, e.op, e.ty, <<l.v, r.v>>)
        to == Place(sum.g, e.l)
    IN Result(Append1(to.g, "STORE", <<to.v, sum.v>>), sum.v)

\* A cast of what was just loaded becomes part of the load.
GenCast(g, e) ==
    LET r == Value([g EXCEPT !.loaded = FALSE], e.e)
    IN IF r.g.loaded THEN Result([r.g EXCEPT !.regs[r.v.n + 1] = e.ty], r.v)
       ELSE AppendDst(r.g, "CAST", e.ty, <<r.v>>)

\* A call: the register of the result comes before those of the arguments.
GenInvoke(g, e) ==
    LET Argument(r, a) ==
            LET x == LoadIfNeeded(Value(r.g, a), a.ty) IN Result(x.g, Append(r.v, x.v))
        value == e.ty # Void
        result == IF value THEN Result([g EXCEPT !.regs = Append(@, e.ty)], Reg(Len(g.regs)))
                  ELSE Result(g, None)
        args == FoldLeft(Argument, Result(result.g, <<>>), e.args)
    IN Result(Append1(args.g, IF value THEN "INVOKEVALUE" ELSE "INVOKE", <<result.v, e.fn, args.v>>),
              result.v)

(***************************************************************************)
(* An array initializer is a data item with the items that are constants.  *)
(* Any other is stored straight into the local being declared, and the     *)
(* result is then the address of that element.                             *)
(***************************************************************************)
GenArray(g, e) ==
    LET Item(r, i) ==
            LET x == Value(r.g, e.items[i])
                lea == AppendDst(x.g, "LEA_INDEX", Pointer(e.ty.of), <<g.copy, Imm(i - 1), Layout(e.ty.of).size>>)
            IN IF e.items[i].k = "int" THEN Result(x.g, r.v)
               ELSE Result(Append1(lea.g, "STORE", <<lea.v, x.v>>), lea.v)
        Constant(x) == IF x.k = "int" THEN x.v ELSE 0
        items == FoldLeft(Item, Result(g, Data(Len(g.data))), [i \in DOMAIN e.items |-> i])
        data == NewData(items.g, e.ty, Stride(e.ty.of), [i \in 1 .. e.ty.n |->
                          IF i \in DOMAIN e.items THEN Constant(e.items[i]) ELSE 0])
    IN Result(data.g, items.v)

\* The address the elements are counted from: a pointer, the pointer of a slice
\* or string, or the place of an array.
ElementsOf(g, e) ==
    LET elem == Pointer(IF e.ty.k = "string" THEN Char ELSE e.ty.of)
        First(place) == AppendDst(place.g, "LEA_INDEX", Pointer(elem), <<place.v, Imm(0), 8>>)
    IN CASE e.ty.k = "ptr" -> Value(g, e)
         [] e.ty.k \in {"string", "slice"} -> LoadFrom(Strict(First, Place(g, e)), elem)
         [] OTHER -> Place(g, e)

\* AST_KIND_INDEX
GenIndex(g, e, lvalue) ==
    LET base == ElementsOf(g, e.e)
        i == Value(base.g, e.i)
        place == AppendDst(i.g, "LEA_INDEX", Pointer(e.ty), <<base.v, i.v, Stride(e.ty)>>)
    IN IF lvalue \/ e.ty.k = "array" THEN place ELSE LoadFrom(place, e.ty)

(***************************************************************************)
(* AST_KIND_SLICE: a copy of the slice, whose pointer is moved by start,   *)
(* and whose length becomes stop - start, or is reduced by start.          *)
(***************************************************************************)
Size == UnsignedOf(64)

\* The pointer (0) or the length (1) of a slice.
PartOf(g, copy, i, ty) == AppendDst(g, "LEA_INDEX", Pointer(ty), <<copy, Imm(i), 8>>)

\* What is at `at' becomes the result of an op on it; LOAD uses one name of the
\* address up, and STORE the other.
Modified(at, ty, Op(_, _)) ==
    LET Stored(at1) ==
            Strict(LAMBDA new : Append1(new.g, "STORE", <<at1.v, new.v>>),
                   Strict(LAMBDA old : Op(old.g, old.v), AppendDst(at1.g, "LOAD", ty, <<at.v>>)))
    IN Strict(Stored, AppendDst(at.g, "ALIAS", Pointer(ty), <<at.v>>))

SliceFrom(g, elem, copy, start) ==
    LET Move1(h, old) == AppendDst(h, "LEA_INDEX", elem, <<old, start, Stride(elem.to)>>)
    IN Strict(LAMBDA at : Modified(at, elem, Move1), PartOf(g, copy, 0, elem))

SliceToEnd(g, copy, start) ==
    LET Reduce(h, old) == AppendDst(h, "SUB", Size, <<old, start>>)
    IN Strict(LAMBDA at : Modified(at, Size, Reduce), PartOf(g, copy, 1, Size))

SliceUpTo(g, copy, start, stop) ==
    LET Stored(at) ==
            Strict(LAMBDA len : Append1(len.g, "STORE", <<at.v, len.v>>), AppendDst(at.g, "SUB", Size, <<stop, start>>))
    IN Strict(Stored, PartOf(g, copy, 1, Size))

\* The two ends need a name of the copy each.
Cut(copy, e, start, stop) ==
    LET elem == Pointer(IF e.e.ty.k = "string" THEN Char ELSE e.e.ty.of)
        Named(g) == AppendDst(g, "ALIAS", e.e.ty, <<copy.v>>)
        Start(alias1, alias2) == IF e.start = NoExpr THEN alias2.g ELSE SliceFrom(alias2.g, elem, alias1.v, start)
        Stop(alias2, g) == IF e.stop # NoExpr THEN SliceUpTo(g, alias2.v, start, stop) ELSE SliceToEnd(g, alias2.v, start)
        Both(alias1) ==
            Strict(LAMBDA alias2 : Strict(LAMBDA g : Stop(alias2, g), Start(alias1, alias2)), Named(alias1.g))
    IN IF e.start = NoExpr /\ e.stop = NoExpr THEN copy
       ELSE Result(Strict(Both, IF e.start = NoExpr THEN copy ELSE Named(copy.g)), copy.v)

GenSlice(g, e) ==
    LET Bound(h, x) == IF x = NoExpr THEN Result(h, Imm(0)) ELSE Value(h, x)
        Copied(place) == AppendDst(place.g, "CLONE", e.e.ty, <<place.v>>)
        Copy(start, stop) == Strict(LAMBDA copy : Cut(copy, e, start.v, stop.v), Strict(Copied, Place(stop.g, e.e)))
        From(start) == Strict(LAMBDA stop : Copy(start, stop), Bound(start.g, e.stop))
    IN Strict(From, Bound(g, e.start))

\* A declaration makes its local before its value.
GenDeclare(g, s) ==
    LET at == Local(Len(g.locals))
        h == [g EXCEPT !.var = (s.name :> Len(g.locals)) @@ @, !.locals = Append(@, s.ty), !.copy = at]
        Keep(r) == Append1([r.g EXCEPT !.copy = g.copy], "STORE", <<at, r.v>>)
    IN Result(IF s.e = NoExpr THEN [h EXCEPT !.copy = g.copy] ELSE Strict(Keep, Value(h, s.e)), None)

GenReturn(g, s) ==
    LET Give(r) == Append1(r.g, "RETVALUE", <<r.v>>)
    IN Result(IF s.e = NoExpr THEN Append1(g, "RET", <<>>) ELSE Strict(Give, Value(g, s.e)), None)

Generated(g, e, lvalue) ==
    CASE e.k = "int" -> GenInt(g, e)
      [] e.k \in {"constant", "const"} -> GenConstant(g, e)
      [] e.k = "bool" -> Result(g, Imm(IF e.v THEN 1 ELSE 0))
      [] e.k = "string" -> GenString(g, e)
      [] e.k \in {"var", "param"} -> GenVariable(g, e, lvalue)
      [] e.k = "neg" -> GenNegation(g, e)
      [] e.k = "deref" -> GenDereference(g, e, lvalue)
      [] e.k = "addr" -> GenAddress(g, e)
      [] e.k \in {"field", "member"} -> GenMember(g, e, lvalue)
      [] e.k = "length" -> GenArrayLength(g, e)
      [] e.k = "sum" -> GenArithmetic(g, e)
      [] e.k = "compare" -> GenCompare(g, e)
      [] e.k = "logic" -> GenLogic(g, e)
      [] e.k = "assign" -> GenAssign(g, e)
      [] e.k = "opassign" -> GenOpAssign(g, e)
      [] e.k = "cast" -> GenCast(g, e)
      [] e.k = "invoke" -> GenInvoke(g, e)
      [] e.k = "array" -> GenArray(g, e)
      [] e.k = "index" -> GenIndex(g, e, lvalue)
      [] e.k = "slice" -> GenSlice(g, e)
      [] e.k = "declare" -> GenDeclare(g, e)
      [] e.k = "return" -> GenReturn(g, e)

ir_generate(g, e, lvalue) == CHOOSE r \in {Generated(h, e, lvalue) : h \in {g}} : TRUE

\* The declaration of a function: a RET unless it has returned.
GenFunction(fn, data) ==
    LET End(g) == IF Last(fn.body).k = "return" THEN g ELSE Append1(g, "RET", <<>>)
    IN Strict(End, FoldLeft(LAMBDA g, s : ir_generate(g, s, FALSE).g, NewFunction(data), fn.body))

\* The functions of a program, which share the data items.
GenProgram(fns) ==
    LET With1(p, fn, g) == [fns |-> Append(p.fns, g @@ [params |-> fn.params, ret |-> fn.ret]), data |-> g.data]
    IN FoldLeft(LAMBDA p, fn : CHOOSE q \in {With1(p, fn, g) : g \in {GenFunction(fn, p.data)}} : TRUE,
                [fns |-> <<>>, data |-> <<>>], fns)
=============================================================================
