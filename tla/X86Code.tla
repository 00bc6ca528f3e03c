------------------------------ MODULE X86Code ------------------------------
(***************************************************************************)
(* Instruction selection (backends/x86_64.c): what each op of the IR       *)
(* becomes.  A body has no branches here: X86Layout has those, and where   *)
(* the code is placed.                                                     *)
(***************************************************************************)
EXTENDS X86Moves

(***************************************************************************)
(* x86_64_generate_load_cast: LOAD and CAST.                               *)
(***************************************************************************)
IsSlice(t) == t.k \in {"string", "slice"}

\* LOAD through a pointer.  What is large stays where it is: its value is its
\* address.
LoadThrough(b, dst, src) ==
    LET to == TypeOf(b, dst)
        elem == TypeOf(b, src).to
        address == Released(LoadOperand(b, src), 1)
    IN CASE elem.k # "slice" /\ IsLarge(elem) -> SetRecord(b, dst, Record(b, src))
         [] elem.k = "slice" -> GiveUp(b, "load of a slice")
         [] OTHER -> MoveAndKeep(address, dst, to, elem, Mem(Scratch(b), 0))

\* CAST of a register, which is not used up; to its own type, another name for it.
CastRegister(b, dst, src) ==
    LET to == TypeOf(b, dst)
        from == TypeOf(b, src)
    IN CASE to = from -> SetRecord(b, dst, Record(b, src))
         [] Record(b, src).at # "stack" -> GiveUp(b, "not on the stack")
         [] OTHER -> MoveAndKeep(b, dst, to, from, Slot(b, src))

\* A slice of the n elements at the address in Scratch(b): pointer and length in
\* a slot, whose address is the value.
KeepSlice(b, dst, n) ==
    LET ty == TypeOf(b, dst)
        r == Scratch(b)
        taken == TakeSlot(b, ty)
        pair == Emit(Store(taken, InFrame(taken.used), 64, r), Ins("mov", 64, InFrame(taken.used - 8), I(n)))
    IN MoveRegAlloc(Lea(pair, r, InFrame(taken.used)), dst, ty, r)

\* What is neither a large aggregate nor a slice: its slot is the local's, so the
\* value is the one the local has when it is used.
LoadSmall(b, dst, src, place) ==
    LET to == TypeOf(b, dst)
        from == TypeOf(b, src)
    IN IF to = from THEN SetRecord(b, dst, OnStack(-place.disp)) ELSE MoveAndKeep(b, dst, to, from, place)

LoadData(b, dst, src) ==
    LET to == TypeOf(b, dst)
        from == TypeOf(b, src)
        r == Scratch(b)
    IN CASE from.k = "array" /\ IsSlice(to) -> KeepSlice(LoadItem(b, r, src, 0), dst, from.n)
         [] from.k \in {"array", "struct", "slice"} /\ to # from -> GiveUp(b, "types differ")
         [] IsLarge(from) -> MoveRegAlloc(LoadItem(b, r, src, 0), dst, to, r)
         [] OTHER -> LoadSmall(b, dst, src, LocalAt(b, src))

LoadLocal(b, dst, src) ==
    LET to == TypeOf(b, dst)
        from == TypeOf(b, src)
        r == Scratch(b)
    IN CASE from.k = "array" /\ IsSlice(to) -> KeepSlice(Lea(b, r, LocalAt(b, src)), dst, from.n)
         [] from.k \in {"array", "struct", "slice"} /\ to # from -> GiveUp(b, "types differ")
         [] IsLarge(from) -> MoveRegAlloc(Lea(b, r, LocalAt(b, src)), dst, to, r)
         [] OTHER -> LoadSmall(b, dst, src, LocalAt(b, src))

\* The slot of a large parameter holds its address.
LoadParameter(b, dst, src) ==
    IF CanMove(TypeOf(b, dst), TypeOf(b, src)) THEN LoadSmall(b, dst, src, ParameterAt(b, src))
    ELSE GiveUp(b, "no such cast")

LoadImmediate(b, dst, src) ==
    LET ty == TypeOf(b, dst)
        r == Scratch(b)
        loaded == IF src.t = "imm" THEN Load(b, r, Width(ty), I(src.n))
                  ELSE LoadLiteral(b, r, ty, b.f.literals[src.n + 1])
    IN MoveRegAlloc(loaded, dst, ty, r)

LoadCast(b, dst, src, cast) ==
    CASE src.t = "reg" /\ ~cast -> LoadThrough(b, dst, src)
      [] src.t = "reg" /\ cast -> CastRegister(b, dst, src)
      [] src.t = "data" -> LoadData(b, dst, src)
      [] src.t = "local" -> LoadLocal(b, dst, src)
      [] src.t = "param" -> LoadParameter(b, dst, src)
      [] src.t \in {"imm", "lit"} -> LoadImmediate(b, dst, src)

(***************************************************************************)
(* x86_64_generate_clone_cast: CLONE, a copy of a slice that is a local or *)
(* a parameter; what a small value would take is not initialised.          *)
(***************************************************************************)
Clone(b, dst, src) ==
    LET ty == TypeOf(b, dst)
        taken == TakeSlot(b, ty)
        ends == Lea(taken, "rdi", InFrame(taken.used))
        from == IF src.t = "local" THEN Lea(ends, "rsi", LocalAt(b, src)) ELSE Load(ends, "rsi", 64, ParameterAt(b, src))
        copied == CopyBytes(from, ty, Stride(ty))
    IN IF src.t \notin {"local", "param"} \/ TypeOf(b, src) # ty \/ ~IsLarge(ty) THEN GiveUp(b, "no such clone")
       ELSE MoveRegAlloc(Lea(copied, Scratch(b), InFrame(taken.used)), dst, ty, Scratch(b))
----------------------------------------------------------------------------
(***************************************************************************)
(* x86_64_generate_store_cast: STORE.                                      *)
(***************************************************************************)
StoreLarge(b, dst, src, ty) ==
    CASE dst.t = "param" -> CopyBytes(MovToRegister(Load(b, "rdi", 64, ParameterAt(b, dst)), "rsi", src), ty, Stride(ty))
      [] dst.t \in {"local", "reg"} -> Memcpy(b, dst, src, Stride(ty))

\* A literal of 64 bits is stored whole, whatever the width of the local.
StoreLocal(b, dst, src, ty) ==
    LET r == Scratch(b)
    IN CASE src.t = "imm" -> Emit(b, Ins("mov", Width(ty), LocalAt(b, dst), I(src.n)))
         [] src.t = "lit" -> Store(Load(b, r, 64, I(b.f.literals[src.n + 1])), LocalAt(b, dst), 64, r)
         [] src.t = "reg" /\ TypeOf(b, src) = ty ->
                Store(Released(LoadOperand(b, src), 1), LocalAt(b, dst), Width(ty), r)
         [] OTHER -> GiveUp(b, "no such store")

StoreThrough(b, dst, src, ty) ==
    LET address == LoadOperand(b, dst)
        value == LoadOperandWithType(address, src, ty)
    IN IF TypeOrThat(b, src, ty) # ty THEN GiveUp(b, "types differ")
       ELSE Store(Released(value, 2), Mem(Scratch(b), 0), Width(ty), Scratch(address))

\* The elements of an array as a slice: only the pointer is stored.
StorePointer(b, dst, src) ==
    IF dst.t # "local" THEN GiveUp(b, "no such store")
    ELSE Store(Lea(b, Scratch(b), LocalAt(b, src)), LocalAt(b, dst), 64, Scratch(b))

StoreCast(b, dst, src) ==
    LET declared == TypeOf(b, dst)
        ty == IF dst.t = "reg" /\ declared.k = "ptr" THEN declared.to ELSE declared
        from == TypeOrThat(b, src, declared)
    IN CASE IsSlice(ty) /\ from.k = "array" -> StorePointer(b, dst, src)
         [] IsSlice(ty) /\ from.k # "array" /\ ~IsSlice(from) -> GiveUp(b, "unknown type")
         [] ty.k \in {"array", "struct"} /\ from # ty -> GiveUp(b, "types differ")
         [] IsLarge(ty) /\ (ty = from \/ IsSlice(from)) -> StoreLarge(b, dst, src, ty)
         [] ~IsLarge(ty) /\ dst.t = "local" -> StoreLocal(b, dst, src, ty)
         [] ~IsLarge(ty) /\ dst.t = "reg" -> StoreThrough(b, dst, src, ty)
         [] OTHER -> GiveUp(b, "no such store")
----------------------------------------------------------------------------
\* ALIAS: another name for a register, used up or not as that one is now.
Alias(b, dst, src) == SetRecord(b, dst, Record(b, src))

\* LEA; of an address in a register, it is computed and the result has no record.
LeaOf(b, dst, src) ==
    LET ty == TypeOf(b, dst)
        r == Scratch(b)
    IN CASE ty.k = "slice" -> GiveUp(b, "lea of a slice")
         [] ty.k # "slice" /\ src.t = "reg" -> Lea(Released(LoadOperand(b, src), 1), r, Mem(r, 0))
         [] ty.k # "slice" /\ src.t = "local" -> MoveRegAlloc(Lea(b, r, LocalAt(b, src)), dst, ty, r)
         [] ty.k # "slice" /\ src.t = "data" -> MoveRegAlloc(LoadItem(b, r, src, 0), dst, ty, r)
         [] OTHER -> GiveUp(b, "no such lea")

(***************************************************************************)
(* LEA_INDEX: base + index * scale, into a scratch register taken first.   *)
(* An index in a register is read as 64 bits, whatever its type.           *)
(***************************************************************************)
WithIndex(place, disp, index, scale) == [place EXCEPT !.disp = disp, !.index = index, !.scale = scale]

LeaBase(b, r, base, disp, index, scale) ==
    LET loaded == LoadOperand(b, base)
        Plus(place) == WithIndex(place, place.disp + disp, index, scale)
        large == base.t = "param" /\ IsLarge(TypeOf(b, base))
    IN CASE base.t = "reg" -> Lea(loaded, r, Plus(Mem(Scratch(b), 0)))
         [] base.t = "local" -> Lea(b, r, Plus(LocalAt(b, base)))
         [] base.t = "data" -> LoadItem(b, r, base, disp)
         [] large -> Lea(Load(b, r, 64, ParameterAt(b, base)), r, Plus(Mem(r, 0)))
         [] base.t = "param" /\ ~large -> Lea(b, r, Plus(ParameterAt(b, base)))

LeaIndex(b, dst, base, i, scale) ==
    LET ty == TypeOf(b, dst)
        r == Scratch(b)
        taken == [b EXCEPT !.top = @ + 1]
        index == LoadRegister([taken EXCEPT !.top = @ + 1], Scratch(taken), i, UnsignedOf(64))
        number == IF i.t = "lit" THEN b.f.literals[i.n + 1] ELSE i.n
        at == IF i.t = "reg" THEN LeaBase(index, r, base, 0, Scratch(taken), scale)
              ELSE LeaBase(taken, r, base, number * scale, "none", 0)
    IN IF ty.to.k \in {"bool", "slice"} \/ (i.t = "reg" /\ scale \notin {1, 2, 4, 8}) THEN GiveUp(b, "no such lea")
       ELSE [MoveRegAlloc(at, dst, ty, r) EXCEPT !.top = b.top]
----------------------------------------------------------------------------
\* Two operands, in Scratch(b) and the register after it.
LoadBoth(b, l, r, ty) == LoadOperandWithType(LoadOperandWithType(b, l, ty), r, ty)

Second(b) == Active[b.top + 2]

\* TEST: the truth of a value, which is the value.
Test(b, dst, v) ==
    LET ty == TypeOf(b, dst)
    IN [MoveRegAlloc(LoadOperandWithType(b, v, ty), dst, ty, Scratch(b)) EXCEPT !.top = b.top, !.type = ty]

Arithmetic(b, op, ty, dst, l, r) ==
    LET both == LoadBoth(b, l, r, ty)
        done == Emit(both, Ins(op, Width(ty), R(Scratch(b)), R(Second(b))))
    IN [MoveRegAlloc(done, dst, ty, Scratch(b)) EXCEPT !.top = b.top, !.type = ty]

\* AND and OR take the type that the op before, a TEST, has left.
Logic(b, op, dst, l, r) == Arithmetic(b, op, b.type, dst, l, r)

\* ADD and SUB
AddSub(b, op, dst, l, r) ==
    IF TypeOf(b, dst).k \notin {"int", "uint"} THEN GiveUp(b, "no such sum")
    ELSE Arithmetic(b, op, TypeOf(b, dst), dst, l, r)

\* MUL: in rax, times the other operand.
Mul(b, dst, l, r) ==
    LET ty == TypeOf(b, dst)
        clear == Emit(b, Ins("xor", 64, R("rdx"), R("rdx")))
        both == LoadBoth(clear, l, r, ty)
        product == Emit(both, Ins(IF ty.k = "int" THEN "imul" ELSE "mul", Width(ty), R(Second(b)), Nothing))
    IN IF ty.k \notin {"int", "uint"} \/ Scratch(b) # "rax" THEN GiveUp(b, "no such product")
       ELSE [MoveRegAlloc(product, dst, ty, "rax") EXCEPT !.top = b.top]

\* DIV and MOD: rax extended to rdx, by the other operand.  The divisor of an
\* unsigned division is rdx, which has just been cleared.
Division(b, dst, l, r, result) ==
    LET ty == TypeOf(b, dst)
        both == LoadBoth(b, l, r, ty)
        signed == Emit(Emit(both, Ins("cqo", 64, Nothing, Nothing)), Ins("idiv", Width(ty), R(Second(b)), Nothing))
        unsigned == Emit(Emit(both, Ins("xor", 64, R("rdx"), R("rdx"))), Ins("div", Width(ty), R("rdx"), Nothing))
    IN IF ty.k \notin {"int", "uint"} \/ Scratch(b) # "rax" THEN GiveUp(b, "no such division")
       ELSE [MoveRegAlloc(IF ty.k = "int" THEN signed ELSE unsigned, dst, ty, result) EXCEPT !.top = b.top]

Div(b, dst, l, r) == Division(b, dst, l, r, "rax")
Mod(b, dst, l, r) == Division(b, dst, l, r, "rdx")

Conditions == [EQ |-> "e", NEQ |-> "ne", GTE |-> "ge", GT |-> "g", LTE |-> "le", LT |-> "l"]

\* A comparison: the result stays in the flags, and its condition is signed.
Compare(b, op, dst, l, r) ==
    LET ty == TypeOf(b, l)
        both == LoadBoth(SetRecord(b, dst, InFlags(Conditions[op])), l, r, ty)
    IN IF ty.k \notin IntegerTypes THEN GiveUp(b, "no such comparison")
       ELSE [Emit(both, Ins("cmp", Width(ty), R(Scratch(b)), R(Second(b)))) EXCEPT !.top = b.top]

Neg(b, dst, v) ==
    LET ty == TypeOf(b, dst)
        negated == Emit(LoadOperandWithType(b, v, ty), Ins("neg", Width(ty), R(Scratch(b)), Nothing))
    IN IF ty.k # "int" THEN GiveUp(b, "no such negation")
       ELSE [MoveRegAlloc(negated, dst, ty, Scratch(b)) EXCEPT !.top = b.top]
----------------------------------------------------------------------------
(***************************************************************************)
(* The calling convention (src/callconv.c): four registers, then the stack *)
(* from 32 bytes on, whatever the type.                                    *)
(***************************************************************************)
ArgumentRegisters == <<"rcx", "rdx", "r8", "r9">>

Shadow == 32

\* Where the n-th argument is passed; on the stack, off bytes from its top.
CallArgument(n) ==
    IF n <= Len(ArgumentRegisters) THEN [reg |-> ArgumentRegisters[n], off |-> 0]
    ELSE [reg |-> "none", off |-> Shadow + 8 * (n - Len(ArgumentRegisters) - 1)]

\* Mutant: the bytes for arguments end where the last one starts.
ReserveArgumentShort(b, n) == [b EXCEPT !.args = Larger(@, CallArgument(n).off)]

\* stack_used_for_args covers every argument on the stack.
ReserveArgument(b, n) ==
    IF CallArgument(n).reg # "none" THEN b ELSE [b EXCEPT !.args = Larger(@, CallArgument(n).off + 8)]

(***************************************************************************)
(* INVOKE and INVOKEVALUE: copies of the large arguments, then the address *)
(* of the slot for a large result, then the arguments in their places.     *)
(***************************************************************************)
IsArgument(b, v) == v.t = "reg" /\ Record(b, v).at = "stack"

\* The offsets of the arguments, those of the copies for large ones.
PrepareArgument(p, v) ==
    LET ty == TypeOf(p.b, v)
        Copied(copy) == [b |-> copy, at |-> Append(p.at, copy.used)]
    IN IF ~IsArgument(p.b, v) THEN [p EXCEPT !.b = GiveUp(@, "no such argument")]
       ELSE IF IsLarge(ty) THEN Strict(Copied, MakeStructCopy(p.b, ty, v))
       ELSE [p EXCEPT !.at = Append(@, Record(p.b, v).v)]

\* In its register, or over a scratch register to its place on the stack.
PassArgument(b, n, op, w, place) ==
    LET to == CallArgument(n)
        r == IF to.reg # "none" THEN to.reg ELSE Scratch(b)
        loaded == Emit(ReserveArgument(b, n), Ins(op, w, R(r), place))
    IN IF to.reg # "none" THEN loaded ELSE Store(loaded, Mem("rsp", to.off), 64, r)

\* The arguments, which p.at are the offsets of, and before them the address of the
\* slot for a large result, which was taken last.
PassArguments(p, ret, args) ==
    LET large == IsLarge(ret)
        Op(ty) == IF IsLarge(ty) THEN "lea" ELSE "mov"
        Pass(c, i) ==
            LET ty == TypeOf(c, args[i])
            IN PassArgument(c, IF large THEN i + 1 ELSE i, Op(ty), Width(ty), InFrame(p.at[i]))
    IN FoldLeft(Pass, IF large THEN PassArgument(p.b, 1, "lea", 64, InFrame(p.b.used)) ELSE p.b,
                [i \in DOMAIN args |-> i])

Invoke(b, dst, fn, ret, args) ==
    LET Reserved(p) == IF IsLarge(ret) THEN [p EXCEPT !.b = TakeSlot(@, ret)] ELSE p
        Called(p) == Emit(PassArguments(p, ret, args), Ins("call", 64, [k |-> "fn", fn |-> fn], Nothing))
        Kept(c, slot) ==
            CASE dst = None -> c
              [] dst # None /\ IsLarge(ret) -> MoveRegAlloc(Lea(c, Scratch(b), InFrame(slot)), dst, ret, Scratch(b))
              [] OTHER -> MoveRegAlloc(c, dst, ret, "rax")
        Finish(p) ==
            IF p.b.gaveup # "" THEN p.b ELSE Strict(LAMBDA c : Kept(c, p.b.used), Called(p))
    IN Strict(Finish, Reserved(FoldLeft(PrepareArgument, [b |-> b, at |-> <<>>], args)))

(***************************************************************************)
(* RETVALUE; a large value is copied to where the caller wants it, from    *)
(* the address in the register with the number of the operand.             *)
(***************************************************************************)
RetValue(b, v) ==
    LET to == Load(b, "rdi", 64, InFrame(b.indirect))
        from == LoadRegister(to, "rsi", Reg(v.n), UnsignedOf(64))
        loaded == LoadOperandWithType(b, v, b.f.ret)
    IN IF IsLarge(b.f.ret) THEN CopyBytes(from, b.f.ret, Stride(b.f.ret))
       ELSE IF Scratch(b) # "rax" THEN GiveUp(b, "scratch registers are left taken")
       ELSE Released(loaded, 1)
=============================================================================
