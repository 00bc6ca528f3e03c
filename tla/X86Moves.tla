------------------------------ MODULE X86Moves ------------------------------
(***************************************************************************)
(* How the code generator (backends/x86_64.c) moves values: between the    *)
(* scratch registers of the machine and the slots of the stack frame in    *)
(* which the registers of the IR live, converting them on the way.  Floats *)
(* and named types are left out.                                           *)
(*                                                                         *)
(* A builder b is the X86_64_Backend while it generates the function f of  *)
(* the IR: the offsets of locals and parameters below rbp, the table of    *)
(* registers, the bytes of the frame used for slots and for arguments, the *)
(* top of the scratch registers, and the code so far.  gaveup says why an  *)
(* assertion or a todo ended the compiler.                                 *)
(***************************************************************************)
EXTENDS IrOperands, TypeLayout, Integers

\* Operands of an instruction.
R(r) == [k |-> "reg", r |-> r]
Mem(base, disp) == [k |-> "mem", base |-> base, disp |-> disp, index |-> "none", scale |-> 0]
I(n) == [k |-> "imm", n |-> n]
Item(i, n) == [k |-> "item", i |-> i, n |-> n]      \* byte n of a data item, by a relocation
Nothing == [k |-> "none"]

\* An instruction of w bits; one that extends reads `from' bits.
Ins(op, w, dst, src) == [op |-> op, w |-> w, from |-> w, dst |-> dst, src |-> src]
Extend(op, w, from, dst, src) == [op |-> op, w |-> w, from |-> from, dst |-> dst, src |-> src]

Emit(b, ins) == [b EXCEPT !.code = Append(@, ins)]

GiveUp(b, why) == IF b.gaveup = "" THEN [b EXCEPT !.gaveup = why] ELSE b

\* x86_64_get_variant: the bits of an instruction on a value of the type.
Width(t) == IF t.k \in {"int", "uint", "char", "bool"} THEN Larger(t.w, 8) ELSE 64

\* x86_64_backend_active_registers
Active == <<"rax", "rcx", "rbx", "r10", "r11", "r12", "r13", "r14", "r15">>

Scratch(b) == Active[b.top + 1]

\* ir_get_operand_type; an immediate has none, and asking is an assertion.
TypeOf(b, v) ==
    CASE v.t = "reg" -> b.f.regs[v.n + 1]
      [] v.t = "local" -> b.f.locals[v.n + 1]
      [] v.t = "param" -> b.f.params[v.n + 1]
      [] v.t = "data" -> b.data[v.n + 1].ty
      [] OTHER -> Void

TypeOrThat(b, v, ty) == IF v.t \in {"imm", "lit"} THEN ty ELSE TypeOf(b, v)

InFrame(offset) == Mem("rbp", -offset)

\* A local or parameter, whatever the kind of the operand that numbers it.
LocalAt(b, v) == InFrame(IF v.n < Len(b.locals) THEN b.locals[v.n + 1] ELSE 0)
ParameterAt(b, v) == InFrame(b.params[v.n + 1])
Slot(b, v) == InFrame(b.regs[v.n + 1].v)

Unset == [at |-> "unset", v |-> 0, usedup |-> FALSE]
OnStack(offset) == [at |-> "stack", v |-> offset, usedup |-> FALSE]
InFlags(cc) == [at |-> "flags", v |-> 0, cc |-> cc, usedup |-> FALSE]

SetRecord(b, dst, record) == [b EXCEPT !.regs[dst.n + 1] = record]
Record(b, v) == b.regs[v.n + 1]

Load(b, r, w, from) == Emit(b, Ins("mov", w, R(r), from))
Store(b, to, w, r) == Emit(b, Ins("mov", w, to, R(r)))
Lea(b, r, from) == Emit(b, Ins("lea", 64, R(r), from))
LoadItem(b, r, v, n) == Emit(b, Ins("mov", 64, R(r), Item(v.n, n)))

\* x86_64_useup_register
UseUp(b, v) ==
    IF Record(b, v).usedup THEN GiveUp(b, "used up") ELSE [b EXCEPT !.regs[v.n + 1].usedup = TRUE]

\* x86_64_load_register
LoadRegister(b, r, v, ty) ==
    IF Record(b, v).at # "stack" THEN GiveUp(b, "not on the stack")
    ELSE Load(UseUp(b, v), r, Width(ty), Slot(b, v))

\* A literal of 64 bits: for a narrower type the instruction chosen has no
\* immediate, and moves rax.
LoadLiteral(b, r, ty, n) ==
    IF ty \in {SignedOf(64), UnsignedOf(64)} THEN Load(b, r, 64, I(n))
    ELSE Load(b, r, Width(ty), R("rax"))

\* x86_64_load_operand_with_type, into Scratch(b), which it takes.
LoadOperandWithType(b, v, ty) ==
    LET r == Scratch(b)
        taken == [b EXCEPT !.top = @ + 1]
        used == UseUp(taken, v)
    IN CASE v.t = "reg" /\ Record(b, v).at = "stack" -> Load(used, r, Width(ty), Slot(b, v))
         [] v.t = "reg" /\ Record(b, v).at = "flags" -> Emit(used, Ins("set", 8, R(r), [k |-> "cc", cc |-> Record(b, v).cc]))
         [] v.t = "reg" /\ Record(b, v).at = "unset" -> GiveUp(b, "not on the stack")
         [] v.t = "imm" -> Load(taken, r, Width(ty), I(v.n))
         [] v.t = "lit" -> LoadLiteral(taken, r, ty, b.f.literals[v.n + 1])
         [] v.t = "param" -> Load(taken, r, Width(ty), ParameterAt(b, v))
         [] OTHER -> GiveUp(b, "unsupported operand")

LoadOperand(b, v) ==
    IF v.t \in {"imm", "lit"} THEN GiveUp(b, "an immediate has no type") ELSE LoadOperandWithType(b, v, TypeOf(b, v))

\* Mutant: registers stay taken.
ReleasedNone(b, n) == b

Released(b, n) == [b EXCEPT !.top = @ - n]

\* x86_64_generate_mov_to_register, which is always called with int64
MovToRegister(b, r, v) ==
    CASE v.t = "imm" -> Load(b, r, 64, I(v.n))
      [] v.t = "lit" -> Load(b, r, 64, I(b.f.literals[v.n + 1]))
      [] v.t = "reg" -> LoadRegister(b, r, v, SignedOf(64))
      [] v.t = "local" -> Lea(b, r, LocalAt(b, v))
      [] v.t = "param" -> Lea(b, r, ParameterAt(b, v))
      [] v.t = "data" -> LoadItem(b, r, v, 0)

Smaller(x, y) == IF x < y THEN x ELSE y

\* x86_64_generate_memcpy_assum_rdi_rsi, with a number of bytes that is known:
\* as many moves of the type's alignment as fit.
CopyBytes(b, ty, bytes) ==
    LET unit == Smaller(8, Layout(ty).align)
    IN Emit(Load(b, "rcx", 64, I(bytes \div unit)), Ins("movs", 8 * unit, Nothing, Nothing))

\* x86_64_generate_memcpy: the type is that of the operand, a pointer or a local.
Memcpy(b, dst, src, bytes) ==
    CopyBytes(MovToRegister(MovToRegister(b, "rdi", dst), "rsi", src), TypeOf(b, dst), bytes)

\* A slot of the frame; its offset is the builder's used afterwards.
TakeSlot(b, ty) == [b EXCEPT !.used = Aligned(@ + Stride(ty), Layout(ty).align)]

\* x86_64_make_struct_copy: a slot, filled from the address in register v.
MakeStructCopy(b, ty, v) ==
    LET taken == TakeSlot(b, ty)
    IN CopyBytes(LoadRegister(Lea(taken, "rdi", InFrame(taken.used)), "rsi", v, ty), ty, Layout(ty).size)

\* x86_64_move_reg_to_stack; of an aggregate, 64 bits
MoveRegToStack(b, ty, r) ==
    LET Keep(taken) == Store(taken, InFrame(taken.used), Width(ty), r) IN Strict(Keep, TakeSlot(b, ty))

\* x86_64_move_reg_alloc, and the record of the register dst
MoveRegAlloc(b, dst, ty, r) ==
    LET Noted(moved) == SetRecord(moved, dst, OnStack(moved.used)) IN Strict(Noted, MoveRegToStack(b, ty, r))
----------------------------------------------------------------------------
(***************************************************************************)
(* x86_64_get_move_info, for a load: the instruction that reads a value of *)
(* one type as another.                                                    *)
(***************************************************************************)
IntegerTypes == {"int", "uint", "char", "bool"}

FromUnsigned(to, from, r, place) ==
    IF from.w < to.w \/ to.k = "int"
    THEN IF from.w <= 8 THEN Extend("movzx", IF to.w <= 16 THEN 16 ELSE to.w, 8, R(r), place)
         ELSE IF from.w <= 16 THEN Extend("movzx", Larger(to.w, 32), 16, R(r), place)
         ELSE Ins("mov", Width(from), R(r), place)
    ELSE Ins("mov", Width(from), R(r), place)

\* Mutant: signed integers are widened with zeros.
FromSignedWithZeros(to, from, r, place) ==
    IF from.w < to.w THEN Extend("movzx", to.w, from.w, R(r), place)
    ELSE Ins("mov", Width(from), R(r), place)

FromSigned(to, from, r, place) ==
    IF from.w < to.w THEN Extend("movsx", to.w, from.w, R(r), place)
    ELSE Ins("mov", Width(from), R(r), place)

CanMove(to, from) ==
    \/ to = from
    \/ from.k \in {"int", "uint", "char"} /\ to.k \in IntegerTypes
    \/ from.k = "ptr" /\ to.k = "ptr"
    \/ from.k \in {"array", "string"}

Move(b, to, from, r, place) ==
    IF ~CanMove(to, from) THEN GiveUp(b, "no such cast")
    ELSE Emit(b, CASE to # from /\ from.k \in {"uint", "char"} -> FromUnsigned(to, from, r, place)
                   [] to # from /\ from.k = "int" -> FromSigned(to, from, r, place)
                   [] OTHER -> Ins("mov", Width(from), R(r), place))

\* Convert, and keep the result in a slot of its own.
MoveAndKeep(b, dst, to, from, place) ==
    MoveRegAlloc(Move(b, to, from, Scratch(b), place), dst, to, Scratch(b))
=============================================================================
