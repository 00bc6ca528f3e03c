------------------------------- MODULE IrEval -------------------------------
(***************************************************************************)
(* Constants at compile time (src/eval.c): ll_eval_node compiles the       *)
(* expression into function 0, runs its IR and reads the result.           *)
(*                                                                         *)
(* ll_eval_fn pushes a frame for a call and never pops it; FRAME() is the  *)
(* last frame, of whichever function it was pushed for.  `calls' is the C  *)
(* stack: the functions being run, innermost last.                         *)
(***************************************************************************)
EXTENDS IrGen, AstMeaning

CONSTANT Programs   \* what is compiled: bodies of functions, and the constant

VARIABLES
    program,
    code,       \* code[f] the IR of function f
    constant,   \* the IR of the constant, and the operand of its value
    frames,     \* registers, locals, parameters, return value and next block
    calls,      \* function, block, ops done and register for the result
    status,     \* running, done or faulted
    result

vars == <<program, code, constant, frames, calls, status, result>>

Const == 0
Entry == 1

Fn(f) == IF f = Const THEN constant.g ELSE code[f]

Frame == Last(frames)
Call == Last(calls)

\* Mutant: room for one too few.
ReservedOneShort(n) == [i \in 1 .. n - 1 |-> 0]

\* oc_array_reserve makes room for twice as many as asked for, which fresh
\* memory of the arena fills with 0.
Reserved(n) == [i \in 1 .. 2 * n |-> 0]

PushFrame(f, args) ==
    [regs |-> Reserved(Fn(f).regs), locals |-> Reserved(Fn(f).locals),
     params |-> args \o [i \in 1 .. Len(args) |-> 0], ret |-> 0, next |-> Fn(f).pool.next[Entry]]

\* Mutant: the block behind the entry.
NewCallBehind(f, dst) == [fn |-> f, block |-> Entry + 1, pc |-> 0, dst |-> dst]

NewCall(f, dst) == [fn |-> f, block |-> Entry, pc |-> 0, dst |-> dst]

Init ==
    /\ program \in Programs
    /\ code = [f \in DOMAIN program.fns |-> GenFunction(program.fns[f])]
    /\ constant = ir_generate(NewFunction, program.constant)
    /\ frames = <<[regs |-> Reserved(constant.g.regs), locals |-> Reserved(constant.g.locals),
                   params |-> <<>>, ret |-> 0, next |-> constant.g.pool.next[Entry]]>>
    /\ calls = <<NewCall(Const, None)>>
    /\ status = "running"
    /\ result = 0
-----------------------------------------------------------------------------
\* get_storage_location: an array of the last frame.
Storage(t) == CASE t = "reg" -> Frame.regs [] t = "local" -> Frame.locals [] t = "param" -> Frame.params

\* Whether the array has room for an operand that is accessed as it is.
HasRoomFor(o) == o.n < Len(Storage(o.t))

\* Whether ll_eval_get_value finds an operand: inside what its array has room for
\* and, since it looks up the type of a register or local and the literals in
\* function f, one that f has.
InBounds(o, f) ==
    CASE o.t = "reg" -> o.n < Len(Storage(o.t)) /\ o.n < Fn(f).regs
      [] o.t = "local" -> o.n < Len(Storage(o.t)) /\ o.n < Fn(f).locals
      [] o.t = "param" -> o.n < Len(Storage(o.t))
      [] o.t = "lit" -> o.n < Len(Fn(f).literals)
      [] OTHER -> TRUE

\* ll_eval_get_value, with the literals of function f.
Value(o, f) ==
    CASE o.t = "imm" -> o.n
      [] o.t = "lit" -> Fn(f).literals[o.n + 1]
      [] OTHER -> Storage(o.t)[o.n + 1]

\* What a comparison reads: a register, whatever the operand is.
Compared(o) == Frame.regs[o.n + 1]

Ops == IF Call.block = NoBlock THEN <<>> ELSE Fn(Call.fn).ops[Call.block]
Running == status = "running" /\ calls # <<>> /\ Call.pc < Len(Ops)
Op == Ops[Call.pc + 1]

\* The arrays an op reads or writes outside of are no memory of the frame.
Reads ==
    CASE Op.op \in {"LT", "NEQ"} -> {Reg(o.n) : o \in ToSet(Op.args)}
      [] Op.op \in {"LOAD", "ADD", "STORE", "RETVALUE"} -> ToSet(Op.args)
      [] Op.op = "INVOKEVALUE" -> ToSet(Op.args[3])
      [] Op.op = "BRANCH_COND" -> {Op.args[1]}
      [] OTHER -> {}

\* current_function, which is already the one that is called when its arguments
\* are read.
CurrentFunction == IF Op.op = "INVOKEVALUE" THEN Op.args[2] ELSE Call.fn

\* Function 0 has no ident, whose type RETVALUE asks for.
Valid ==
    /\ \A o \in Reads : InBounds(o, CurrentFunction)
    /\ Op.op = "RETVALUE" => Call.fn # Const

NextOp == calls' = [calls EXCEPT ![Len(calls)].pc = @ + 1]
Set(o, v) ==
    frames' = [frames EXCEPT ![Len(frames)] =
        IF o.t = "reg" THEN [@ EXCEPT !.regs[o.n + 1] = v] ELSE [@ EXCEPT !.locals[o.n + 1] = v]]

Compute(op, dst, value) ==
    /\ Running /\ Op.op = op /\ Valid
    /\ Set(dst, value)
    /\ NextOp
    /\ UNCHANGED <<program, code, constant, status, result>>

Load == Compute("LOAD", Op.args[1], Value(Op.args[2], Call.fn))
Store == Compute("STORE", Op.args[1], Value(Op.args[2], Call.fn))
Add == Compute("ADD", Op.args[1], Value(Op.args[2], Call.fn) + Value(Op.args[3], Call.fn))
Lt == Compute("LT", Op.args[1], IF Compared(Op.args[2]) < Compared(Op.args[3]) THEN 1 ELSE 0)
Neq == Compute("NEQ", Op.args[1], IF Compared(Op.args[2]) # Compared(Op.args[3]) THEN 1 ELSE 0)

\* A return keeps the value and goes on with the next op.
Return ==
    /\ Running /\ Op.op \in {"RET", "RETVALUE"} /\ Valid
    /\ frames' = IF Op.op = "RET" THEN frames
                 ELSE [frames EXCEPT ![Len(frames)].ret = Value(Op.args[1], Call.fn)]
    /\ NextOp
    /\ UNCHANGED <<program, code, constant, status, result>>

\* The loop of ll_eval_fn starts block b, or is over.
Enter(b) ==
    IF b = NoBlock
    THEN /\ calls' = [calls EXCEPT ![Len(calls)].block = NoBlock]
         /\ UNCHANGED frames
    ELSE /\ calls' = [calls EXCEPT ![Len(calls)] = [@ EXCEPT !.block = b, !.pc = 0]]
         /\ frames' = [frames EXCEPT ![Len(frames)].next = Fn(Call.fn).pool.next[b]]

\* A branch writes next_block and leaves the block.
Branch ==
    /\ Running /\ Op.op \in {"BRANCH", "BRANCH_COND"} /\ Valid
    /\ Enter(IF Op.op = "BRANCH" THEN Op.args[1]
             ELSE IF Value(Op.args[1], Call.fn) # 0 THEN Op.args[2] ELSE Op.args[3])
    /\ UNCHANGED <<program, code, constant, status, result>>

\* The end of the ops: on to the next_block of the last frame.
EndBlock ==
    /\ status = "running" /\ calls # <<>> /\ Call.block # NoBlock /\ Call.pc = Len(Ops)
    /\ Enter(Frame.next)
    /\ UNCHANGED <<program, code, constant, status, result>>

\* Arguments are read from the frame of the caller, but with the register types
\* and the 64-bit literals of the function that is called.
Invoke ==
    /\ Running /\ Op.op = "INVOKEVALUE" /\ Valid
    /\ LET f == Op.args[2]
           args == [i \in DOMAIN Op.args[3] |-> Value(Op.args[3][i], f)]
       IN /\ frames' = Append(frames, PushFrame(f, args))
          /\ calls' = Append(calls, NewCall(f, Op.args[1]))
    /\ UNCHANGED <<program, code, constant, status, result>>

\* ll_eval_fn returns: the result goes to a register of the last frame, which is
\* still that of the function that returns.
ReturnFromCall ==
    /\ status = "running" /\ Len(calls) > 1 /\ Call.block = NoBlock
    /\ HasRoomFor(Call.dst)
    /\ Set(Call.dst, Frame.ret)
    /\ LET outer == Front(calls)
       IN calls' = [outer EXCEPT ![Len(outer)].pc = @ + 1]
    /\ UNCHANGED <<program, code, constant, status, result>>

\* An access outside of the memory of the frame or the literals, or to a null
\* pointer: C says nothing of what follows, and the model follows it no further.
Fault ==
    /\ \/ Running /\ ~Valid
       \/ status = "running" /\ Len(calls) > 1 /\ Call.block = NoBlock /\ ~HasRoomFor(Call.dst)
    /\ status' = "faulted"
    /\ UNCHANGED <<program, code, constant, frames, calls, result>>

\* ll_eval_node reads the value of the constant; of an operand that is neither
\* immediate, register nor local it returns what its variable happens to hold.
Finish ==
    /\ status = "running" /\ Len(calls) = 1 /\ Call.block = NoBlock
    /\ status' = "done"
    /\ IF constant.v.t \in {"imm", "reg", "local"}
       THEN IF constant.v.t = "imm" \/ HasRoomFor(constant.v) THEN result' = Value(constant.v, Const) ELSE result' \in {0, 1}
       ELSE result' \in {0, 1}
    /\ UNCHANGED <<program, code, constant, frames, calls>>

Next ==
    \/ Load \/ Store \/ Add \/ Lt \/ Neq
    \/ Return \/ Branch \/ EndBlock
    \/ Invoke \/ ReturnFromCall
    \/ Fault \/ Finish

Spec == Init /\ [][Next]_vars /\ WF_vars(Next)
-----------------------------------------------------------------------------
(***************************************************************************)
(* Properties.                                                             *)
(***************************************************************************)
Chain[f \in {Const} \union DOMAIN code, b \in Nat] ==
    IF b = NoBlock THEN {} ELSE {b} \union Chain[f, Fn(f).pool.next[b]]

\* The variables have their types; every call is in a block of its function.
TypeOK ==
    /\ status \in {"running", "done", "faulted"}
    /\ result \in Nat
    /\ calls # <<>> /\ Len(frames) >= Len(calls)
    /\ \A i \in DOMAIN calls : calls[i].block \in {NoBlock} \union Chain[calls[i].fn, Entry]
    /\ \A i \in DOMAIN frames :
        \A a \in {frames[i].regs, frames[i].locals, frames[i].params} : a \in Seq(Nat)

IsBranch(op) == op.op \in {"BRANCH", "BRANCH_COND"}
Generated == {constant.g} \union {code[f] : f \in DOMAIN code}

\* The machine code backend can only lay out a conditional branch one of whose
\* targets is the next block of the chain ("figure this out" in
\* x86_64_generate_block): whatever conditionals, loops and do-blocks are nested
\* in the condition and the parts, no block comes between.
CondBranchesFallThrough ==
    \A g \in Generated : \A b \in DOMAIN g.ops : \A i \in DOMAIN g.ops[b] :
        LET op == g.ops[b][i]
        IN op.op = "BRANCH_COND" => g.pool.next[b] \in {op.args[2], op.args[3]}

\* A block has one fixup_offset, so it may hold one branch only.
OneBranchPerBlock ==
    \A g \in Generated : \A b \in DOMAIN g.ops : Len(SelectSeq(g.ops[b], IsBranch)) <= 1

\* The chains of blocks that the IR generator makes have the form in which the
\* machine code backend can lay them out (BlockAssumption of X86Layout).
BlocksCanBeLaidOut == CondBranchesFallThrough /\ OneBranchPerBlock

\* Nothing is done after a call: functions call none, and the constant calls at
\* its very end.
CallsComeLast ==
    /\ \A f \in DOMAIN code : \A b \in DOMAIN code[f].ops : \A i \in DOMAIN code[f].ops[b] :
            code[f].ops[b][i].op # "INVOKEVALUE"
    /\ \A b \in DOMAIN constant.g.ops : \A i \in DOMAIN constant.g.ops[b] :
            constant.g.ops[b][i].op = "INVOKEVALUE" =>
                i = Len(constant.g.ops[b]) /\ constant.g.pool.next[b] = NoBlock

\* Where nothing is done after a call, the constant is what the source means:
\* registers, block order, fall through and break values together compute the
\* value of the program.
ValueIsMeaning == status = "done" /\ CallsComeLast => result = Meaning(program)

\* Then, too, the evaluation ends, and with a value.
EndsWithValue == CallsComeLast => <>(status = "done")

\* Whether a call has come back, or is about to.
Returned == Len(frames) > Len(calls) \/ (Len(calls) > 1 /\ Call.block = NoBlock)

\* A call one of whose arguments is in a register that the function that is
\* called does not have.
ArgumentBeyondCallee ==
    /\ Call.pc < Len(Ops) /\ Op.op = "INVOKEVALUE"
    /\ \E o \in ToSet(Op.args[3]) : o.t = "reg" /\ o.n >= Fn(Op.args[2]).regs

\* For programs without early returns, integer conditions and long numbers in
\* comparisons and arguments: what goes wrong goes wrong when a call reads its
\* arguments, or after one has come back.  Up to there, however deep the calls
\* nest, every operand is inside the frame of its own function and of its type.
FaultsNeedACall ==
    status = "faulted" \/ (status = "done" /\ result # Meaning(program)) => Returned \/ ArgumentBeyondCallee

\* "const keyword forces the expression to be evaluated at comptime. this is
\* simple, but we can also do things like call a function or block" (README.md):
\* a call leaves what the caller goes on with as it was.
CallLeavesCaller == status # "faulted" /\ (status = "done" => result = Meaning(program))
=============================================================================
