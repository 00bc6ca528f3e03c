----------------------------- MODULE X86Program -----------------------------
(***************************************************************************)
(* A program from its expressions to what the processor does:              *)
(* x86_64_backend_generate and x86_64_run of backends/x86_64.c, over the IR*)
(* of IrValues and with the instructions of X86Code, which X86Machine then *)
(* executes.  A body has no branches.  The first function is main.         *)
(* Programs are typed already, and Sources are typed by Typing first.      *)
(***************************************************************************)
EXTENDS Typing, SourceMeaning, X86Code, X86Machine

CONSTANTS
    Programs,       \* programs: sequences of functions, with parameters, result and body
    Sources,        \* programs of one function before typing, with result and body
    Garbage         \* what the bytes of memory and registers are at first

ASSUME ProgramsAssumption == \A i \in DOMAIN Programs : Programs[i] # <<>> /\ Programs[i][1].params = <<>>
ASSUME GarbageAssumption == Garbage \subseteq 0 .. 3 /\ Top % 16 = 0

VARIABLES
    program,    \* the program in the IR
    meant,      \* ghost: what the program means, and in `exact' what its source does
    phase,      \* "head", "ops" (oi of them done), "link", "run", "refused"
    fi, oi,     \* the function being generated, and the ops of it that are done
    b           \* the builder of that function

vars == <<program, meant, phase, fi, oi, b, machine>>

Fn == program.fns[fi]

IsMain == fi = 1

NewBuilder ==
    LET Local1(offsets, ty) ==
            Append(offsets, Aligned((IF offsets = <<>> THEN 0 ELSE Last(offsets)) + Stride(ty), Layout(ty).align))
        locals == FoldLeft(Local1, <<>>, Fn.locals)
    IN [f |-> Fn, data |-> program.data, regs |-> [i \in DOMAIN Fn.regs |-> Unset],
        locals |-> locals, params |-> <<>>, used |-> IF locals = <<>> THEN 0 ELSE Last(locals), args |-> 0,
        top |-> 0, type |-> Void, indirect |-> 0, code |-> <<>>, gaveup |-> ""]

Saved == <<"rbp", "rbx", "rdi", "rsi", "r12">>

Push1(c, r) == Emit(c, Ins("push", 64, R(r), R(r)))
Pop1(c, r) == Emit(c, Ins("pop", 64, R(r), R(r)))

\* Mutant: rdi and rsi are saved in the other order.
EnterFrameSwapped(c) ==
    Emit(Load(FoldLeft(Push1, c, <<"rbp", "rbx", "rsi", "rdi", "r12">>), "rbp", 64, R("rsp")),
         Ins("sub", 64, R("rsp"), I(0)))

\* The frame's size is patched in when it is known.
EnterFrame(c) ==
    Emit(Load(FoldLeft(Push1, c, Saved), "rbp", 64, R("rsp")), Ins("sub", 64, R("rsp"), I(0)))

FrameSizeAt == Len(Saved) + 2

\* The control word of the float unit goes to a slot, twice.
SaveControlWord(c) ==
    LET first == Emit([c EXCEPT !.used = @ + 4], Ins("mov", 32, InFrame(c.used + 4), I(0)))
    IN Emit([first EXCEPT !.used = @ + 4], Ins("mov", 32, InFrame(c.used + 8), I(0)))

\* Above rbp are the saved registers and the return address.
AboveFrame(off) == -off - 8 * (Len(Saved) + 1)

\* The n-th argument's offset in the frame: its register is moved there, and one
\* on the stack stays.
Home(c, n, ty) ==
    LET from == CallArgument(n)
        moved == MoveRegToStack(c, ty, from.reg)
    IN IF from.reg # "none" THEN [b |-> moved, at |-> moved.used]
       ELSE [b |-> ReserveArgument(c, n), at |-> AboveFrame(from.off)]

HomeResult(c) ==
    LET home == Home(c, 1, Pointer(Fn.ret)) IN IF IsLarge(Fn.ret) THEN [home.b EXCEPT !.indirect = home.at] ELSE c

HomeParameters(c) ==
    LET indirect == IF IsLarge(Fn.ret) THEN 1 ELSE 0
        Next1(d, j) == LET home == Home(d, j + indirect, Fn.params[j]) IN [home.b EXCEPT !.params = Append(@, home.at)]
    IN FoldLeft(Next1, c, [j \in DOMAIN Fn.params |-> j])

\* A program that is typed already.
TypedStart(fns) == [fns |-> fns, exact |-> [v |-> 0, met |-> {"no source"}], stop |-> FALSE]

\* One that is typed first.
SourceStart(source, typed) ==
    [fns |-> <<[params |-> <<>>, ret |-> source.ret, body |-> typed.body]>>,
     exact |-> ExactMeaning(source), stop |-> typed.t.stop]

\* The i-th of Programs and Sources.  What the typer never sets may have any value.
StartOf(i, unset) ==
    IF i <= Len(Programs) THEN TypedStart(Programs[i])
    ELSE SourceStart(Sources[i - Len(Programs)], TypeProgram(Sources[i - Len(Programs)], unset))

Init ==
    /\ \E i \in 1 .. Len(Programs) + Len(Sources), unset \in Garbage :
            \E start \in {StartOf(i, unset)} :
                /\ ~start.stop
                /\ program = GenProgram(start.fns)
                /\ meant = Meaning(start.fns) @@ [exact |-> start.exact]
    /\ phase = "head" /\ fi = 1 /\ oi = 0
    /\ b = [gaveup |-> "", code |-> <<>>]
    /\ text = <<>> /\ items = <<>> /\ reg = <<>> /\ mem = <<>> /\ flags = <<>>
    /\ at = <<1, 1>> /\ calls = <<>> /\ status = "ready"

Prologue ==
    /\ phase = "head"
    /\ LET entered == EnterFrame(NewBuilder)
           started == IF IsMain THEN SaveControlWord(entered) ELSE entered
       IN b' = HomeParameters(HomeResult(started))
    /\ phase' = IF Fn.gaveup THEN "refused" ELSE "ops"
    /\ UNCHANGED <<program, meant, fi, oi, machine>>

Op == Fn.ops[oi + 1]

\* The op becomes the code that the builder c has gained.
Selects(ops, Builder(_)) ==
    /\ phase = "ops" /\ oi < Len(Fn.ops) /\ Op.op \in ops
    /\ b' \in {Builder(Op.args)}
    /\ phase' = IF b'.gaveup = "" THEN "ops" ELSE "refused"
    /\ oi' = oi + 1
    /\ UNCHANGED <<program, meant, fi, machine>>

LOAD == Selects({"LOAD", "CAST"}, LAMBDA a : LoadCast(b, a[1], a[2], Op.op = "CAST"))
STORE == Selects({"STORE"}, LAMBDA a : StoreCast(b, a[1], a[2]))
CLONE == Selects({"CLONE"}, LAMBDA a : Clone(b, a[1], a[2]))
ALIAS == Selects({"ALIAS"}, LAMBDA a : Alias(b, a[1], a[2]))
LEA == Selects({"LEA"}, LAMBDA a : LeaOf(b, a[1], a[2]))
LEA_INDEX == Selects({"LEA_INDEX"}, LAMBDA a : LeaIndex(b, a[1], a[2], a[3], a[4]))
TEST == Selects({"TEST"}, LAMBDA a : Test(b, a[1], a[2]))
AND_OR == Selects({"AND", "OR"}, LAMBDA a : Logic(b, IF Op.op = "AND" THEN "and" ELSE "or", a[1], a[2], a[3]))
ADD_SUB == Selects({"ADD", "SUB"}, LAMBDA a : AddSub(b, IF Op.op = "ADD" THEN "add" ELSE "sub", a[1], a[2], a[3]))
MUL == Selects({"MUL"}, LAMBDA a : Mul(b, a[1], a[2], a[3]))
DIV == Selects({"DIV"}, LAMBDA a : Div(b, a[1], a[2], a[3]))
MOD == Selects({"MOD"}, LAMBDA a : Mod(b, a[1], a[2], a[3]))
COMPARE == Selects(DOMAIN Conditions, LAMBDA a : Compare(b, Op.op, a[1], a[2], a[3]))
NEG == Selects({"NEG"}, LAMBDA a : Neg(b, a[1], a[2]))
INVOKE == Selects({"INVOKE", "INVOKEVALUE"}, LAMBDA a : Invoke(b, a[1], a[2], program.fns[a[2]].ret, a[3]))
RET == Selects({"RET"}, LAMBDA a : Emit(b, Ins("jmp", 32, Nothing, Nothing)))
RETVALUE == Selects({"RETVALUE"}, LAMBDA a : RetValue(b, a[1]))

\* Mutant: the frame's size is not rounded up.
FrameSizeUnaligned == b.used + b.args

FrameSize == Aligned(b.used + b.args, 16)

\* The end of a function, and its prologue's patch.
Epilogue ==
    /\ phase = "ops" /\ oi = Len(Fn.ops)
    /\ LET sized == [b EXCEPT !.code[FrameSizeAt].src = I(FrameSize)]
           left == Emit(sized, Ins("add", 64, R("rsp"), I(FrameSize)))
           popped == FoldLeft(Pop1, left, Reverse(Saved))
       IN b' = Emit(popped, Ins("ret", 64, Nothing, Nothing))
    /\ text' = Append(text, b'.code)
    /\ phase' = IF fi < Len(program.fns) THEN "head" ELSE "link"
    /\ fi' = IF fi < Len(program.fns) THEN fi + 1 ELSE fi
    /\ oi' = 0
    /\ UNCHANGED <<program, meant, items, reg, mem, flags, at, calls, status>>

\* Every data item gets an address; a zero byte follows it.
FirstItem == 8

Addresses ==
    LET Next1(p, d) == [at |-> Append(p.at, p.next), next |-> p.next + d.bytes * Len(d.items) + 1]
    IN FoldLeft(Next1, [at |-> <<>>, next |-> FirstItem], program.data).at

WithItem(bytes, i) ==
    LET d == program.data[i]
    IN FoldLeft(LAMBDA m, j : Written(m, Addresses[i] + d.bytes * (j - 1), 8 * d.bytes, d.items[j]),
                bytes, [j \in DOMAIN d.items |-> j])

\* The data is placed, and main is called from outside.
Link ==
    /\ phase = "link"
    /\ phase' = "run" /\ status' = "running"
    /\ items' = Addresses
    /\ \E g \in Garbage :
        /\ reg' = StartRegisters(g)
        /\ mem' = FoldLeft(WithItem, StartMemory(g), [i \in DOMAIN program.data |-> i])
    /\ flags' = [zf |-> FALSE, lt |-> FALSE]
    /\ calls' = <<[back |-> Outside, rsp |-> Entry, kept |-> [r \in Preserved |-> reg'[r]]]>>
    /\ UNCHANGED <<program, meant, fi, oi, b, text, at>>

Run1 == phase = "run" /\ Executes /\ UNCHANGED <<program, meant, phase, fi, oi, b>>

Selection ==
    \/ LOAD \/ STORE \/ CLONE \/ ALIAS \/ LEA \/ LEA_INDEX \/ TEST \/ AND_OR \/ ADD_SUB \/ MUL
    \/ DIV \/ MOD \/ COMPARE \/ NEG \/ INVOKE \/ RET \/ RETVALUE

Next == Prologue \/ Selection \/ Epilogue \/ Link \/ Run1

Spec == Init /\ [][Next]_vars
----------------------------------------------------------------------------
\* Between two ops no scratch register is taken, and the slots of the IR's registers
\* are part of the frame.
BuilderOK ==
    /\ b.top = 0 /\ b.used \in Nat /\ b.args \in Nat
    /\ \A i \in DOMAIN b.regs : b.regs[i].at = "stack" => b.regs[i].v <= b.used

TypeOK ==
    /\ phase \in {"head", "ops", "link", "run", "refused"}
    /\ status \in {"ready", "running", "over", "fault"}
    /\ fi \in DOMAIN program.fns /\ oi \in 0 .. Len(Fn.ops)
    /\ phase = "ops" => BuilderOK
    /\ phase = "run" =>
        /\ DOMAIN reg = Registers /\ \A r \in Registers : reg[r] \in 0 .. Values(64) - 1
        /\ DOMAIN mem = 0 .. Top - 1 /\ \A a \in DOMAIN mem : mem[a] \in 0 .. 3

\* A program returns what it means, whatever the registers and the stack held before
\* (and does not trap), unless its run meets a situation of ValueMeaning.
RunsAsMeant ==
    meant.met = {} =>
        LET n == Values(Width(program.fns[1].ret))
        IN status # "fault" /\ (status = "over" => reg["rax"] % n = meant.v % n)

\* A program that the typer takes is compiled, and returns the number its source
\* computes: the types that are inferred, the implicit casts, the folding and the
\* evaluation of constants (src/typer.c, src/eval.c) change no number; unless one
\* leaves its type or the run meets a situation of SourceMeaning or ValueMeaning.
KeepsNumbers ==
    meant.exact.met = {} /\ meant.met = {} =>
        LET n == Values(Width(program.fns[1].ret))
        IN phase # "refused" /\ status # "fault" /\ (status = "over" => reg["rax"] % n = meant.exact.v % n)

\* What may overwrite more of the frame than the slot it is meant for.
Overwrites == {"wide literal", "small aggregate"}

\* A function returns behind its call, with the stack and the registers it has to
\* keep as they were: prologue, epilogue and every slot in between agree.
ReturnsToCaller ==
    status = "running" /\ Current.op = "ret" /\ meant.met \intersect Overwrites = {} =>
        LET call == Last(calls)
        IN /\ reg["rsp"] = call.rsp /\ Read(call.rsp, 64) = call.back
           /\ \A r \in Preserved : reg[r] = call.kept[r]

\* The frame, once its size is known, has room for every slot and every argument
\* the code of the function accesses, and the two do not meet.
FrameHolds ==
    LET Slots(o, w) == o.disp < 0 => o.disp + w \div 8 <= 0 /\ -o.disp <= b.used
        Arguments(o, w) == o.disp + w \div 8 <= b.args
        Within(o, w) ==
            o.k = "mem" =>
                /\ o.base = "rbp" /\ o.index = "none" => Slots(o, w)
                /\ o.base = "rsp" => Arguments(o, w)
    IN b.code # <<>> /\ Last(b.code).op = "ret" /\ meant.met \intersect Overwrites = {} =>
        /\ b.code[FrameSizeAt].src.n >= b.used + b.args
        /\ \A i \in DOMAIN b.code : LET c == b.code[i] IN c.op # "lea" => Within(c.dst, c.w) /\ Within(c.src, c.from)

\* Every function is called with the stack aligned to 16 bytes.
StackAligned == status = "running" /\ Current.op = "call" => reg["rsp"] % 16 = 0
=============================================================================
