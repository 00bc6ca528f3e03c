------------------------------ MODULE X86Layout ------------------------------
(***************************************************************************)
(* Where the machine code goes (backends/x86_64.c): the text section is    *)
(* written function by function, block by block along the chain of each,   *)
(* and branches and calls get the distances to their targets, at once when *)
(* the target has an offset, else by a relocation.                         *)
(*                                                                         *)
(* A function is a record: its kind; head and tail, the bytes of prologue  *)
(* and epilogue (of a native, of its stub); was, the generated_offset it   *)
(* already has; and its blocks in the order of the chain, which is how a   *)
(* branch names them: IrBlocks shows that chains neither meet nor turn     *)
(* back.  Ops other than branches, calls and returns are so many bytes.    *)
(***************************************************************************)
EXTENDS Integers, Sequences

CONSTANT Programs   \* sequences of functions, the first with index 1

Invalid == -1       \* LL_IR_FUNCTION_OFFSET_INVALID

Ops ==
    [op : {"code", "return"}, n : Nat] \union [op : {"branch"}, to : Nat]
        \union [op : {"cond"}, n : Nat, then : Nat, else : Nat] \union [op : {"invoke"}, n : Nat, fn : Nat]

IsBranch(op) == op.op \in {"branch", "cond"}

\* What IrGen makes: branches of a function name blocks of it, a conditional one
\* is the last op, and a block has one branch (BlocksCanBeLaidOut of IrEval).
BlockAssumption(blocks, b) ==
    /\ \A i \in DOMAIN blocks[b] :
        /\ blocks[b][i].op = "branch" => blocks[b][i].to \in DOMAIN blocks
        /\ blocks[b][i].op = "cond" =>
            /\ blocks[b][i].then \in DOMAIN blocks /\ blocks[b][i].else \in DOMAIN blocks
            /\ i = Len(blocks[b])
    /\ \A i, k \in DOMAIN blocks[b] : IsBranch(blocks[b][i]) /\ IsBranch(blocks[b][k]) => i = k

Functions ==
    [kind : {"code", "native", "extern"}, head : Nat, tail : Nat, was : Nat \union {Invalid},
     blocks : Seq(Seq(Ops))]

ASSUME ProgramsAssumption ==
    \A p \in Programs :
        /\ p \in Seq(Functions) /\ p # <<>>
        /\ \A f \in DOMAIN p :
            /\ p[f].kind = "code" => p[f].blocks # <<>>
            /\ \A b \in DOMAIN p[f].blocks :
                /\ BlockAssumption(p[f].blocks, b)
                /\ \A i \in DOMAIN p[f].blocks[b] :
                    p[f].blocks[b][i].op = "invoke" => p[f].blocks[b][i].fn \in DOMAIN p

VARIABLES
    program,
    fi,         \* the function being generated
    pos,        \* "head", "ops" (of block bi, pc of them done), "patch", "tail", "link", "done"
    bi, pc,
    text,       \* section_text.count
    offset,     \* generated_offset of the blocks of each function, as far as they have one
    fixup,      \* fixup_offset of the blocks of fi
    fn_offset,  \* generated_offset of the functions
    relocs,     \* branch_relocations
    fn_relocs,
    jumps,      \* branches in the text: where they end, displacement, width, when taken, their op
    calls,      \* calls: where they end, displacement and function
    returns     \* where control goes after a return

layout == <<text, offset, fixup, fn_offset>>
tables == <<relocs, fn_relocs>>
sites == <<jumps, calls, returns>>
vars == <<program, fi, pos, bi, pc, layout, tables, sites>>

Fn == program[fi]
Blocks == Fn.blocks
Op == Blocks[bi][pc + 1]

Init ==
    /\ program \in Programs
    /\ fi = 1 /\ pos = "head" /\ bi = 0 /\ pc = 0
    /\ text = 0
    /\ offset = [f \in DOMAIN program |-> <<>>]
    /\ fixup = <<>>
    /\ fn_offset = [f \in DOMAIN program |-> program[f].was]
    /\ relocs = <<>> /\ fn_relocs = <<>>
    /\ jumps = <<>> /\ calls = <<>> /\ returns = <<>>
-----------------------------------------------------------------------------
NextFunction ==
    /\ fi' = fi + 1
    /\ pos' = IF fi = Len(program) THEN "link" ELSE "head"

\* Block b starts where the text ends.
StartBlock(b, end) ==
    /\ bi' = b /\ pc' = 0
    /\ offset' = [offset EXCEPT ![fi] = Append(@, end)]

SkipExtern ==
    /\ pos = "head" /\ Fn.kind = "extern"
    /\ NextFunction
    /\ UNCHANGED <<program, bi, pc, layout, tables, sites>>

\* A native is a jump to its address; no bytes when it is not found.
NativeStub ==
    /\ pos = "head" /\ Fn.kind = "native"
    /\ fn_offset' = [fn_offset EXCEPT ![fi] = text]
    /\ text' = text + Fn.head
    /\ NextFunction
    /\ UNCHANGED <<program, bi, pc, offset, fixup, tables, sites>>

Prologue ==
    /\ pos = "head" /\ Fn.kind = "code"
    /\ fn_offset' = [fn_offset EXCEPT ![fi] = text]
    /\ text' = text + Fn.head
    /\ relocs' = <<>>
    /\ fixup' = [b \in DOMAIN Blocks |-> 0]
    /\ StartBlock(1, text')
    /\ pos' = "ops"
    /\ UNCHANGED <<program, fi, fn_relocs, sites>>

\* The op at hand has been written, in n bytes.
Emitted(n) ==
    /\ text' = text + n
    /\ pc' = pc + 1
    /\ UNCHANGED <<program, fi, pos, bi, offset, fn_offset>>

At(op) == pos = "ops" /\ pc < Len(Blocks[bi]) /\ Op.op = op

Code ==
    /\ At("code")
    /\ Emitted(Op.n)
    /\ UNCHANGED <<fixup, tables, sites>>

Jump(end, disp, short, taken) ==
    [end |-> end, disp |-> disp, short |-> short, taken |-> taken, fn |-> fi, op |-> Op]

HasOffset(b) == b <= Len(offset[fi])
Relative(b) == offset[fi][b] - text

\* Mutant: the distance from the start of the jump.
RelativeToStart(d, n) == d

\* A displacement counts from the end of the jump, of n bytes.
FromEnd(d, n) == d - n

\* Mutant: no cast.
NoCast(d) == d

\* The cast to a signed char of what a rel8 is given.
SignedChar(d) == ((d + 128) % 256) - 128

\* Back to a block with an offset.  Whether a rel8 will do is asked of the
\* distance from the start of the jump.
BranchBack ==
    /\ At("branch") /\ HasOffset(Op.to)
    /\ LET d == Relative(Op.to)
       IN IF d >= -128 /\ d <= 127
          THEN /\ jumps' = Append(jumps, Jump(text + 2, SignedChar(FromEnd(d, 2)), TRUE, "always"))
               /\ Emitted(2)
          ELSE /\ jumps' = Append(jumps, Jump(text + 5, FromEnd(d, 5), FALSE, "always"))
               /\ Emitted(5)
    /\ UNCHANGED <<fixup, tables, calls, returns>>

\* A rel32 of 0 that ends n bytes from here, to be patched for its target.
JumpAhead(n, to, taken) ==
    /\ jumps' = Append(jumps, Jump(text + n, 0, FALSE, taken))
    /\ fixup' = [fixup EXCEPT ![bi] = text + n - 4]
    /\ relocs' = Append(relocs, [from |-> bi, to |-> to])
    /\ Emitted(n)
    /\ UNCHANGED <<fn_relocs, calls, returns>>

BranchAhead ==
    /\ At("branch") /\ ~HasOffset(Op.to)
    /\ JumpAhead(5, Op.to, "always")

\* Mutant: the comparison is not inverted.
TakenAsCompared(op) == "true"

\* The jcc goes to the target that is not the next block, so it is the inverse of
\* the comparison when that is the else block.
Taken(op) == IF op.then = bi + 1 THEN "false" ELSE "true"

\* A test, unless the flags are already set, and a jcc.  With neither target next
\* the compiler stops ("figure this out").
BranchCond ==
    /\ At("cond") /\ bi + 1 \in {Op.then, Op.else}
    /\ JumpAhead(Op.n + 6, IF Op.then = bi + 1 THEN Op.else ELSE Op.then, Taken(Op))

\* Mutant: the distance from the start of the call.
CallFromStart(f, end) == (IF fn_offset[f] = Invalid THEN 0 ELSE fn_offset[f]) - (end - 5)

\* The displacement of a call that ends at `end'; without the offset of the
\* function when that is still to come.
CallDisp(f, end) == (IF fn_offset[f] = Invalid THEN 0 ELSE fn_offset[f]) - end

\* A call of a function with an offset, and of one without.
Invoke ==
    /\ At("invoke") /\ program[Op.fn].kind # "extern"
    /\ LET end == text + Op.n + 5
       IN /\ calls' = Append(calls, [end |-> end, disp |-> CallDisp(Op.fn, end), to |-> Op.fn])
          /\ fn_relocs' = IF fn_offset[Op.fn] = Invalid THEN Append(fn_relocs, [fn |-> Op.fn, at |-> end - 4])
                          ELSE fn_relocs
    /\ Emitted(Op.n + 5)
    /\ UNCHANGED <<fixup, relocs, jumps, returns>>

\* RET is a jump of 0 bytes; RETVALUE puts the value where the caller finds it.
Return ==
    /\ At("return")
    /\ returns' = Append(returns, [fn |-> fi, end |-> text + Op.n])
    /\ Emitted(Op.n)
    /\ UNCHANGED <<fixup, tables, jumps, calls>>

EndBlock ==
    /\ pos = "ops" /\ pc = Len(Blocks[bi])
    /\ IF bi < Len(Blocks)
       THEN StartBlock(bi + 1, text) /\ UNCHANGED pos
       ELSE pos' = "patch" /\ pc' = 0 /\ UNCHANGED <<bi, offset>>
    /\ UNCHANGED <<program, fi, text, fixup, fn_offset, tables, sites>>

\* Writes the displacement whose four bytes are at `at'.
Write(list, at, disp) ==
    [i \in DOMAIN list |-> IF list[i].end = at + 4 THEN [list[i] EXCEPT !.disp = disp] ELSE list[i]]

\* Mutant: the distance from the field.
DistanceFromField(r) == offset[fi][r.to] - fixup[r.from]

\* From the end of the jump to its target.
Distance(r) == offset[fi][r.to] - fixup[r.from] - 4

\* One relocation of the function, of which pc are done.
Patch ==
    /\ pos = "patch" /\ pc < Len(relocs)
    /\ LET r == relocs[pc + 1]
       IN jumps' = Write(jumps, fixup[r.from], Distance(r))
    /\ pc' = pc + 1
    /\ UNCHANGED <<program, fi, pos, bi, layout, tables, calls, returns>>

Epilogue ==
    /\ pos = "patch" /\ pc = Len(relocs)
    /\ text' = text + Fn.tail
    /\ offset' = [offset EXCEPT ![fi] = Append(@, text)]
    /\ pc' = 0
    /\ NextFunction
    /\ UNCHANGED <<program, bi, fixup, fn_offset, tables, sites>>

\* The calls of functions that came later.
Link ==
    /\ pos = "link" /\ pc < Len(fn_relocs)
    /\ LET r == fn_relocs[pc + 1]
       IN calls' = [i \in DOMAIN calls |->
                        IF calls[i].end = r.at + 4 THEN [calls[i] EXCEPT !.disp = @ + fn_offset[r.fn]] ELSE calls[i]]
    /\ pc' = pc + 1
    /\ UNCHANGED <<program, fi, pos, bi, layout, tables, jumps, returns>>

Finish ==
    /\ pos = "link" /\ pc = Len(fn_relocs)
    /\ pos' = "done"
    /\ UNCHANGED <<program, fi, bi, pc, layout, tables, sites>>

Next ==
    \/ SkipExtern \/ NativeStub \/ Prologue
    \/ Code \/ BranchBack \/ BranchAhead \/ BranchCond \/ Invoke \/ Return
    \/ EndBlock \/ Patch \/ Epilogue
    \/ Link \/ Finish

Spec == Init /\ [][Next]_vars
-----------------------------------------------------------------------------
(***************************************************************************)
(* Properties.                                                             *)
(***************************************************************************)
\* The variables have their types: a rel8 is a signed char, a relocation is of
\* blocks of the function at hand.
TypeOK ==
    /\ pos \in {"head", "ops", "patch", "link", "done"}
    /\ fi \in 1 .. Len(program) + 1 /\ bi \in Nat /\ pc \in Nat /\ text \in Nat
    /\ \A f \in DOMAIN program : offset[f] \in Seq(Nat) /\ fn_offset[f] \in Nat \union {Invalid}
    /\ pos \in {"ops", "patch"} => \A i \in DOMAIN relocs : {relocs[i].from, relocs[i].to} \subseteq DOMAIN Blocks
    /\ \A i \in DOMAIN jumps :
        /\ jumps[i].end \in Nat /\ jumps[i].disp \in Int /\ jumps[i].op \in Ops
        /\ jumps[i].short => jumps[i].disp \in -128 .. 127
    /\ \A i \in DOMAIN calls : calls[i].end \in Nat /\ calls[i].disp \in Int

Start(j, b) == offset[j.fn][b]
Goal(j) == j.end + j.disp

\* Where a branch goes and where it falls through to are its targets, the then
\* block when the condition holds.
Lands(j) ==
    CASE j.taken = "always" -> Goal(j) = Start(j, j.op.to)
      [] j.taken = "true" -> Goal(j) = Start(j, j.op.then) /\ j.end = Start(j, j.op.else)
      [] j.taken = "false" -> Goal(j) = Start(j, j.op.else) /\ j.end = Start(j, j.op.then)

\* A branch whose distance a signed char holds, if it is short.
InReach(j) == j.short => j.end - Start(j, j.op.to) <= 128

\* Relocations, fixups and distances together take every branch of every function
\* to the block it names, but for a rel8 that is out of reach of its target.
JumpsInReachLand ==
    pos = "done" => \A i \in DOMAIN jumps : InReach(jumps[i]) => Lands(jumps[i])

\* A function had an offset from the evaluator (src/eval.c:97), and its code came
\* behind the call.
Misled(c) == program[c.to].was # Invalid /\ fn_offset[c.to] >= c.end

\* Every call reaches the function it names, whether that comes before or after, but
\* for a call that was made with an offset from the evaluator.
CallsLand ==
    pos = "done" => \A i \in DOMAIN calls :
        ~Misled(calls[i]) => calls[i].end + calls[i].disp = fn_offset[calls[i].to]

\* A relocation only writes the branch it was made for, once, and takes it to its
\* target: no two use the same four bytes, and none is left from another function.
PatchesOwn ==
    [][\A i \in DOMAIN jumps : jumps'[i] # jumps[i] =>
            ~jumps[i].short /\ jumps[i].disp = 0 /\ Lands(jumps'[i])]_vars

\* "if argc < 2 { return -1; }" (README.md): a return leaves the function, for its
\* epilogue.
ReturnsLeave ==
    pos = "done" => \A i \in DOMAIN returns :
        returns[i].end = offset[returns[i].fn][Len(program[returns[i].fn].blocks) + 1]
=============================================================================
