---------------------------- MODULE X86LayoutProofs ---------------------------
(***************************************************************************)
(* Every branch of every program reaches its targets, but for a rel8 out   *)
(* of reach of its target (LayoutLands).  A jump in the text has either    *)
(* reached its target or waits for a relocation that is still to be done   *)
(* (Pending); a relocation has exactly one jump that waits for it, since a *)
(* block makes one at most and jumps end at different places.              *)
(***************************************************************************)
EXTENDS X86Layout, TLAPS

\* The block a jump goes to, and the one it falls through to.
Target(j) == CASE j.taken = "always" -> j.op.to [] j.taken = "true" -> j.op.then [] j.taken = "false" -> j.op.else
Through(j) == IF j.taken = "true" THEN j.op.else ELSE j.op.then

Jumps ==
    [end : Nat, disp : Int, short : BOOLEAN, taken : {"always", "true", "false"}, fn : Nat, op : Ops]

\* Where the generator is: the blocks of fi have offsets up to bi, those of later
\* functions have none.
Place ==
    /\ program \in Programs
    /\ fi \in Nat /\ 1 <= fi /\ fi <= Len(program) + 1
    /\ pos \in {"head", "ops", "patch", "link", "done"}
    /\ bi \in Nat /\ pc \in Nat /\ text \in Nat
    /\ offset \in [DOMAIN program -> Seq(Nat)]
    /\ pos \in {"head", "ops", "patch"} => fi \in DOMAIN program
    /\ pos \in {"ops", "patch"} => Fn.kind = "code" /\ fixup \in [DOMAIN Blocks -> Nat]
    /\ pos = "ops" => bi \in DOMAIN Blocks /\ Len(offset[fi]) = bi /\ pc <= Len(Blocks[bi])
    /\ pos = "patch" => Len(offset[fi]) = Len(Blocks) /\ pc <= Len(relocs)
    /\ pos = "head" => offset[fi] = <<>>
    /\ \A f \in DOMAIN program : f > fi => offset[f] = <<>>

\* A jump waits for relocation r.
Waits(r) ==
    \E i \in DOMAIN jumps :
        /\ jumps[i].end = fixup[relocs[r].from] + 4
        /\ jumps[i].fn = fi /\ ~jumps[i].short
        /\ Target(jumps[i]) = relocs[r].to

\* Relocations are of the blocks so far; the one of this block is of an op behind us.
RelocsInv ==
    pos \in {"ops", "patch"} =>
        /\ relocs \in Seq([from : DOMAIN Blocks, to : DOMAIN Blocks])
        /\ \A r \in DOMAIN relocs :
            /\ relocs[r].from <= bi
            /\ pos = "ops" /\ relocs[r].from = bi => \E k \in 1 .. pc : IsBranch(Blocks[bi][k])
            /\ Waits(r)

\* The displacement takes the jump to its target, which has its offset.
Reached(j) ==
    /\ Target(j) \in DOMAIN offset[j.fn]
    /\ InReach(j) => Goal(j) = offset[j.fn][Target(j)]

\* A relocation still to be done will write the displacement.
Pending(j) ==
    /\ pos \in {"ops", "patch"} /\ j.fn = fi /\ ~j.short
    /\ \E r \in DOMAIN relocs :
        /\ pos = "patch" => r > pc
        /\ fixup[relocs[r].from] + 4 = j.end
        /\ relocs[r].to = Target(j)

\* A jcc ends where the other target starts, or will start when the block ends.
FallsThrough(j) ==
    j.taken # "always" =>
        /\ Through(j) \in DOMAIN program[j.fn].blocks
        /\ \/ Through(j) \in DOMAIN offset[j.fn] /\ j.end = offset[j.fn][Through(j)]
           \/ /\ pos = "ops" /\ j.fn = fi /\ j.end = text
              /\ Through(j) = bi + 1 /\ pc = Len(Blocks[bi])

JumpOK(j) ==
    /\ j.fn \in DOMAIN program /\ j.fn <= fi /\ (pos = "head" => j.fn < fi)
    /\ j.end <= text
    /\ j.short => j.taken = "always"
    /\ FallsThrough(j)
    /\ Reached(j) \/ Pending(j)

JumpsInv ==
    /\ jumps \in Seq(Jumps)
    /\ \A i, k \in DOMAIN jumps : i < k => jumps[i].end < jumps[k].end
    /\ \A i \in DOMAIN jumps : JumpOK(jumps[i])

Inv == Place /\ RelocsInv /\ JumpsInv
-----------------------------------------------------------------------------
\* The fields of an op have their types.
LEMMA OpFacts ==
    ASSUME NEW op \in Ops
    PROVE  /\ op.op \in {"code", "return", "branch", "cond", "invoke"}
           /\ op.op = "branch" => op.to \in Nat
           /\ op.op = "cond" => op.n \in Nat /\ op.then \in Nat /\ op.else \in Nat
           /\ op.op \in {"code", "return", "invoke"} => op.n \in Nat
           /\ op.op = "invoke" => op.fn \in Nat
BY DEF Ops

\* A program is a sequence of functions with blocks of ops.
LEMMA FunctionFacts ==
    ASSUME NEW p \in Programs
    PROVE  /\ Len(p) \in Nat /\ Len(p) >= 1 /\ DOMAIN p = 1 .. Len(p)
           /\ \A f \in DOMAIN p :
                /\ p[f].kind \in {"code", "native", "extern"}
                /\ p[f].head \in Nat /\ p[f].tail \in Nat /\ p[f].was \in Nat \union {Invalid}
                /\ p[f].blocks \in Seq(Seq(Ops))
                /\ p[f].kind = "code" => Len(p[f].blocks) >= 1
<1>1. p \in Seq(Functions) /\ p # <<>>
  BY ProgramsAssumption
<1>2. Len(p) \in Nat /\ Len(p) >= 1 /\ DOMAIN p = 1 .. Len(p)
  BY <1>1
<1>3. ASSUME NEW f \in DOMAIN p
      PROVE  /\ p[f].kind \in {"code", "native", "extern"}
             /\ p[f].head \in Nat /\ p[f].tail \in Nat /\ p[f].was \in Nat \union {Invalid}
             /\ p[f].blocks \in Seq(Seq(Ops))
             /\ p[f].kind = "code" => Len(p[f].blocks) >= 1
  <2>1. p[f] \in Functions
    BY <1>1
  <2>2. p[f].kind = "code" => p[f].blocks # <<>>
    BY ProgramsAssumption
  <2>3. p[f].blocks \in Seq(Seq(Ops))
    BY <2>1 DEF Functions
  <2>4. p[f].kind = "code" => Len(p[f].blocks) >= 1
    BY <2>2, <2>3
  <2> QED
    BY <2>1, <2>3, <2>4 DEF Functions
<1> QED
  BY <1>2, <1>3

\* A block of a function: its ops, and what is assumed of its branches.
LEMMA BlockFacts ==
    ASSUME NEW p \in Programs, NEW f \in DOMAIN p, NEW b \in DOMAIN p[f].blocks
    PROVE  /\ DOMAIN p[f].blocks = 1 .. Len(p[f].blocks) /\ Len(p[f].blocks) \in Nat
           /\ b \in Nat /\ b >= 1 /\ b <= Len(p[f].blocks)
           /\ Len(p[f].blocks[b]) \in Nat
           /\ DOMAIN p[f].blocks[b] = 1 .. Len(p[f].blocks[b])
           /\ \A i \in DOMAIN p[f].blocks[b] : p[f].blocks[b][i] \in Ops
           /\ BlockAssumption(p[f].blocks, b)
<1>1. p[f].blocks \in Seq(Seq(Ops))
  BY FunctionFacts
<1>2. p[f].blocks[b] \in Seq(Ops)
  BY <1>1
<1>3. BlockAssumption(p[f].blocks, b)
  BY ProgramsAssumption
<1> QED
  BY <1>1, <1>2, <1>3

USE DEF Fn, Blocks, Op

\* The types of what the actions read.
LEMMA Sorts ==
    ASSUME Place
    PROVE  /\ Len(program) \in Nat /\ DOMAIN program = 1 .. Len(program)
           /\ \A f \in DOMAIN program : offset[f] \in Seq(Nat) /\ program[f].tail \in Nat /\ program[f].head \in Nat
           /\ pos \in {"ops", "patch"} =>
                /\ fi \in DOMAIN program /\ DOMAIN Blocks = 1 .. Len(Blocks) /\ Len(Blocks) \in Nat
                /\ Len(Blocks) >= 1
           /\ pos = "ops" =>
                /\ bi \in DOMAIN Blocks /\ Len(Blocks[bi]) \in Nat
                /\ DOMAIN Blocks[bi] = 1 .. Len(Blocks[bi])
           /\ pos = "ops" /\ pc < Len(Blocks[bi]) =>
                pc + 1 \in DOMAIN Blocks[bi] /\ Op \in Ops
<1>1. program \in Programs
  BY DEF Place
<1>2. /\ Len(program) \in Nat /\ DOMAIN program = 1 .. Len(program)
      /\ \A f \in DOMAIN program : offset[f] \in Seq(Nat) /\ program[f].tail \in Nat /\ program[f].head \in Nat
  BY <1>1, FunctionFacts DEF Place
<1>3. pos \in {"ops", "patch"} =>
                /\ fi \in DOMAIN program /\ DOMAIN Blocks = 1 .. Len(Blocks) /\ Len(Blocks) \in Nat
                /\ Len(Blocks) >= 1
  BY <1>1, FunctionFacts DEF Place
<1>4. ASSUME pos = "ops"
      PROVE  /\ bi \in DOMAIN Blocks /\ Len(Blocks[bi]) \in Nat
             /\ DOMAIN Blocks[bi] = 1 .. Len(Blocks[bi])
             /\ pc < Len(Blocks[bi]) => pc + 1 \in DOMAIN Blocks[bi] /\ Op \in Ops
  <2>1. bi \in DOMAIN Blocks /\ pc \in Nat /\ fi \in DOMAIN program
    BY <1>4 DEF Place
  <2>2. /\ Len(Blocks[bi]) \in Nat /\ DOMAIN Blocks[bi] = 1 .. Len(Blocks[bi])
        /\ \A i \in DOMAIN Blocks[bi] : Blocks[bi][i] \in Ops
    BY <1>1, <2>1, BlockFacts
  <2> QED
    BY <2>1, <2>2
<1> QED
  BY <1>2, <1>3, <1>4

\* Block offsets are appended only.
Grows ==
    /\ program' = program
    /\ \A f \in DOMAIN program : \A b \in DOMAIN offset[f] :
        b \in DOMAIN offset'[f] /\ offset'[f][b] = offset[f][b]

\* Giving a block its offset keeps the offsets there are.
LEMMA AppendGrows ==
    ASSUME Place, fi \in DOMAIN program, NEW n \in Nat,
           program' = program, offset' = [offset EXCEPT ![fi] = Append(@, n)]
    PROVE  /\ Grows
           /\ offset' \in [DOMAIN program -> Seq(Nat)]
           /\ Len(offset'[fi]) = Len(offset[fi]) + 1 /\ offset'[fi][Len(offset[fi]) + 1] = n
           /\ DOMAIN offset'[fi] = 1 .. Len(offset[fi]) + 1
           /\ \A f \in DOMAIN program : f # fi => offset'[f] = offset[f]
<1>1. offset \in [DOMAIN program -> Seq(Nat)] /\ offset[fi] \in Seq(Nat)
  BY DEF Place
<1>2. offset'[fi] = Append(offset[fi], n) /\ \A f \in DOMAIN program : f # fi => offset'[f] = offset[f]
  BY <1>1
<1>3. /\ Len(offset'[fi]) = Len(offset[fi]) + 1 /\ offset'[fi][Len(offset[fi]) + 1] = n
      /\ DOMAIN offset'[fi] = 1 .. Len(offset[fi]) + 1 /\ offset'[fi] \in Seq(Nat)
      /\ \A b \in DOMAIN offset[fi] : b \in DOMAIN offset'[fi] /\ offset'[fi][b] = offset[fi][b]
  BY <1>1, <1>2
<1>4. Grows
  BY <1>2, <1>3 DEF Grows
<1>5. offset' \in [DOMAIN program -> Seq(Nat)]
  BY <1>1, <1>2, <1>3
<1> QED
  BY <1>2, <1>3, <1>4, <1>5

\* Init establishes the invariant.
LEMMA StartsRight == Init => Inv
<1> SUFFICES ASSUME Init PROVE Inv
  OBVIOUS
<1>1. program \in Programs /\ fi = 1 /\ pos = "head" /\ bi = 0 /\ pc = 0 /\ text = 0 /\ jumps = <<>>
  BY DEF Init
<1>2. Len(program) \in Nat /\ Len(program) >= 1 /\ DOMAIN program = 1 .. Len(program)
  BY <1>1, FunctionFacts
<1>3. <<>> \in Seq(Nat) /\ <<>> \in Seq(Jumps)
  OBVIOUS
<1>4. offset = [f \in DOMAIN program |-> <<>>]
  BY DEF Init
<1>5. Place
  BY <1>1, <1>2, <1>3, <1>4 DEF Place
<1>6. RelocsInv /\ JumpsInv
  BY <1>1, <1>3 DEF RelocsInv, JumpsInv
<1> QED
  BY <1>5, <1>6 DEF Inv

\* The head of the list of functions moves on.
LEMMA NextPlace ==
    ASSUME Place, fi \in DOMAIN program, NextFunction, text' \in Nat, bi' \in Nat, pc' \in Nat,
           program' = program,
           offset' \in [DOMAIN program -> Seq(Nat)],
           \A f \in DOMAIN program : f > fi => offset'[f] = offset[f]
    PROVE  Place'
<1>1. fi \in Nat /\ 1 <= fi /\ fi <= Len(program)
  BY Sorts
<1>2. fi' = fi + 1 /\ pos' = IF fi = Len(program) THEN "link" ELSE "head"
  BY DEF NextFunction
<1>3. pos' = "head" => fi + 1 \in DOMAIN program /\ offset'[fi + 1] = <<>>
  <2> SUFFICES ASSUME pos' = "head" PROVE fi + 1 \in DOMAIN program /\ offset'[fi + 1] = <<>>
    OBVIOUS
  <2>1. fi + 1 \in DOMAIN program
    BY <1>1, <1>2, Sorts
  <2>2. offset[fi + 1] = <<>>
    BY <2>1, <1>1 DEF Place
  <2> QED
    BY <2>1, <2>2, <1>1
<1>4. ASSUME NEW f \in DOMAIN program, f > fi + 1 PROVE offset'[f] = <<>>
  <2>1. f \in Nat /\ f > fi
    BY <1>1, <1>4, Sorts
  <2>2. offset[f] = <<>>
    BY <2>1 DEF Place
  <2> QED
    BY <2>1, <2>2
<1>5. program \in Programs /\ Len(program) \in Nat
  BY Sorts DEF Place
<1> QED
  BY <1>1, <1>2, <1>3, <1>4, <1>5 DEF Place

\* An op of the block has been written.
LEMMA EmittedPlace ==
    ASSUME Place, NEW n \in Nat, Emitted(n), pos = "ops", pc < Len(Blocks[bi]),
           fixup' \in [DOMAIN Blocks -> Nat]
    PROVE  Place' /\ text' = text + n /\ pc' = pc + 1
<1>1. /\ pos' = "ops" /\ program' = program /\ fi' = fi /\ bi' = bi /\ offset' = offset
      /\ text' = text + n /\ pc' = pc + 1
  BY DEF Emitted
<1>2. pc' <= Len(Blocks[bi])
  BY <1>1, Sorts DEF Place
<1> QED
  BY <1>1, <1>2 DEF Place

\* A block of the function starts.
LEMMA StartPlace ==
    ASSUME Place, pos \in {"head", "ops"}, fi \in DOMAIN program, Fn.kind = "code",
           NEW b \in DOMAIN Blocks, NEW n \in Nat, Len(offset[fi]) + 1 = b,
           StartBlock(b, n), pos' = "ops", program' = program, fi' = fi, text' \in Nat,
           fixup' \in [DOMAIN Blocks -> Nat]
    PROVE  Place'
<1>1. bi' = b /\ pc' = 0 /\ offset' = [offset EXCEPT ![fi] = Append(@, n)]
  BY DEF StartBlock
<1>2. /\ offset' \in [DOMAIN program -> Seq(Nat)] /\ Len(offset'[fi]) = b
      /\ \A f \in DOMAIN program : f # fi => offset'[f] = offset[f]
  BY <1>1, AppendGrows
<1>3. b \in Nat /\ Len(Blocks[b]) \in Nat
  BY BlockFacts DEF Place
<1>4. \A f \in DOMAIN program : f > fi => offset'[f] = <<>>
  BY <1>2, Sorts DEF Place
<1> QED
  BY <1>1, <1>2, <1>3, <1>4 DEF Place

\* What At(op) gives.
LEMMA AtOp ==
    ASSUME Place, NEW o, At(o)
    PROVE  /\ pos = "ops" /\ pc < Len(Blocks[bi]) /\ Op.op = o /\ Op \in Ops /\ fi \in DOMAIN program
           /\ pc + 1 \in DOMAIN Blocks[bi] /\ bi \in DOMAIN Blocks
           /\ text \in Nat /\ pc \in Nat /\ bi \in Nat
           /\ fixup \in [DOMAIN Blocks -> Nat]
BY Sorts DEF At, Place

\* A branch ahead keeps Place.
LEMMA JumpAheadPlace ==
    ASSUME Place, pos = "ops", pc < Len(Blocks[bi]), NEW n \in Nat, n >= 5, NEW to, NEW taken, JumpAhead(n, to, taken)
    PROVE  Place'
<1>1. fixup' = [fixup EXCEPT ![bi] = text + n - 4] /\ Emitted(n)
  BY DEF JumpAhead
<1>2. fixup \in [DOMAIN Blocks -> Nat] /\ text \in Nat /\ bi \in DOMAIN Blocks
  BY Sorts DEF Place
<1>3. text + n - 4 \in Nat
  BY <1>2
<1>4. fixup' \in [DOMAIN Blocks -> Nat]
  BY <1>1, <1>2, <1>3
<1> QED
  BY <1>1, <1>4, EmittedPlace

\* Every step keeps Place.
LEMMA PlaceStep == Place /\ RelocsInv /\ Next => Place'
<1> SUFFICES ASSUME Place, RelocsInv, Next PROVE Place'
  OBVIOUS
<1>t. text \in Nat /\ bi \in Nat /\ pc \in Nat /\ offset \in [DOMAIN program -> Seq(Nat)] /\ program \in Programs
  BY DEF Place
<1>1. CASE SkipExtern
  <2>1. pos = "head" /\ NextFunction /\ UNCHANGED <<program, bi, pc, text, offset>>
    BY <1>1 DEF SkipExtern, layout
  <2>2. fi \in DOMAIN program
    BY <2>1 DEF Place
  <2> QED
    BY <1>t, <2>1, <2>2, NextPlace
<1>2. CASE NativeStub
  <2>1. pos = "head" /\ NextFunction /\ text' = text + Fn.head /\ UNCHANGED <<program, bi, pc, offset>>
    BY <1>2 DEF NativeStub
  <2>2. fi \in DOMAIN program
    BY <2>1 DEF Place
  <2>3. text' \in Nat
    BY <1>t, <2>1, <2>2, Sorts
  <2> QED
    BY <1>t, <2>1, <2>2, <2>3, NextPlace
<1>3. CASE Prologue
  <2>1. /\ pos = "head" /\ Fn.kind = "code" /\ text' = text + Fn.head
        /\ fixup' = [b \in DOMAIN Blocks |-> 0]
        /\ StartBlock(1, text') /\ pos' = "ops" /\ UNCHANGED <<program, fi>>
    BY <1>3 DEF Prologue
  <2>2. fi \in DOMAIN program /\ offset[fi] = <<>>
    BY <2>1 DEF Place
  <2>3. text' \in Nat
    BY <1>t, <2>1, <2>2, Sorts
  <2>4. 1 \in DOMAIN Blocks
    BY <1>t, <2>1, <2>2, FunctionFacts
  <2>5. Len(offset[fi]) + 1 = 1
    BY <2>2
  <2>6. fixup' \in [DOMAIN Blocks -> Nat]
    BY <2>1
  <2> HIDE DEF Fn, Blocks
  <2> QED
    BY <2>1, <2>2, <2>3, <2>4, <2>5, <2>6, StartPlace
<1>4. CASE Code
  <2>1. At("code") /\ Emitted(Op.n) /\ fixup' = fixup
    BY <1>4 DEF Code
  <2>2. Op.n \in Nat
    BY <2>1, AtOp, OpFacts
  <2> QED
    BY <2>1, <2>2, AtOp, EmittedPlace
<1>5. CASE BranchBack
  <2>1. At("branch") /\ (Emitted(2) \/ Emitted(5)) /\ fixup' = fixup
    BY <1>5 DEF BranchBack
  <2> QED
    BY <2>1, AtOp, EmittedPlace
<1>6. CASE BranchAhead
  <2>1. At("branch") /\ JumpAhead(5, Op.to, "always")
    BY <1>6 DEF BranchAhead
  <2> QED
    BY <2>1, AtOp, JumpAheadPlace
<1>7. CASE BranchCond
  <2>1. At("cond") /\ JumpAhead(Op.n + 6, IF Op.then = bi + 1 THEN Op.else ELSE Op.then, Taken(Op))
    BY <1>7 DEF BranchCond
  <2>2. pos = "ops" /\ pc < Len(Blocks[bi]) /\ Op.op = "cond" /\ Op \in Ops
    BY <2>1, AtOp
  <2> HIDE DEF Op, Blocks
  <2>3. Op.n \in Nat
    BY <2>2, OpFacts
  <2>4. PICK n \in Nat : n = Op.n + 6 /\ n >= 5
    BY <2>3
  <2> QED
    BY <2>1, <2>2, <2>4, JumpAheadPlace
<1>8. CASE Invoke
  <2>1. At("invoke") /\ Emitted(Op.n + 5) /\ fixup' = fixup
    BY <1>8 DEF Invoke
  <2>2. pos = "ops" /\ pc < Len(Blocks[bi]) /\ Op.op = "invoke" /\ Op \in Ops
    BY <2>1, AtOp
  <2> HIDE DEF Op, Blocks
  <2>3. Op.n \in Nat
    BY <2>2, OpFacts
  <2>4. PICK n \in Nat : n = Op.n + 5
    BY <2>3
  <2>5. Emitted(n)
    BY <2>1, <2>4
  <2>6. fixup' \in [DOMAIN Blocks -> Nat]
    BY <2>1, AtOp
  <2> QED
    BY <2>2, <2>5, <2>6, EmittedPlace
<1>9. CASE Return
  <2>1. At("return") /\ Emitted(Op.n) /\ fixup' = fixup
    BY <1>9 DEF Return
  <2>2. Op.n \in Nat
    BY <2>1, AtOp, OpFacts
  <2> QED
    BY <2>1, <2>2, AtOp, EmittedPlace
<1>10. CASE EndBlock
  <2>1. pos = "ops" /\ pc = Len(Blocks[bi]) /\ UNCHANGED <<program, fi, text, fixup, relocs>>
    BY <1>10 DEF EndBlock, tables
  <2>2. /\ fi \in DOMAIN program /\ bi \in DOMAIN Blocks /\ Len(offset[fi]) = bi /\ Fn.kind = "code"
        /\ fixup \in [DOMAIN Blocks -> Nat] /\ DOMAIN Blocks = 1 .. Len(Blocks) /\ Len(Blocks) \in Nat
    BY <2>1, Sorts DEF Place
  <2>3. CASE bi < Len(Blocks)
    <3>1. StartBlock(bi + 1, text) /\ pos' = "ops"
      BY <1>10, <2>1, <2>3 DEF EndBlock
    <3>2. bi + 1 \in DOMAIN Blocks /\ Len(offset[fi]) + 1 = bi + 1
      BY <2>2, <2>3
    <3> HIDE DEF Fn, Blocks
    <3> QED
      BY <1>t, <2>1, <2>2, <3>1, <3>2, StartPlace
  <2>4. CASE ~(bi < Len(Blocks))
    <3>1. pos' = "patch" /\ pc' = 0 /\ bi' = bi /\ offset' = offset
      BY <1>10, <2>4 DEF EndBlock
    <3>2. Len(offset[fi]) = Len(Blocks)
      BY <2>2, <2>4
    <3>3. 0 <= Len(relocs)
      <4>1. relocs \in Seq([from : DOMAIN Blocks, to : DOMAIN Blocks])
        BY <2>1 DEF RelocsInv
      <4> QED
        BY <4>1
    <3> QED
      BY <2>1, <2>2, <3>1, <3>2, <3>3 DEF Place
  <2> QED
    BY <2>3, <2>4
<1>11. CASE Patch
  <2>1. pos = "patch" /\ pc < Len(relocs) /\ pc' = pc + 1 /\ UNCHANGED <<program, fi, pos, bi, text, offset, fixup, relocs>>
    BY <1>11 DEF Patch, layout, tables
  <2> QED
    BY <2>1 DEF Place
<1>12. CASE Epilogue
  <2>1. /\ pos = "patch" /\ text' = text + Fn.tail /\ offset' = [offset EXCEPT ![fi] = Append(@, text)]
        /\ pc' = 0 /\ NextFunction /\ UNCHANGED <<program, bi>>
    BY <1>12 DEF Epilogue
  <2>2. fi \in DOMAIN program
    BY <2>1 DEF Place
  <2>3. text' \in Nat
    BY <1>t, <2>1, <2>2, Sorts
  <2>4. offset' \in [DOMAIN program -> Seq(Nat)] /\ \A f \in DOMAIN program : f # fi => offset'[f] = offset[f]
    BY <1>t, <2>1, <2>2, AppendGrows
  <2>5. \A f \in DOMAIN program : f > fi => offset'[f] = offset[f]
    BY <2>2, <2>4, Sorts
  <2> QED
    BY <1>t, <2>1, <2>2, <2>3, <2>4, <2>5, NextPlace
<1>13. CASE Link
  <2>1. pos = "link" /\ pc' = pc + 1 /\ UNCHANGED <<program, fi, pos, bi, text, offset>>
    BY <1>13 DEF Link, layout
  <2> QED
    BY <1>t, <2>1 DEF Place
<1>14. CASE Finish
  <2>1. pos = "link" /\ pos' = "done" /\ UNCHANGED <<program, fi, bi, pc, text, offset>>
    BY <1>14 DEF Finish, layout
  <2> QED
    BY <2>1 DEF Place
<1> QED
  BY <1>1, <1>2, <1>3, <1>4, <1>5, <1>6, <1>7, <1>8, <1>9, <1>10, <1>11, <1>12, <1>13, <1>14 DEF Next

\* The fields of a jump have their types.
LEMMA JumpFacts ==
    ASSUME NEW j \in Jumps
    PROVE  j.end \in Nat /\ j.disp \in Int /\ j.short \in BOOLEAN /\ j.fn \in Nat /\ j.op \in Ops
           /\ j.taken \in {"always", "true", "false"}
BY DEF Jumps

\* A jump that has reached its target has it for good: offsets do not change.
LEMMA ReachedStays ==
    ASSUME NEW j, Grows, j.fn \in DOMAIN program, j.short => j.taken = "always", Reached(j)
    PROVE  Reached(j)'
<1>1. Target(j) \in DOMAIN offset[j.fn] /\ (InReach(j) => Goal(j) = offset[j.fn][Target(j)])
  BY DEF Reached
<1>2. Target(j) \in DOMAIN offset'[j.fn] /\ offset'[j.fn][Target(j)] = offset[j.fn][Target(j)]
  BY <1>1 DEF Grows
<1>3. j.short => Target(j) = j.op.to
  BY DEF Target
<1>4. InReach(j)' => InReach(j)
  BY <1>2, <1>3 DEF InReach, Start
<1>5. Target(j)' = Target(j) /\ Goal(j)' = Goal(j)
  BY DEF Target, Goal
<1> QED
  BY <1>1, <1>2, <1>4, <1>5 DEF Reached

\* So does a jcc that falls through where it should.
LEMMA FallsThroughStays ==
    ASSUME NEW j, Grows, j.fn \in DOMAIN program, FallsThrough(j),
           pos # "ops" \/ j.fn # fi \/ pc < Len(Blocks[bi])
    PROVE  FallsThrough(j)'
<1>1. CASE j.taken = "always"
  BY <1>1 DEF FallsThrough
<1>2. CASE j.taken # "always"
  <2>1. /\ Through(j) \in DOMAIN program[j.fn].blocks /\ Through(j) \in DOMAIN offset[j.fn]
        /\ j.end = offset[j.fn][Through(j)]
    <3>1. ~(pos = "ops" /\ j.fn = fi /\ pc = Len(Blocks[bi]))
      BY DEF Blocks
    <3> QED
      BY <1>2, <3>1 DEF FallsThrough
  <2>2. Through(j)' = Through(j)
    BY DEF Through
  <2>3. /\ Through(j)' \in DOMAIN program'[j.fn].blocks /\ Through(j)' \in DOMAIN offset'[j.fn]
        /\ j.end = offset'[j.fn][Through(j)']
    BY <2>1, <2>2 DEF Grows
  <2> QED
    BY <2>3 DEF FallsThrough
<1> QED
  BY <1>1, <1>2

\* The relocations so far and the fields they are for stay.
RelocsStay ==
    \A r \in DOMAIN relocs :
        /\ r \in DOMAIN relocs' /\ relocs'[r] = relocs[r]
        /\ fixup'[relocs[r].from] = fixup[relocs[r].from]

\* An op of a block keeps what is known of the jumps before it.
LEMMA OpKeepsJump ==
    ASSUME Place, pos = "ops", pc < Len(Blocks[bi]), NEW n \in Nat, Emitted(n), RelocsStay,
           NEW j \in Jumps, JumpOK(j)
    PROVE  JumpOK(j)'
<1>1. /\ pos' = "ops" /\ program' = program /\ fi' = fi /\ bi' = bi /\ offset' = offset
      /\ text' = text + n /\ pc' = pc + 1
  BY DEF Emitted
<1>2. /\ j.fn \in DOMAIN program /\ j.fn <= fi /\ j.end <= text /\ (j.short => j.taken = "always")
      /\ FallsThrough(j) /\ (Reached(j) \/ Pending(j))
  BY DEF JumpOK
<1>3. Grows
  BY <1>1 DEF Grows
<1>4. FallsThrough(j)'
  BY <1>2, <1>3, FallsThroughStays
<1>5. Reached(j) => Reached(j)'
  BY <1>2, <1>3, ReachedStays
<1>6. Pending(j) => Pending(j)'
  <2> SUFFICES ASSUME Pending(j) PROVE Pending(j)'
    OBVIOUS
  <2>1. PICK r \in DOMAIN relocs : fixup[relocs[r].from] + 4 = j.end /\ relocs[r].to = Target(j)
    BY DEF Pending
  <2>2. r \in DOMAIN relocs' /\ fixup'[relocs'[r].from] + 4 = j.end /\ relocs'[r].to = Target(j)
    BY <2>1 DEF RelocsStay
  <2>3. j.fn = fi /\ ~j.short
    BY DEF Pending
  <2>4. Target(j)' = Target(j)
    BY DEF Target
  <2> QED
    BY <1>1, <2>2, <2>3, <2>4 DEF Pending
<1>7. j.end <= text'
  BY <1>1, <1>2, JumpFacts DEF Place
<1> QED
  BY <1>1, <1>2, <1>4, <1>5, <1>6, <1>7 DEF JumpOK

\* A branch is written behind the ones there are.
LEMMA JumpAdded ==
    ASSUME Place, JumpsInv, NEW j \in Jumps, jumps' = Append(jumps, j), j.end > text,
           \A k \in Jumps : JumpOK(k) => JumpOK(k)', JumpOK(j)'
    PROVE  JumpsInv'
<1>1. jumps \in Seq(Jumps) /\ text \in Nat
  BY DEF JumpsInv, Place
<1>2. /\ jumps' \in Seq(Jumps) /\ DOMAIN jumps' = 1 .. Len(jumps) + 1
      /\ DOMAIN jumps = 1 .. Len(jumps) /\ Len(jumps) \in Nat
      /\ \A i \in DOMAIN jumps : jumps'[i] = jumps[i] /\ jumps[i] \in Jumps
      /\ jumps'[Len(jumps) + 1] = j
  BY <1>1
<1>3. ASSUME NEW i \in DOMAIN jumps' PROVE JumpOK(jumps[i])'
  <2>1. CASE i \in DOMAIN jumps
    <3>1. JumpOK(jumps[i]) /\ jumps[i] \in Jumps
      BY <1>2, <2>1 DEF JumpsInv
    <3>2. ASSUME NEW k \in Jumps, k = jumps[i] PROVE JumpOK(k)'
      BY <3>1, <3>2
    <3>3. PICK k \in Jumps : k = jumps[i]
      BY <3>1
    <3>4. JumpOK(k)' /\ k = jumps'[i]
      BY <1>2, <2>1, <3>2, <3>3
    <3> QED
      BY <3>4
  <2>2. CASE i = Len(jumps) + 1
    BY <1>2, <2>2
  <2> QED
    BY <1>2, <2>1, <2>2
<1>4. ASSUME NEW i \in DOMAIN jumps', NEW k \in DOMAIN jumps', i < k
      PROVE  jumps'[i].end < jumps'[k].end
  <2>1. i \in DOMAIN jumps /\ jumps'[i] = jumps[i] /\ jumps[i].end \in Nat /\ jumps[i].end <= text
    <3>1. i \in DOMAIN jumps
      BY <1>2, <1>4
    <3> QED
      BY <1>2, <3>1, JumpFacts DEF JumpsInv, JumpOK
  <2>2. CASE k \in DOMAIN jumps
    BY <1>2, <1>4, <2>1, <2>2 DEF JumpsInv
  <2>3. CASE k = Len(jumps) + 1
    BY <1>1, <1>2, <2>1, <2>3, JumpFacts
  <2> QED
    BY <1>2, <2>2, <2>3
<1> QED
  BY <1>2, <1>3, <1>4 DEF JumpsInv

\* An op that makes no relocation.
LEMMA RelocsKept ==
    ASSUME Place, RelocsInv, pos = "ops", pc < Len(Blocks[bi]), NEW n \in Nat, Emitted(n),
           relocs' = relocs, fixup' = fixup,
           \A i \in DOMAIN jumps : i \in DOMAIN jumps' /\ jumps'[i] = jumps[i]
    PROVE  RelocsInv' /\ RelocsStay
<1>1. /\ pos' = "ops" /\ program' = program /\ fi' = fi /\ bi' = bi /\ pc' = pc + 1 /\ pc \in Nat
  BY DEF Emitted, Place
<1>2. relocs' \in Seq([from : DOMAIN Blocks, to : DOMAIN Blocks])
  BY DEF RelocsInv
<1>3. ASSUME NEW r \in DOMAIN relocs
      PROVE  /\ relocs[r].from <= bi
             /\ relocs[r].from = bi => \E k \in 1 .. pc' : IsBranch(Blocks[bi][k])
             /\ Waits(r)'
  <2>1. relocs[r].from <= bi /\ Waits(r)
        /\ (relocs[r].from = bi => \E k \in 1 .. pc : IsBranch(Blocks[bi][k]))
    BY DEF RelocsInv
  <2>2. 1 .. pc \subseteq 1 .. pc'
    BY <1>1
  <2>3. Waits(r)'
    <3>1. PICK i \in DOMAIN jumps :
              /\ jumps[i].end = fixup[relocs[r].from] + 4
              /\ jumps[i].fn = fi /\ ~jumps[i].short
              /\ Target(jumps[i]) = relocs[r].to
      BY <2>1 DEF Waits
    <3>2. i \in DOMAIN jumps' /\ jumps'[i] = jumps[i]
      OBVIOUS
    <3>3. Target(jumps[i])' = Target(jumps[i])
      BY <3>2 DEF Target
    <3> QED
      BY <1>1, <3>1, <3>2, <3>3 DEF Waits
  <2> QED
    BY <2>1, <2>2, <2>3
<1>4. RelocsInv'
  BY <1>1, <1>2, <1>3 DEF RelocsInv
<1>5. RelocsStay
  BY DEF RelocsStay
<1> QED
  BY <1>4, <1>5

\* The jump made by JumpAhead.
Ahead(n, taken) == Jump(text + n, 0, FALSE, taken)

\* The record of a jump.
LEMMA JumpIsJump ==
    ASSUME Place, pos = "ops", pc < Len(Blocks[bi]), NEW n \in Nat, NEW d \in Int, NEW s \in BOOLEAN,
           NEW taken \in {"always", "true", "false"}
    PROVE  /\ Jump(text + n, d, s, taken) \in Jumps
           /\ Jump(text + n, d, s, taken).end = text + n /\ Jump(text + n, d, s, taken).disp = d
           /\ Jump(text + n, d, s, taken).short = s /\ Jump(text + n, d, s, taken).taken = taken
           /\ Jump(text + n, d, s, taken).fn = fi /\ Jump(text + n, d, s, taken).op = Op
<1>1. text + n \in Nat /\ fi \in Nat /\ Op \in Ops
  BY Sorts DEF Place
<1> HIDE DEF Op
<1> QED
  BY <1>1 DEF Jump, Jumps

\* The record of a jump ahead.
LEMMA AheadIsJump ==
    ASSUME Place, pos = "ops", pc < Len(Blocks[bi]), NEW n \in Nat,
           NEW taken \in {"always", "true", "false"}
    PROVE  /\ Ahead(n, taken) \in Jumps
           /\ Ahead(n, taken).end = text + n /\ Ahead(n, taken).disp = 0
           /\ Ahead(n, taken).short = FALSE /\ Ahead(n, taken).taken = taken
           /\ Ahead(n, taken).fn = fi /\ Ahead(n, taken).op = Op
<1>1. text + n \in Nat /\ fi \in Nat /\ Op \in Ops
  BY Sorts DEF Place
<1> HIDE DEF Op
<1> QED
  BY <1>1 DEF Ahead, Jump, Jumps

\* A sequence and what is behind it.
LEMMA AppendFacts ==
    ASSUME NEW S, NEW s \in Seq(S), NEW x \in S, NEW t, t = Append(s, x)
    PROVE  /\ t \in Seq(S) /\ DOMAIN t = 1 .. Len(s) + 1 /\ DOMAIN s = 1 .. Len(s) /\ Len(s) \in Nat
           /\ t[Len(s) + 1] = x
           /\ \A i \in DOMAIN s : i \in DOMAIN t /\ t[i] = s[i] /\ s[i] \in S
OBVIOUS

\* The relocation of a branch ahead: the first of its block.
LEMMA RelocAdded ==
    ASSUME Place, RelocsInv, JumpsInv, pos = "ops", pc < Len(Blocks[bi]), IsBranch(Op),
           NEW n \in Nat, NEW to \in DOMAIN Blocks, NEW taken \in {"always", "true", "false"},
           JumpAhead(n, to, taken), Target(Ahead(n, taken)) = to
    PROVE  /\ RelocsInv' /\ RelocsStay
           /\ DOMAIN relocs' = 1 .. Len(relocs) + 1 /\ Len(relocs) \in Nat
           /\ relocs'[Len(relocs) + 1] = [from |-> bi, to |-> to]
           /\ fixup'[bi] + 4 = text + n
<1>1. /\ Emitted(n) /\ jumps' = Append(jumps, Ahead(n, taken))
      /\ fixup' = [fixup EXCEPT ![bi] = text + n - 4] /\ relocs' = Append(relocs, [from |-> bi, to |-> to])
  BY DEF JumpAhead, Ahead
<1>2. /\ pos' = "ops" /\ program' = program /\ fi' = fi /\ bi' = bi /\ pc' = pc + 1 /\ pc \in Nat
  BY <1>1 DEF Emitted, Place
<1>3. /\ bi \in DOMAIN Blocks /\ fi \in DOMAIN program /\ pc + 1 \in DOMAIN Blocks[bi] /\ bi \in Nat
      /\ fixup \in [DOMAIN Blocks -> Nat] /\ text \in Nat
      /\ DOMAIN Blocks[bi] = 1 .. Len(Blocks[bi]) /\ Len(Blocks[bi]) \in Nat
  BY Sorts DEF Place
<1>4. relocs \in Seq([from : DOMAIN Blocks, to : DOMAIN Blocks])
  BY DEF RelocsInv
<1>5. /\ relocs' \in Seq([from : DOMAIN Blocks, to : DOMAIN Blocks])
      /\ DOMAIN relocs' = 1 .. Len(relocs) + 1 /\ DOMAIN relocs = 1 .. Len(relocs) /\ Len(relocs) \in Nat
      /\ relocs'[Len(relocs) + 1] = [from |-> bi, to |-> to]
      /\ \A r \in DOMAIN relocs : relocs'[r] = relocs[r] /\ relocs[r].from \in DOMAIN Blocks
  <2>1. [from |-> bi, to |-> to] \in [from : DOMAIN Blocks, to : DOMAIN Blocks]
    BY <1>3
  <2>2. \A r \in [from : DOMAIN Blocks, to : DOMAIN Blocks] : r.from \in DOMAIN Blocks
    OBVIOUS
  <2> DEFINE S == [from : DOMAIN Blocks, to : DOMAIN Blocks]
  <2>3. /\ relocs' \in Seq(S) /\ DOMAIN relocs' = 1 .. Len(relocs) + 1
        /\ DOMAIN relocs = 1 .. Len(relocs) /\ Len(relocs) \in Nat
        /\ relocs'[Len(relocs) + 1] = [from |-> bi, to |-> to]
        /\ \A r \in DOMAIN relocs : relocs'[r] = relocs[r] /\ relocs[r] \in S
    <3>1. relocs \in Seq(S) /\ [from |-> bi, to |-> to] \in S
      BY <1>4, <2>1
    <3> HIDE DEF S
    <3> QED
      BY <1>1, <3>1, AppendFacts
  <2> QED
    BY <2>2, <2>3
<1>6. fixup'[bi] = text + n - 4 /\ \A b \in DOMAIN Blocks : b # bi => fixup'[b] = fixup[b]
  BY <1>1, <1>3
<1>7. ASSUME NEW r \in DOMAIN relocs PROVE relocs[r].from # bi
  <2>1. BlockAssumption(Blocks, bi)
    BY <1>3, BlockFacts DEF Place
  <2>2. ASSUME NEW k \in 1 .. pc, IsBranch(Blocks[bi][k]) PROVE FALSE
    <3>1. k \in DOMAIN Blocks[bi] /\ k # pc + 1
      BY <1>2, <1>3
    <3> QED
      BY <1>3, <2>1, <2>2, <3>1 DEF BlockAssumption
  <2> QED
    BY <2>2 DEF RelocsInv
<1>8. RelocsStay
  BY <1>5, <1>6, <1>7 DEF RelocsStay
<1>9. /\ DOMAIN jumps' = 1 .. Len(jumps) + 1 /\ DOMAIN jumps = 1 .. Len(jumps) /\ Len(jumps) \in Nat
      /\ \A i \in DOMAIN jumps : i \in DOMAIN jumps' /\ jumps'[i] = jumps[i]
      /\ jumps'[Len(jumps) + 1] = Ahead(n, taken)
  <2>1. jumps \in Seq(Jumps)
    BY DEF JumpsInv
  <2>2. Ahead(n, taken) \in Jumps
    BY AheadIsJump
  <2> QED
    BY <1>1, <2>1, <2>2
<1>10. ASSUME NEW r \in DOMAIN relocs'
       PROVE  /\ relocs'[r].from <= bi
              /\ relocs'[r].from = bi => \E k \in 1 .. pc' : IsBranch(Blocks[bi][k])
              /\ Waits(r)'
  <2>1. CASE r \in DOMAIN relocs
    <3>1. relocs[r].from <= bi /\ Waits(r) /\ relocs'[r] = relocs[r] /\ fixup'[relocs[r].from] = fixup[relocs[r].from]
      BY <1>8, <2>1 DEF RelocsInv, RelocsStay
    <3>2. PICK i \in DOMAIN jumps :
              /\ jumps[i].end = fixup[relocs[r].from] + 4
              /\ jumps[i].fn = fi /\ ~jumps[i].short
              /\ Target(jumps[i]) = relocs[r].to
      BY <3>1 DEF Waits
    <3>3. i \in DOMAIN jumps' /\ jumps'[i] = jumps[i]
      BY <1>9
    <3>4. Target(jumps[i])' = Target(jumps[i])
      BY <3>3 DEF Target
    <3>5. Waits(r)'
      BY <1>2, <3>1, <3>2, <3>3, <3>4 DEF Waits
    <3> QED
      BY <1>7, <2>1, <3>1, <3>5
  <2>2. CASE r = Len(relocs) + 1
    <3>1. relocs'[r].from = bi /\ relocs'[r].to = to
      BY <1>5, <2>2
    <3>2. pc + 1 \in 1 .. pc' /\ IsBranch(Blocks[bi][pc + 1])
      BY <1>2
    <3>3. bi <= bi
      BY <1>3
    <3>4. Len(jumps) + 1 \in DOMAIN jumps' /\ jumps'[Len(jumps) + 1] = Ahead(n, taken)
      BY <1>9
    <3>5. Ahead(n, taken).end = text + n /\ ~Ahead(n, taken).short /\ Ahead(n, taken).fn = fi
      BY AheadIsJump
    <3>6. PICK k : k = Len(jumps) + 1
      OBVIOUS
    <3>9. Target(jumps[k])' = to
      BY <3>4, <3>6, Zenon DEF Target
    <3>7. fixup'[relocs'[r].from] + 4 = text + n
      BY <1>3, <1>6, <3>1
    <3>8. Waits(r)'
      BY <1>2, <3>1, <3>4, <3>5, <3>6, <3>7, <3>9 DEF Waits
    <3> QED
      BY <3>1, <3>2, <3>3, <3>8
  <2> QED
    BY <1>5, <2>1, <2>2
<1>11. RelocsInv'
  BY <1>2, <1>5, <1>10 DEF RelocsInv
<1> QED
  BY <1>3, <1>5, <1>6, <1>8, <1>11

\* A branch ahead: its jump is behind the others and waits for its relocation.
LEMMA AheadStep ==
    ASSUME Place, RelocsInv, JumpsInv, pos = "ops", pc < Len(Blocks[bi]), IsBranch(Op),
           NEW n \in Nat, n >= 5, NEW to \in DOMAIN Blocks, NEW taken \in {"always", "true", "false"},
           JumpAhead(n, to, taken), NEW j, j = Ahead(n, taken), Target(j) = to, FallsThrough(j)'
    PROVE  RelocsInv' /\ JumpsInv'
<1>1. /\ Emitted(n) /\ jumps' = Append(jumps, j)
  BY DEF JumpAhead, Ahead
<1>2. /\ pos' = "ops" /\ program' = program /\ fi' = fi /\ bi' = bi /\ text' = text + n /\ text \in Nat
      /\ fi \in DOMAIN program /\ fi \in Nat
  BY <1>1 DEF Emitted, Place
<1>3. /\ j \in Jumps /\ j.end = text + n /\ ~j.short /\ j.fn = fi
  BY AheadIsJump
<1>4. /\ RelocsInv' /\ RelocsStay
      /\ DOMAIN relocs' = 1 .. Len(relocs) + 1 /\ Len(relocs) \in Nat
      /\ relocs'[Len(relocs) + 1] = [from |-> bi, to |-> to]
      /\ fixup'[bi] + 4 = text + n
  BY RelocAdded
<1>5. Pending(j)'
  <2>1. Target(j)' = to
    BY DEF Target
  <2>2. PICK r : r = Len(relocs) + 1
    OBVIOUS
  <2>3. r \in DOMAIN relocs' /\ fixup'[relocs'[r].from] + 4 = j.end /\ relocs'[r].to = to
    BY <1>3, <1>4, <2>2
  <2> QED
    BY <1>2, <1>3, <2>1, <2>3 DEF Pending
<1>6. JumpOK(j)'
  <2>1. fi <= fi /\ text + n <= text + n
    BY <1>2
  <2> QED
    BY <1>2, <1>3, <1>5, <2>1 DEF JumpOK
<1>7. \A k \in Jumps : JumpOK(k) => JumpOK(k)'
  BY <1>1, <1>4, OpKeepsJump
<1>8. j.end > text
  BY <1>2, <1>3
<1> QED
  BY <1>1, <1>3, <1>4, <1>6, <1>7, <1>8, JumpAdded

\* A rel8 that is in reach is not changed by the cast.
LEMMA CastKeeps ==
    ASSUME NEW d \in Int, d >= -126, d <= 127
    PROVE  SignedChar(FromEnd(d, 2)) = d - 2
BY SMT DEF SignedChar, FromEnd

\* A branch back reaches its target at once.
LEMMA BackStep ==
    ASSUME Place, RelocsInv, JumpsInv, BranchBack
    PROVE  RelocsInv' /\ JumpsInv'
<1>1. /\ pos = "ops" /\ pc < Len(Blocks[bi]) /\ Op.op = "branch" /\ Op \in Ops /\ fi \in DOMAIN program
      /\ text \in Nat /\ Op.to \in Nat /\ fi \in Nat
  BY AtOp, OpFacts DEF BranchBack, Place
<1>2. Op.to \in DOMAIN Blocks
  <2>1. bi \in DOMAIN Blocks /\ pc + 1 \in DOMAIN Blocks[bi]
    BY AtOp DEF BranchBack
  <2>2. BlockAssumption(Blocks, bi)
    BY <1>1, <2>1, BlockFacts DEF Place
  <2> QED
    BY <1>1, <2>1, <2>2 DEF BlockAssumption
<1>3. Op.to \in DOMAIN offset[fi] /\ offset[fi][Op.to] \in Nat
  <2>1. Op.to <= Len(offset[fi]) /\ offset[fi] \in Seq(Nat)
    BY <1>1, Sorts DEF BranchBack, HasOffset
  <2>2. Op.to >= 1
    BY <1>1, <1>2, Sorts
  <2> QED
    BY SMTT(40), <1>1, <2>1, <2>2
<1> DEFINE d == offset[fi][Op.to] - text
<1>4. ASSUME NEW n \in {2, 5}, NEW disp \in Int, NEW s \in BOOLEAN, NEW j,
             Emitted(n), j = Jump(text + n, disp, s, "always"), jumps' = Append(jumps, j),
             d >= n - 128 \/ ~s => disp = d - n
      PROVE  RelocsInv' /\ JumpsInv'
  <2>1. /\ j \in Jumps /\ j.end = text + n /\ j.disp = disp /\ j.short = s /\ j.fn = fi /\ j.taken = "always"
        /\ j.op = Op
    <3>1. n \in Nat /\ "always" \in {"always", "true", "false"}
      OBVIOUS
    <3>2. text + n \in Nat
      BY <1>1, <3>1
    <3>3. disp \in Int /\ s \in BOOLEAN
      OBVIOUS
    <3>4. j = Jump(text + n, disp, s, "always")
      BY <1>4
    <3> HIDE DEF Op
    <3> QED
      BY <1>1, <3>1, <3>2, <3>3, <3>4 DEF Jump, Jumps
  <2>2. Target(j) = Op.to
    BY <2>1 DEF Target
  <2>3. /\ pos' = "ops" /\ program' = program /\ fi' = fi /\ offset' = offset /\ text' = text + n
    BY <1>1, <1>4 DEF Emitted
  <2>4. InReach(j) => Goal(j) = offset[fi][Op.to]
    <3> SUFFICES ASSUME InReach(j) PROVE Goal(j) = offset[fi][Op.to]
      OBVIOUS
    <3> HIDE DEF Fn, Blocks, Op
    <3>1. PICK t \in Nat : t = offset[fi][Op.to]
      BY <1>3
    <3>2. Start(j, j.op.to) = t
      BY <2>1, <3>1 DEF Start
    <3>3. text + n - t <= 128 \/ ~s => Goal(j) = t
      <4>1. text \in Nat /\ t \in Nat /\ n \in Nat
        BY <1>1, <3>1
      <4>2. text + n - t <= 128 => t - text >= n - 128
        BY <4>1
      <4>3. text + n + (t - text - n) = t
        BY <4>1
      <4>4. text + n - t <= 128 \/ ~s => disp = t - text - n
        BY <1>4, <3>1, <4>2
      <4> QED
        BY <2>1, <4>3, <4>4 DEF Goal
    <3>4. CASE s
      <4>1. j.short
        BY <2>1, <3>4
      <4>2. j.end - Start(j, j.op.to) <= 128
        BY <4>1 DEF InReach
      <4>3. j.end = text + n
        BY <2>1
      <4>4. text + n - t <= 128
        BY <1>1, <2>1, <3>2, <4>2, <4>3, JumpFacts
      <4> QED
        BY <3>1, <3>3, <4>4
    <3>5. CASE ~s
      BY <3>1, <3>3, <3>5
    <3> QED
      BY <3>4, <3>5
  <2>5. Reached(j)
    BY <1>3, <2>1, <2>2, <2>4 DEF Reached
  <2>6. Grows
    BY <2>3 DEF Grows
  <2>7. JumpOK(j)'
    <3>1. Reached(j)'
      BY <1>1, <2>1, <2>5, <2>6, ReachedStays
    <3>2. FallsThrough(j)'
      BY <2>1 DEF FallsThrough
    <3>3. j.end <= text' /\ fi <= fi'
      BY <1>1, <1>4, <2>1, <2>3
    <3> QED
      BY <1>1, <2>1, <2>3, <3>1, <3>2, <3>3 DEF JumpOK
  <2>8. relocs' = relocs /\ fixup' = fixup
    BY DEF BranchBack, tables
  <2>9. \A i \in DOMAIN jumps : i \in DOMAIN jumps' /\ jumps'[i] = jumps[i]
    <3>1. jumps \in Seq(Jumps)
      BY DEF JumpsInv
    <3> QED
      BY <1>4, <2>1, <3>1, AppendFacts
  <2>10. n \in Nat
    OBVIOUS
  <2>11. RelocsInv' /\ RelocsStay
    BY <1>1, <1>4, <2>8, <2>9, <2>10, RelocsKept
  <2>12. \A k \in Jumps : JumpOK(k) => JumpOK(k)'
    BY <1>1, <1>4, <2>10, <2>11, OpKeepsJump
  <2>13. j.end > text
    BY <1>1, <2>1
  <2> QED
    BY <1>4, <2>1, <2>7, <2>11, <2>12, <2>13, JumpAdded
<1>5. d \in Int /\ Relative(Op.to) = d
  BY <1>1, <1>3 DEF Relative
<1>6. CASE d >= -128 /\ d <= 127
  <2>1. jumps' = Append(jumps, Jump(text + 2, SignedChar(FromEnd(d, 2)), TRUE, "always")) /\ Emitted(2)
    BY <1>5, <1>6 DEF BranchBack
  <2>2. SignedChar(FromEnd(d, 2)) \in Int
    BY <1>5 DEF SignedChar, FromEnd
  <2>3. d >= 2 - 128 => SignedChar(FromEnd(d, 2)) = d - 2
    BY <1>5, <1>6, CastKeeps
  <2> QED
    BY <1>4, <2>1, <2>2, <2>3
<1>7. CASE ~(d >= -128 /\ d <= 127)
  <2>1. jumps' = Append(jumps, Jump(text + 5, FromEnd(d, 5), FALSE, "always")) /\ Emitted(5)
    BY <1>5, <1>7 DEF BranchBack
  <2>2. FromEnd(d, 5) \in Int /\ FromEnd(d, 5) = d - 5
    BY <1>5 DEF FromEnd
  <2> QED
    BY <1>4, <2>1, <2>2
<1> QED
  BY <1>6, <1>7

\* A branch ahead has no fall-through.
LEMMA AheadBranchStep ==
    ASSUME Place, RelocsInv, JumpsInv, BranchAhead
    PROVE  RelocsInv' /\ JumpsInv'
<1>1. At("branch") /\ JumpAhead(5, Op.to, "always")
  BY DEF BranchAhead
<1>2. /\ pos = "ops" /\ pc < Len(Blocks[bi]) /\ Op.op = "branch" /\ Op \in Ops /\ fi \in DOMAIN program
      /\ bi \in DOMAIN Blocks /\ pc + 1 \in DOMAIN Blocks[bi]
  BY <1>1, AtOp
<1>3. Op.to \in DOMAIN Blocks
  <2>1. BlockAssumption(Blocks, bi)
    BY <1>2, BlockFacts DEF Place
  <2> QED
    BY <1>2, <2>1 DEF BlockAssumption
<1>4. PICK j : j = Ahead(5, "always")
  OBVIOUS
<1>5. j.taken = "always" /\ j.op = Op
  BY <1>2, <1>4, AheadIsJump
<1>6. Target(j) = Op.to /\ FallsThrough(j)'
  BY <1>5 DEF Target, FallsThrough
<1>7. IsBranch(Op)
  BY <1>2 DEF IsBranch
<1> HIDE DEF Op, Blocks
<1> QED
  BY <1>1, <1>2, <1>3, <1>4, <1>6, <1>7, AheadStep

\* A jcc falls through to the block that comes next.
LEMMA CondStep ==
    ASSUME Place, RelocsInv, JumpsInv, BranchCond
    PROVE  RelocsInv' /\ JumpsInv'
<1> DEFINE to == IF Op.then = bi + 1 THEN Op.else ELSE Op.then
<1>1. At("cond") /\ bi + 1 \in {Op.then, Op.else} /\ JumpAhead(Op.n + 6, to, Taken(Op))
  BY DEF BranchCond
<1>2. /\ pos = "ops" /\ pc < Len(Blocks[bi]) /\ Op.op = "cond" /\ Op \in Ops /\ fi \in DOMAIN program
      /\ bi \in DOMAIN Blocks /\ pc + 1 \in DOMAIN Blocks[bi] /\ bi \in Nat
  BY <1>1, AtOp
<1>3. Op.then \in DOMAIN Blocks /\ Op.else \in DOMAIN Blocks /\ pc + 1 = Len(Blocks[bi])
  <2>1. BlockAssumption(Blocks, bi)
    BY <1>2, BlockFacts DEF Place
  <2> QED
    BY <1>2, <2>1 DEF BlockAssumption
<1>4. PICK n : n = Op.n + 6
  OBVIOUS
<1>5. PICK taken : taken = Taken(Op)
  OBVIOUS
<1>6. n \in Nat /\ n >= 5 /\ taken \in {"always", "true", "false"} /\ to \in DOMAIN Blocks
  <2>1. Op.n \in Nat
    BY <1>2, OpFacts
  <2> QED
    BY SMTT(40), <1>3, <1>4, <1>5, <2>1 DEF Taken
<1>7. PICK j : j = Ahead(n, taken)
  OBVIOUS
<1>8. j.taken = taken /\ j.op = Op /\ j.fn = fi /\ j.end = text + n
  BY <1>2, <1>6, <1>7, AheadIsJump
<1>9. Target(j) = to /\ Through(j) = bi + 1
  BY <1>1, <1>2, <1>5, <1>8, OpFacts DEF Target, Through, Taken
<1>10. FallsThrough(j)'
  <2>1. /\ pos' = "ops" /\ program' = program /\ fi' = fi /\ bi' = bi /\ text' = text + n /\ pc' = pc + 1
        /\ offset' = offset
    BY <1>1, <1>2, <1>4 DEF JumpAhead, Emitted
  <2>2. Through(j)' = bi + 1 /\ bi + 1 \in DOMAIN Blocks
    BY <1>1, <1>3, <1>9 DEF Through
  <2>3. pc' = Len(Blocks'[bi'])
    BY <1>3, <2>1
  <2> QED
    BY <1>8, <2>1, <2>2, <2>3 DEF FallsThrough
<1>11. IsBranch(Op)
  BY <1>2 DEF IsBranch
<1>12. JumpAhead(n, to, taken)
  BY <1>1, <1>4, <1>5
<1> HIDE DEF Op, Blocks, to
<1> QED
  BY <1>2, <1>6, <1>7, <1>9, <1>10, <1>11, <1>12, AheadStep

\* Ops that are no branch.
LEMMA PlainStep ==
    ASSUME Place, RelocsInv, JumpsInv, pos = "ops", pc < Len(Blocks[bi]), NEW n \in Nat, Emitted(n),
           relocs' = relocs, fixup' = fixup, jumps' = jumps
    PROVE  RelocsInv' /\ JumpsInv'
<1>1. RelocsInv' /\ RelocsStay
  BY RelocsKept
<1>2. \A k \in Jumps : JumpOK(k) => JumpOK(k)'
  BY <1>1, OpKeepsJump
<1>3. ASSUME NEW i \in DOMAIN jumps PROVE JumpOK(jumps[i])'
  <2>1. JumpOK(jumps[i]) /\ jumps[i] \in Jumps
    BY DEF JumpsInv
  <2>2. PICK k \in Jumps : k = jumps[i]
    BY <2>1
  <2>3. JumpOK(k)' /\ k = jumps'[i]
    BY <1>2, <2>1, <2>2
  <2> QED
    BY <2>3
<1>4. JumpsInv'
  BY <1>3 DEF JumpsInv
<1> QED
  BY <1>1, <1>4

\* What is known of every jump stays known when the list of jumps stays.
LEMMA JumpsKept ==
    ASSUME JumpsInv, jumps' = jumps, \A k \in Jumps : JumpOK(k) => JumpOK(k)'
    PROVE  JumpsInv'
<1>1. ASSUME NEW i \in DOMAIN jumps PROVE JumpOK(jumps[i])'
  <2>1. JumpOK(jumps[i]) /\ jumps[i] \in Jumps
    BY DEF JumpsInv
  <2>2. PICK k \in Jumps : k = jumps[i]
    BY <2>1
  <2>3. JumpOK(k)' /\ k = jumps'[i]
    BY <2>1, <2>2
  <2> QED
    BY <2>3
<1> QED
  BY <1>1 DEF JumpsInv

\* Between functions every jump has reached its target.
LEMMA ReachedOK ==
    ASSUME Place, NEW k \in Jumps, JumpOK(k), Reached(k), Grows, pos # "ops" \/ pc < Len(Blocks[bi]),
           text' \in Nat, text <= text', fi' \in Nat, fi <= fi', pos' = "head" => k.fn < fi'
    PROVE  JumpOK(k)'
<1>1. /\ k.fn \in DOMAIN program /\ k.fn <= fi /\ k.end <= text /\ (k.short => k.taken = "always")
      /\ FallsThrough(k)
  BY DEF JumpOK
<1>2. Reached(k)' /\ FallsThrough(k)'
  BY <1>1, ReachedStays, FallsThroughStays
<1>3. k.end <= text' /\ k.fn <= fi'
  <2>1. k.end \in Nat /\ k.fn \in Nat /\ text \in Nat /\ fi \in Nat
    BY JumpFacts DEF Place
  <2> QED
    BY <1>1, <2>1
<1>4. k.fn \in DOMAIN program'
  BY <1>1 DEF Grows
<1> QED
  BY <1>1, <1>2, <1>3, <1>4 DEF JumpOK

\* The list of functions moves on, behind a head or the last relocation.
LEMMA NextStep ==
    ASSUME Place, JumpsInv, pos = "head" \/ (pos = "patch" /\ pc = Len(relocs)), RelocsInv,
           NextFunction, Grows, text' \in Nat, text <= text', jumps' = jumps
    PROVE  RelocsInv' /\ JumpsInv'
<1>1. fi' = fi + 1 /\ pos' \in {"head", "link"} /\ fi \in Nat /\ fi' \in Nat
  BY DEF NextFunction, Place
<1>2. ASSUME NEW k \in Jumps, JumpOK(k) PROVE JumpOK(k)'
  <2>1. ~Pending(k)
    <3>1. CASE pos = "head"
      BY <3>1 DEF Pending
    <3>2. CASE pos = "patch" /\ pc = Len(relocs)
      <4>1. DOMAIN relocs = 1 .. Len(relocs) /\ Len(relocs) \in Nat
        <5>1. relocs \in Seq([from : DOMAIN Blocks, to : DOMAIN Blocks])
          BY <3>2 DEF RelocsInv
        <5> QED
          BY <5>1
      <4> QED
        BY <3>2, <4>1 DEF Pending
    <3> QED
      BY <3>1, <3>2
  <2>2. Reached(k) /\ k.fn <= fi
    BY <1>2, <2>1 DEF JumpOK
  <2>3. k.fn < fi' /\ fi <= fi'
    BY <1>1, <2>2, JumpFacts
  <2> QED
    BY <1>1, <1>2, <2>2, <2>3, ReachedOK
<1>3. RelocsInv'
  BY <1>1 DEF RelocsInv
<1> QED
  BY <1>2, <1>3, JumpsKept

\* A function starts with its first block and no relocations.
LEMMA PrologueStep ==
    ASSUME Place, JumpsInv, Prologue
    PROVE  RelocsInv' /\ JumpsInv'
<1>1. /\ pos = "head" /\ pos' = "ops" /\ text' = text + Fn.head /\ relocs' = <<>>
      /\ StartBlock(1, text') /\ program' = program /\ fi' = fi /\ jumps' = jumps
  BY DEF Prologue, sites
<1>2. fi \in DOMAIN program /\ fi \in Nat /\ text \in Nat
  BY <1>1 DEF Place
<1>3. Fn.head \in Nat
  BY <1>2, Sorts
<1>4. text' \in Nat /\ text <= text'
  BY <1>1, <1>2, <1>3
<1>5. PICK n \in Nat : n = text'
  BY <1>4
<1>6. offset' = [offset EXCEPT ![fi] = Append(@, n)]
  BY <1>1, <1>5 DEF StartBlock
<1>7. Grows
  BY <1>1, <1>2, <1>6, AppendGrows
<1>8. ASSUME NEW k \in Jumps, JumpOK(k) PROVE JumpOK(k)'
  <2>1. Reached(k)
    BY <1>1, <1>8 DEF JumpOK, Pending
  <2>2. fi <= fi'
    BY <1>1, <1>2
  <2> QED
    BY <1>1, <1>2, <1>4, <1>7, <1>8, <2>1, <2>2, ReachedOK
<1>9. RelocsInv'
  <2>1. <<>> \in Seq([from : DOMAIN Blocks', to : DOMAIN Blocks'])
    OBVIOUS
  <2> QED
    BY <1>1, <2>1 DEF RelocsInv
<1> QED
  BY <1>1, <1>8, <1>9, JumpsKept

\* A jump still waits when only displacements change.
LEMMA WaitsStays ==
    ASSUME NEW r, Waits(r), fi' = fi, fixup' = fixup, relocs' = relocs,
           \A i \in DOMAIN jumps :
               /\ i \in DOMAIN jumps' /\ jumps'[i].end = jumps[i].end /\ jumps'[i].fn = jumps[i].fn
               /\ jumps'[i].short = jumps[i].short /\ jumps'[i].taken = jumps[i].taken /\ jumps'[i].op = jumps[i].op
    PROVE  Waits(r)'
<1>1. PICK i \in DOMAIN jumps :
        /\ jumps[i].end = fixup[relocs[r].from] + 4
        /\ jumps[i].fn = fi /\ ~jumps[i].short
        /\ Target(jumps[i]) = relocs[r].to
  BY DEF Waits
<1>2. PICK k : k = jumps'[i]
  OBVIOUS
<1>3. Target(k) = Target(jumps[i]) /\ Target(jumps[i])' = Target(k)
  BY <1>2, <1>1 DEF Target
<1>4. i \in DOMAIN jumps' /\ k.end = fixup[relocs[r].from] + 4 /\ k.fn = fi /\ ~k.short
  BY <1>1, <1>2
<1> QED
  BY <1>1, <1>2, <1>3, <1>4 DEF Waits

\* The end of a block is where a jcc at its end falls through to; behind the last
\* block every target has an offset.
LEMMA EndBlockStep ==
    ASSUME Place, RelocsInv, JumpsInv, EndBlock
    PROVE  RelocsInv' /\ JumpsInv'
<1>1. /\ pos = "ops" /\ pc = Len(Blocks[bi]) /\ program' = program /\ fi' = fi /\ text' = text
      /\ fixup' = fixup /\ relocs' = relocs /\ jumps' = jumps
  BY DEF EndBlock, tables, sites
<1>2. /\ fi \in DOMAIN program /\ fi \in Nat /\ text \in Nat /\ bi \in DOMAIN Blocks /\ bi \in Nat
      /\ Len(offset[fi]) = bi /\ DOMAIN Blocks = 1 .. Len(Blocks) /\ Len(Blocks) \in Nat
  BY <1>1, Sorts DEF Place
<1>3. /\ relocs \in Seq([from : DOMAIN Blocks, to : DOMAIN Blocks])
      /\ \A r \in DOMAIN relocs : relocs[r].from <= bi /\ Waits(r)
  BY <1>1 DEF RelocsInv
<1>4. \A r \in DOMAIN relocs : Waits(r)'
  BY <1>1, <1>3, WaitsStays
<1>5. DOMAIN relocs = 1 .. Len(relocs) /\ \A r \in DOMAIN relocs : relocs[r].from \in DOMAIN Blocks
  <2>1. \A r \in [from : DOMAIN Blocks, to : DOMAIN Blocks] : r.from \in DOMAIN Blocks
    OBVIOUS
  <2> DEFINE S == [from : DOMAIN Blocks, to : DOMAIN Blocks]
  <2>2. relocs \in Seq(S)
    BY <1>3
  <2>3. DOMAIN relocs = 1 .. Len(relocs) /\ \A r \in DOMAIN relocs : relocs[r] \in S
    <3> HIDE DEF S
    <3> QED
      BY <2>2
  <2> QED
    BY <2>1, <2>3
<1>6. ASSUME Grows, pos' \in {"ops", "patch"}, pos' = "patch" => pc' = 0,
             NEW k \in Jumps, JumpOK(k), FallsThrough(k)'
      PROVE  JumpOK(k)'
  <2>1. /\ k.fn \in DOMAIN program /\ k.fn <= fi /\ k.end <= text /\ (k.short => k.taken = "always")
        /\ Reached(k) \/ Pending(k)
    BY <1>6 DEF JumpOK
  <2>2. CASE Reached(k)
    <3>1. Reached(k)'
      BY <1>6, <2>1, <2>2, ReachedStays
    <3> QED
      BY <1>1, <1>6, <2>1, <3>1 DEF JumpOK
  <2>3. CASE Pending(k)
    <3>1. PICK r \in DOMAIN relocs : fixup[relocs[r].from] + 4 = k.end /\ relocs[r].to = Target(k)
      BY <2>3 DEF Pending
    <3>2. k.fn = fi /\ ~k.short
      BY <2>3 DEF Pending
    <3>3. Target(k)' = Target(k)
      BY DEF Target
    <3>4. pos' = "patch" => r > pc'
      BY <1>5, <1>6
    <3>5. Pending(k)'
      BY <1>1, <1>6, <3>1, <3>2, <3>3, <3>4 DEF Pending
    <3> QED
      BY <1>1, <1>6, <2>1, <3>5 DEF JumpOK
  <2> QED
    BY <2>1, <2>2, <2>3
<1>7. CASE bi < Len(Blocks)
  <2>1. pos' = "ops" /\ bi' = bi + 1 /\ pc' = 0 /\ offset' = [offset EXCEPT ![fi] = Append(@, text)]
    BY <1>1, <1>7 DEF EndBlock, StartBlock
  <2>2. /\ Grows /\ offset'[fi][bi + 1] = text /\ bi + 1 \in DOMAIN offset'[fi]
    <3>1. /\ Grows /\ offset'[fi][Len(offset[fi]) + 1] = text
          /\ DOMAIN offset'[fi] = 1 .. Len(offset[fi]) + 1
      BY <1>1, <1>2, <2>1, AppendGrows
    <3>2. bi + 1 \in 1 .. bi + 1
      BY <1>2
    <3> QED
      BY <1>2, <3>1, <3>2
  <2>3. ASSUME NEW k \in Jumps, JumpOK(k) PROVE FallsThrough(k)'
    <3>1. FallsThrough(k) /\ k.fn \in DOMAIN program
      BY <2>3 DEF JumpOK
    <3>2. Through(k)' = Through(k)
      BY DEF Through
    <3>3. CASE k.taken = "always"
      BY <3>3 DEF FallsThrough
    <3>4. CASE k.taken # "always" /\ Through(k) \in DOMAIN offset[k.fn] /\ k.end = offset[k.fn][Through(k)]
      <4>1. Through(k) \in DOMAIN offset'[k.fn] /\ k.end = offset'[k.fn][Through(k)]
        BY <2>2, <3>1, <3>4 DEF Grows
      <4>2. Through(k) \in DOMAIN program'[k.fn].blocks
        BY <1>1, <3>1, <3>4 DEF FallsThrough
      <4> QED
        BY <3>2, <4>1, <4>2 DEF FallsThrough
    <3>5. CASE k.taken # "always" /\ k.fn = fi /\ k.end = text /\ Through(k) = bi + 1
      <4>1. Through(k) \in DOMAIN program'[k.fn].blocks
        BY <1>1, <3>1, <3>5 DEF FallsThrough
      <4> QED
        BY <2>2, <3>2, <3>5, <4>1 DEF FallsThrough
    <3> QED
      BY <3>1, <3>3, <3>4, <3>5 DEF FallsThrough
  <2>4. \A k \in Jumps : JumpOK(k) => JumpOK(k)'
    BY <1>6, <2>1, <2>2, <2>3
  <2>5. \A r \in DOMAIN relocs : relocs[r].from <= bi' /\ relocs[r].from # bi'
    BY <1>2, <1>3, <1>5, <2>1
  <2>6. RelocsInv'
    BY <1>1, <1>3, <1>4, <2>1, <2>5 DEF RelocsInv
  <2> QED
    BY <1>1, <2>4, <2>6, JumpsKept
<1>8. CASE ~(bi < Len(Blocks))
  <2>1. pos' = "patch" /\ bi' = bi /\ pc' = 0 /\ offset' = offset
    BY <1>1, <1>8 DEF EndBlock
  <2>2. Grows
    BY <1>1, <2>1 DEF Grows
  <2>3. ASSUME NEW k \in Jumps, JumpOK(k) PROVE FallsThrough(k)'
    <3>1. FallsThrough(k) /\ k.fn \in DOMAIN program
      BY <2>3 DEF JumpOK
    <3>2. Through(k)' = Through(k)
      BY DEF Through
    <3>3. CASE k.taken = "always"
      BY <3>3 DEF FallsThrough
    <3>4. CASE k.taken # "always" /\ Through(k) \in DOMAIN offset[k.fn] /\ k.end = offset[k.fn][Through(k)]
      <4>1. Through(k) \in DOMAIN program'[k.fn].blocks
        BY <1>1, <3>1, <3>4 DEF FallsThrough
      <4> QED
        BY <2>1, <3>2, <3>4, <4>1 DEF FallsThrough
    <3>5. CASE k.taken # "always" /\ k.fn = fi /\ Through(k) = bi + 1
      <4>1. bi + 1 \in DOMAIN Blocks
        BY <3>1, <3>5 DEF FallsThrough
      <4> QED
        BY <1>2, <1>8, <4>1
    <3> QED
      BY <3>1, <3>3, <3>4, <3>5 DEF FallsThrough
  <2>4. \A k \in Jumps : JumpOK(k) => JumpOK(k)'
    BY <1>6, <2>1, <2>2, <2>3
  <2>6. RelocsInv'
    BY <1>1, <1>3, <1>4, <2>1 DEF RelocsInv
  <2> QED
    BY <1>1, <2>4, <2>6, JumpsKept
<1> QED
  BY <1>7, <1>8

\* A relocation takes the jump that waits for it, and no other, to its target.
LEMMA PatchStep ==
    ASSUME Place, RelocsInv, JumpsInv, Patch
    PROVE  RelocsInv' /\ JumpsInv'
<1> DEFINE field == fixup[relocs[pc + 1].from] + 4
           dist == Distance(relocs[pc + 1])
<1>1. /\ pos = "patch" /\ pc < Len(relocs) /\ pc' = pc + 1 /\ jumps' = Write(jumps, fixup[relocs[pc + 1].from], dist)
      /\ UNCHANGED <<program, fi, pos, bi, text, offset, fixup, relocs>>
  BY DEF Patch, layout, tables
<1>2. /\ fi \in DOMAIN program /\ pc \in Nat /\ DOMAIN Blocks = 1 .. Len(Blocks) /\ Len(Blocks) \in Nat
      /\ offset[fi] \in Seq(Nat) /\ Len(offset[fi]) = Len(Blocks) /\ fixup \in [DOMAIN Blocks -> Nat]
  BY <1>1, Sorts DEF Place
<1>3. /\ relocs \in Seq([from : DOMAIN Blocks, to : DOMAIN Blocks])
      /\ \A r \in DOMAIN relocs : relocs[r].from <= bi /\ Waits(r)
  BY <1>1 DEF RelocsInv
<1>4. /\ DOMAIN relocs = 1 .. Len(relocs) /\ Len(relocs) \in Nat
      /\ \A r \in DOMAIN relocs : relocs[r].from \in DOMAIN Blocks /\ relocs[r].to \in DOMAIN Blocks
  <2>1. \A r \in [from : DOMAIN Blocks, to : DOMAIN Blocks] : r.from \in DOMAIN Blocks /\ r.to \in DOMAIN Blocks
    OBVIOUS
  <2> DEFINE S == [from : DOMAIN Blocks, to : DOMAIN Blocks]
  <2>2. relocs \in Seq(S)
    BY <1>3
  <2>3. DOMAIN relocs = 1 .. Len(relocs) /\ Len(relocs) \in Nat /\ \A r \in DOMAIN relocs : relocs[r] \in S
    <3> HIDE DEF S
    <3> QED
      BY <2>2
  <2> QED
    BY <2>1, <2>3
<1>5. pc + 1 \in DOMAIN relocs
  BY <1>1, <1>2, <1>4
<1>6. PICK q \in DOMAIN relocs : q = pc + 1
  BY <1>5
<1>7. fixup[relocs[q].from] \in Nat /\ offset[fi][relocs[q].to] \in Nat /\ relocs[q].to \in DOMAIN offset[fi]
  <2>1. DOMAIN offset[fi] = DOMAIN Blocks /\ \A b \in DOMAIN offset[fi] : offset[fi][b] \in Nat
    BY <1>2
  <2>2. relocs[q].from \in DOMAIN Blocks /\ relocs[q].to \in DOMAIN Blocks
    BY <1>4
  <2>3. \A b \in DOMAIN Blocks : fixup[b] \in Nat
    BY <1>2
  <2> QED
    BY <2>1, <2>2, <2>3
<1>8. dist = offset[fi][relocs[q].to] - field /\ dist \in Int /\ field \in Nat
  BY <1>6, <1>7 DEF Distance
<1>9. jumps \in Seq(Jumps) /\ DOMAIN jumps' = DOMAIN jumps
  BY <1>1 DEF JumpsInv, Write
<1>10. /\ \A i \in DOMAIN jumps : jumps[i].end = field => jumps'[i] = [jumps[i] EXCEPT !.disp = dist]
       /\ \A i \in DOMAIN jumps : jumps[i].end # field => jumps'[i] = jumps[i]
  BY <1>1 DEF Write
<1> HIDE DEF field, dist
<1>11. ASSUME NEW i \in DOMAIN jumps
       PROVE  /\ jumps'[i] \in Jumps
              /\ jumps'[i].end = jumps[i].end /\ jumps'[i].fn = jumps[i].fn
              /\ jumps'[i].short = jumps[i].short /\ jumps'[i].taken = jumps[i].taken /\ jumps'[i].op = jumps[i].op
              /\ jumps[i].end = field => jumps'[i].disp = dist
  <2>1. jumps[i] \in Jumps
    BY <1>9
  <2>2. CASE jumps[i].end = field
    BY <1>8, <1>10, <2>1, <2>2 DEF Jumps
  <2>3. CASE jumps[i].end # field
    BY <1>10, <2>1, <2>3
  <2> QED
    BY <2>2, <2>3
<1>12. RelocsInv'
  <2>1. \A r \in DOMAIN relocs : Waits(r)'
    BY <1>1, <1>3, <1>9, <1>11, WaitsStays
  <2> QED
    BY <1>1, <1>3, <2>1 DEF RelocsInv
<1>13. Grows
  BY <1>1 DEF Grows
<1>14. ASSUME NEW i \in DOMAIN jumps PROVE JumpOK(jumps[i])'
  <2>1. JumpOK(jumps[i]) /\ jumps[i] \in Jumps
    BY <1>9 DEF JumpsInv
  <2>2. PICK j : j = jumps[i]
    OBVIOUS
  <2>3. PICK k : k = jumps'[i]
    OBVIOUS
  <2>4. /\ k.end = j.end /\ k.fn = j.fn /\ k.short = j.short /\ k.taken = j.taken /\ k.op = j.op
        /\ j.end = field => k.disp = dist
        /\ j.end # field => k = j
    BY <1>10, <1>11, <2>2, <2>3
  <2>5. /\ j.fn \in DOMAIN program /\ j.fn <= fi /\ j.end <= text /\ (j.short => j.taken = "always")
        /\ FallsThrough(j) /\ (Reached(j) \/ Pending(j)) /\ j \in Jumps
    BY <2>1, <2>2 DEF JumpOK
  <2>6. Target(k) = Target(j) /\ Through(k) = Through(j)
    BY <2>4 DEF Target, Through
  <2>7. FallsThrough(k)
    <3>1. FallsThrough(k) = FallsThrough(j)
      BY <2>4, <2>6 DEF FallsThrough
    <3> QED
      BY <2>5, <3>1
  <2>8. FallsThrough(k)'
    BY <1>1, <1>13, <2>4, <2>5, <2>7, FallsThroughStays
  <2>9. Reached(k)' \/ Pending(k)'
    <3>1. CASE j.end = field
      <4>1. PICK m \in DOMAIN jumps :
                jumps[m].end = field /\ jumps[m].fn = fi /\ ~jumps[m].short /\ Target(jumps[m]) = relocs[q].to
        BY <1>3, <1>6 DEF Waits, field
      <4>2. m = i
        <5>1. i \in Nat /\ m \in Nat /\ jumps[i].end \in Nat /\ jumps[m].end \in Nat
          <6>1. jumps[i] \in Jumps /\ jumps[m] \in Jumps /\ DOMAIN jumps = 1 .. Len(jumps) /\ Len(jumps) \in Nat
            BY <1>9
          <6> QED
            BY <6>1, JumpFacts
        <5>2. ~(i < m) /\ ~(m < i)
          BY <2>2, <3>1, <4>1, <5>1 DEF JumpsInv
        <5> QED
          BY <5>1, <5>2
      <4>3. k.fn = fi /\ Target(k) = relocs[q].to /\ ~k.short /\ k.end = field /\ k.disp = dist
        BY <2>2, <2>4, <2>6, <3>1, <4>1, <4>2
      <4>4. Goal(k) = offset[fi][relocs[q].to]
        BY <1>7, <1>8, <4>3 DEF Goal
      <4>5. Reached(k)
        BY <1>7, <4>3, <4>4 DEF Reached
      <4>6. Reached(k)'
        BY <1>13, <2>4, <2>5, <4>5, ReachedStays
      <4> QED
        BY <4>6
    <3>2. CASE j.end # field /\ Reached(j)
      <4>1. Reached(k)'
        BY <1>13, <2>4, <2>5, <3>2, ReachedStays
      <4> QED
        BY <4>1
    <3>3. CASE j.end # field /\ Pending(j)
      <4>1. PICK r \in DOMAIN relocs : r > pc /\ fixup[relocs[r].from] + 4 = j.end /\ relocs[r].to = Target(j)
        BY <1>1, <3>3 DEF Pending
      <4>2. r # q
        BY <1>6, <3>3, <4>1 DEF field
      <4>3. r > pc'
        BY <1>1, <1>2, <1>4, <1>6, <4>1, <4>2
      <4>4. k.fn = fi /\ ~k.short /\ k.end = j.end
        BY <2>4, <3>3 DEF Pending
      <4>5. Target(k)' = Target(k)
        BY DEF Target
      <4>6. Pending(k)'
        BY <1>1, <2>6, <4>1, <4>3, <4>4, <4>5 DEF Pending
      <4> QED
        BY <4>6
    <3> QED
      BY <2>5, <3>1, <3>2, <3>3
  <2>10. JumpOK(k)'
    BY <1>1, <2>4, <2>5, <2>8, <2>9 DEF JumpOK
  <2> QED
    BY <2>3, <2>10
<1>15. jumps' \in Seq(Jumps)
  <2>1. DOMAIN jumps' = 1 .. Len(jumps) /\ Len(jumps) \in Nat
    BY <1>9
  <2>2. jumps' = [i \in 1 .. Len(jumps) |-> jumps'[i]]
    BY <1>1, <2>1 DEF Write
  <2>3. \A i \in 1 .. Len(jumps) : jumps'[i] \in Jumps
    BY <1>9, <1>11, <2>1
  <2> QED
    BY <2>1, <2>2, <2>3
<1>16. \A i, k \in DOMAIN jumps' : i < k => jumps'[i].end < jumps'[k].end
  BY <1>9, <1>11 DEF JumpsInv
<1> QED
  BY <1>9, <1>12, <1>14, <1>15, <1>16 DEF JumpsInv

\* Every step keeps what is known of relocations and jumps.
LEMMA JumpsStep == Inv /\ Next => RelocsInv' /\ JumpsInv'
<1> SUFFICES ASSUME Inv, Next PROVE RelocsInv' /\ JumpsInv'
  OBVIOUS
<1>t. Place /\ RelocsInv /\ JumpsInv
  BY DEF Inv
<1>a. text \in Nat /\ text <= text /\ fi \in Nat
  BY <1>t DEF Place
<1>1. CASE SkipExtern
  <2>1. pos = "head" /\ NextFunction /\ text' = text /\ jumps' = jumps /\ program' = program /\ offset' = offset
    BY <1>1 DEF SkipExtern, layout, sites
  <2>2. Grows
    BY <2>1 DEF Grows
  <2>3. text' \in Nat /\ text <= text'
    BY <1>a, <2>1
  <2> QED
    BY <1>t, <2>1, <2>2, <2>3, NextStep
<1>2. CASE NativeStub
  <2>1. /\ pos = "head" /\ NextFunction /\ text' = text + Fn.head /\ jumps' = jumps
        /\ program' = program /\ offset' = offset
    BY <1>2 DEF NativeStub, sites
  <2>2. Grows
    BY <2>1 DEF Grows
  <2>3. Fn.head \in Nat
    BY <1>t, <2>1, Sorts DEF Place
  <2>4. text' \in Nat /\ text <= text'
    BY <1>a, <2>1, <2>3
  <2> QED
    BY <1>t, <2>1, <2>2, <2>4, NextStep
<1>3. CASE Prologue
  BY <1>3, <1>t, PrologueStep
<1>4. CASE Code
  <2>1. At("code") /\ Emitted(Op.n) /\ fixup' = fixup /\ relocs' = relocs /\ jumps' = jumps
    BY <1>4 DEF Code, tables, sites
  <2>2. Op.n \in Nat /\ pos = "ops" /\ pc < Len(Blocks[bi])
    BY <1>t, <2>1, AtOp, OpFacts
  <2> QED
    BY <1>t, <2>1, <2>2, PlainStep
<1>5. CASE BranchBack
  BY <1>5, <1>t, BackStep
<1>6. CASE BranchAhead
  BY <1>6, <1>t, AheadBranchStep
<1>7. CASE BranchCond
  BY <1>7, <1>t, CondStep
<1>8. CASE Invoke
  <2>1. At("invoke") /\ Emitted(Op.n + 5) /\ fixup' = fixup /\ relocs' = relocs /\ jumps' = jumps
    BY <1>8 DEF Invoke
  <2>2. pos = "ops" /\ pc < Len(Blocks[bi]) /\ Op.op = "invoke" /\ Op \in Ops
    BY <1>t, <2>1, AtOp
  <2> HIDE DEF Op, Blocks
  <2>3. Op.n \in Nat
    BY <2>2, OpFacts
  <2>4. PICK n \in Nat : n = Op.n + 5
    BY <2>3
  <2>5. Emitted(n) /\ fixup' = fixup /\ relocs' = relocs /\ jumps' = jumps
    BY <2>1, <2>4
  <2> QED
    BY <1>t, <2>2, <2>5, PlainStep
<1>9. CASE Return
  <2>1. At("return") /\ Emitted(Op.n) /\ fixup' = fixup /\ relocs' = relocs /\ jumps' = jumps
    BY <1>9 DEF Return, tables
  <2>2. Op.n \in Nat /\ pos = "ops" /\ pc < Len(Blocks[bi])
    BY <1>t, <2>1, AtOp, OpFacts
  <2> QED
    BY <1>t, <2>1, <2>2, PlainStep
<1>10. CASE EndBlock
  BY <1>10, <1>t, EndBlockStep
<1>11. CASE Patch
  BY <1>11, <1>t, PatchStep
<1>12. CASE Epilogue
  <2>1. /\ pos = "patch" /\ pc = Len(relocs) /\ text' = text + Fn.tail
        /\ offset' = [offset EXCEPT ![fi] = Append(@, text)]
        /\ NextFunction /\ program' = program /\ jumps' = jumps
    BY <1>12 DEF Epilogue, sites
  <2>2. fi \in DOMAIN program
    BY <1>t, <2>1 DEF Place
  <2>3. Fn.tail \in Nat
    BY <1>t, <2>2, Sorts
  <2>4. Grows
    BY <1>t, <1>a, <2>1, <2>2, AppendGrows
  <2>5. text' \in Nat /\ text <= text'
    BY <1>a, <2>1, <2>3
  <2> QED
    BY <1>t, <2>1, <2>4, <2>5, NextStep
<1>13. ASSUME Link \/ Finish
       PROVE  RelocsInv' /\ JumpsInv'
  <2>1. /\ pos = "link" /\ pos' \in {"link", "done"}
        /\ UNCHANGED <<program, fi, text, offset, jumps>>
    BY <1>13 DEF Link, Finish, layout, sites
  <2>2. Grows
    BY <2>1 DEF Grows
  <2>3. ASSUME NEW k \in Jumps, JumpOK(k) PROVE JumpOK(k)'
    <3>1. Reached(k)
      BY <2>1, <2>3 DEF JumpOK, Pending
    <3>2. text' \in Nat /\ text <= text' /\ fi' \in Nat /\ fi <= fi'
      BY <1>a, <2>1
    <3> QED
      BY <1>t, <2>1, <2>2, <2>3, <3>1, <3>2, ReachedOK
  <2>4. RelocsInv'
    BY <2>1 DEF RelocsInv
  <2> QED
    BY <1>t, <2>1, <2>3, <2>4, JumpsKept
<1> QED
  BY <1>1, <1>2, <1>3, <1>4, <1>5, <1>6, <1>7, <1>8, <1>9, <1>10, <1>11, <1>12, <1>13 DEF Next

\* So does a stutter.
LEMMA InvStutters == Inv /\ UNCHANGED vars => Inv'
<1> SUFFICES ASSUME Inv, UNCHANGED vars PROVE Inv'
  OBVIOUS
<1>1. UNCHANGED <<program, fi, pos, bi, pc, text, offset, fixup, relocs, jumps>>
  BY DEF vars, layout, tables, sites
<1>2. Place /\ RelocsInv /\ JumpsInv
  BY DEF Inv
<1>3. Place'
  BY <1>1, <1>2 DEF Place
<1>4. \A r : Waits(r) => Waits(r)'
  BY <1>1, WaitsStays
<1>5. RelocsInv'
  BY <1>1, <1>2, <1>4 DEF RelocsInv
<1>6. ASSUME NEW k \in Jumps, JumpOK(k) PROVE JumpOK(k)'
  <2>1. Pending(k)' = Pending(k)
    BY <1>1 DEF Pending, Target
  <2>2. Reached(k)' = Reached(k)
    BY <1>1 DEF Reached, Target, InReach, Start, Goal
  <2>3. FallsThrough(k)' = FallsThrough(k)
    BY <1>1 DEF FallsThrough, Through
  <2> QED
    BY <1>1, <1>6, <2>1, <2>2, <2>3 DEF JumpOK
<1>7. JumpsInv'
  BY <1>1, <1>2, <1>6, JumpsKept
<1> QED
  BY <1>3, <1>5, <1>7 DEF Inv

\* For every program, at every step: each branch written so far has reached its
\* target or waits for a relocation of the function that is being generated.
THEOREM LayoutInv == Spec => []Inv
<1>1. Init => Inv
  BY StartsRight
<1>2. Inv /\ [Next]_vars => Inv'
  <2>1. Inv /\ Next => Inv'
    BY PlaceStep, JumpsStep DEF Inv
  <2> QED
    BY <2>1, InvStutters
<1> QED
  BY <1>1, <1>2, PTL DEF Spec

\* At the end no jump waits.
LEMMA InvLands == Inv => JumpsInReachLand
<1> SUFFICES ASSUME Inv, pos = "done", NEW i \in DOMAIN jumps, InReach(jumps[i]) PROVE Lands(jumps[i])
  BY DEF JumpsInReachLand
<1>1. PICK j : j = jumps[i]
  OBVIOUS
<1>2. JumpOK(j) /\ j \in Jumps
  BY <1>1 DEF Inv, JumpsInv
<1>3. Goal(j) = offset[j.fn][Target(j)]
  BY <1>1, <1>2 DEF JumpOK, Reached, Pending
<1>4. j.taken # "always" => j.end = offset[j.fn][Through(j)]
  BY <1>2 DEF JumpOK, FallsThrough
<1>5. j.taken \in {"always", "true", "false"}
  BY <1>2, JumpFacts
<1>6. Lands(j)
  BY <1>3, <1>4, <1>5 DEF Lands, Start, Target, Through
<1> QED
  BY <1>1, <1>6

\* For every program, whatever its blocks, sizes and branches: in the finished text
\* each branch goes to the block it names and a jcc falls through to its other
\* target, but for a rel8 out of reach (x86_64.c:2100-2173, 2536-2545).
THEOREM LayoutLands == Spec => []JumpsInReachLand
BY LayoutInv, InvLands, PTL
=============================================================================
