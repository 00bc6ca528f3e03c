---------------------------- MODULE X86CallsProofs ----------------------------
(***************************************************************************)
(* Every call of every program reaches its function, and a relocation of a *)
(* branch writes only the branch it was made for (CallsReach, PatchesMine).*)
(* A call has the distance to its function, waits for the relocation with  *)
(* its place, or was made with an offset from the evaluator; relocations,  *)
(* like calls and branches, are in the order of their places, so that no   *)
(* two of them write the same four bytes.                                  *)
(***************************************************************************)
EXTENDS X86LayoutProofs

Call == [end : Nat, disp : Int, to : Nat]
FnReloc == [fn : Nat, at : Nat]

\* The code of the function, or its stub, is in the text.
Generated(f) == f < fi \/ (f = fi /\ pos # "head")

FunctionsInv ==
    /\ pos = "head" => pc = 0
    /\ pos \in {"link", "done"} => fi = Len(program) + 1
    /\ fn_offset \in [DOMAIN program -> Nat \union {Invalid}]
    /\ \A f \in DOMAIN program : program[f].kind # "extern" =>
        /\ Generated(f) => fn_offset[f] \in Nat /\ fn_offset[f] <= text
        /\ ~Generated(f) => fn_offset[f] = program[f].was

Reaches(c) == Generated(c.to) /\ c.end + c.disp = fn_offset[c.to]

\* The call was made with an offset from the evaluator.
Stale(c) == program[c.to].was # Invalid /\ (Generated(c.to) => fn_offset[c.to] >= c.end)

\* Relocation r of a call is still to be done.
ToLink(r) == pos # "done" /\ (pos = "link" => r > pc)

Awaits(c) ==
    /\ program[c.to].was = Invalid /\ c.disp = -c.end
    /\ \E r \in DOMAIN fn_relocs : ToLink(r) /\ fn_relocs[r].at + 4 = c.end /\ fn_relocs[r].fn = c.to

CallOK(c) ==
    /\ c.to \in DOMAIN program /\ program[c.to].kind # "extern"
    /\ c.end <= text
    /\ Reaches(c) \/ Stale(c) \/ Awaits(c)

CallsInv ==
    /\ calls \in Seq(Call) /\ fn_relocs \in Seq(FnReloc)
    /\ \A i, k \in DOMAIN calls : i < k => calls[i].end < calls[k].end
    /\ \A i \in DOMAIN calls : CallOK(calls[i])
    /\ \A r, s \in DOMAIN fn_relocs : r < s => fn_relocs[r].at < fn_relocs[s].at
    /\ \A r \in DOMAIN fn_relocs : fn_relocs[r].at + 4 <= text
    /\ \A r \in DOMAIN fn_relocs, i \in DOMAIN calls :
        ToLink(r) /\ calls[i].end = fn_relocs[r].at + 4 => Awaits(calls[i])

LinkInv == Inv /\ FunctionsInv /\ CallsInv
-----------------------------------------------------------------------------
LEMMA CallFacts ==
    ASSUME NEW c \in Call
    PROVE  c.end \in Nat /\ c.disp \in Int /\ c.to \in Nat
BY DEF Call

LEMMA FnRelocFacts ==
    ASSUME NEW r \in FnReloc
    PROVE  r.fn \in Nat /\ r.at \in Nat
BY DEF FnReloc

LEMMA CallsSorts ==
    ASSUME CallsInv
    PROVE  /\ DOMAIN calls = 1 .. Len(calls) /\ Len(calls) \in Nat
           /\ \A i \in DOMAIN calls :
                calls[i] \in Call /\ calls[i].end \in Nat /\ calls[i].disp \in Int /\ calls[i].to \in Nat
           /\ DOMAIN fn_relocs = 1 .. Len(fn_relocs) /\ Len(fn_relocs) \in Nat
           /\ \A r \in DOMAIN fn_relocs :
                fn_relocs[r] \in FnReloc /\ fn_relocs[r].fn \in Nat /\ fn_relocs[r].at \in Nat
<1>1. calls \in Seq(Call) /\ fn_relocs \in Seq(FnReloc)
  BY DEF CallsInv
<1>2. /\ DOMAIN calls = 1 .. Len(calls) /\ Len(calls) \in Nat
      /\ \A i \in DOMAIN calls : calls[i] \in Call
  BY <1>1
<1>3. /\ DOMAIN fn_relocs = 1 .. Len(fn_relocs) /\ Len(fn_relocs) \in Nat
      /\ \A r \in DOMAIN fn_relocs : fn_relocs[r] \in FnReloc
  BY <1>1
<1> QED
  BY <1>2, <1>3, CallFacts, FnRelocFacts

LEMMA LinkStartsRight == Init => LinkInv
<1> SUFFICES ASSUME Init PROVE FunctionsInv /\ CallsInv
  BY StartsRight DEF LinkInv
<1>1. /\ program \in Programs /\ fi = 1 /\ pos = "head" /\ pc = 0
      /\ fn_offset = [f \in DOMAIN program |-> program[f].was]
      /\ calls = <<>> /\ fn_relocs = <<>>
  BY DEF Init
<1>2. \A f \in DOMAIN program : f \in Nat /\ f >= 1 /\ program[f].was \in Nat \union {Invalid}
  BY <1>1, FunctionFacts
<1>3. FunctionsInv
  BY <1>1, <1>2 DEF FunctionsInv, Generated
<1>4. CallsInv
  <2>1. calls \in Seq(Call) /\ fn_relocs \in Seq(FnReloc)
    BY <1>1
  <2>2. DOMAIN calls = {} /\ DOMAIN fn_relocs = {}
    BY <1>1
  <2> QED
    BY <2>1, <2>2 DEF CallsInv
<1> QED
  BY <1>3, <1>4

\* A step that makes no call and links none keeps what is known of calls, however
\* the text grows and whichever function is generated.
LEMMA CallsStay ==
    ASSUME Place, Place', FunctionsInv, FunctionsInv', CallsInv,
           program' = program, calls' = calls, fn_relocs' = fn_relocs, text' >= text,
           \A f \in DOMAIN program : program[f].kind # "extern" =>
               /\ Generated(f) => Generated(f)' /\ fn_offset'[f] = fn_offset[f]
               /\ ~Generated(f) /\ Generated(f)' => fn_offset'[f] = text,
           \A r \in DOMAIN fn_relocs : ToLink(r)' <=> ToLink(r)
    PROVE  CallsInv'
<1>1. text \in Nat /\ text' \in Nat
  BY DEF Place
<1>2. \A i \in DOMAIN calls : calls[i].end \in Nat /\ calls[i].disp \in Int /\ calls[i].to \in Nat
  BY CallsSorts
<1>3. \A r \in DOMAIN fn_relocs : fn_relocs[r].at \in Nat
  BY CallsSorts
<1>4. ASSUME NEW i \in DOMAIN calls, Awaits(calls[i]) PROVE Awaits(calls[i])'
  BY <1>4 DEF Awaits
<1>5. ASSUME NEW i \in DOMAIN calls PROVE CallOK(calls[i])'
  <2>1. CallOK(calls[i])
    BY DEF CallsInv
  <2> DEFINE c == calls[i]
  <2>2. c' = c /\ c.end \in Nat /\ c.to \in DOMAIN program /\ program[c.to].kind # "extern" /\ c.end <= text
    BY <1>2, <2>1 DEF CallOK
  <2>3. Generated(c.to) => Generated(c.to)' /\ fn_offset'[c.to] = fn_offset[c.to]
    BY <2>2
  <2>4. ~Generated(c.to) /\ Generated(c.to)' => fn_offset'[c.to] = text
    BY <2>2
  <2> SUFFICES CallOK(c)'
    OBVIOUS
  <2>8. Awaits(c) => Awaits(c)'
    BY <1>4
  <2>9. Reaches(c) \/ Stale(c) \/ Awaits(c)
    BY <2>1 DEF CallOK
  <2> HIDE DEF c
  <2>5. CASE Reaches(c)
    BY <1>1, <2>2, <2>3, <2>5 DEF CallOK, Reaches
  <2>6. CASE Stale(c)
    <3>1. Stale(c)'
      BY <1>1, <2>2, <2>3, <2>4, <2>6 DEF Stale
    <3> QED
      BY <1>1, <2>2, <3>1 DEF CallOK
  <2>7. CASE Awaits(c)
    BY <1>1, <2>2, <2>7, <2>8 DEF CallOK
  <2> QED
    BY <2>5, <2>6, <2>7, <2>9
<1>6. \A r \in DOMAIN fn_relocs : fn_relocs[r].at + 4 <= text'
  BY <1>1, <1>3 DEF CallsInv
<1>7. ASSUME NEW r \in DOMAIN fn_relocs, NEW i \in DOMAIN calls,
             ToLink(r)', calls[i].end = fn_relocs[r].at + 4
      PROVE  Awaits(calls[i])'
  <2>1. Awaits(calls[i])
    BY <1>7 DEF CallsInv
  <2> QED
    BY <1>4, <2>1
<1> QED
  BY <1>5, <1>6, <1>7 DEF CallsInv

\* A step that generates no function keeps what is known of functions, too.
LEMMA StillStep ==
    ASSUME Place, Place', FunctionsInv, CallsInv, text' >= text,
           UNCHANGED <<program, fn_offset, calls, fn_relocs>>,
           pos' = "head" => pc' = 0, pos' \in {"link", "done"} => fi' = Len(program) + 1,
           \A f \in DOMAIN program : program[f].kind # "extern" => (Generated(f)' <=> Generated(f)),
           \A r \in DOMAIN fn_relocs : ToLink(r)' <=> ToLink(r)
    PROVE  FunctionsInv' /\ CallsInv'
<1>1. text \in Nat /\ text' \in Nat
  BY DEF Place
<1>2. FunctionsInv'
  <2>1. fn_offset' \in [DOMAIN program' -> Nat \union {Invalid}]
    BY DEF FunctionsInv
  <2>2. ASSUME NEW f \in DOMAIN program, program[f].kind # "extern"
        PROVE  /\ Generated(f)' => fn_offset'[f] \in Nat /\ fn_offset'[f] <= text'
               /\ ~Generated(f)' => fn_offset'[f] = program[f].was
    <3>1. /\ Generated(f) => fn_offset[f] \in Nat /\ fn_offset[f] <= text
          /\ ~Generated(f) => fn_offset[f] = program[f].was
      BY <2>2 DEF FunctionsInv
    <3>2. Generated(f)' <=> Generated(f)
      BY <2>2
    <3> QED
      BY <1>1, <3>1, <3>2
  <2> QED
    BY <2>1, <2>2 DEF FunctionsInv
<1>3. CallsInv'
  BY <1>2, CallsStay
<1> QED
  BY <1>2, <1>3

\* So an op that is no call.
LEMMA OpStep ==
    ASSUME Place, Place', FunctionsInv, CallsInv, pos = "ops", NEW n \in Nat, Emitted(n),
           calls' = calls, fn_relocs' = fn_relocs
    PROVE  FunctionsInv' /\ CallsInv'
<1>1. /\ text' = text + n /\ UNCHANGED <<program, fi, pos, fn_offset>> /\ pos' = "ops"
  BY DEF Emitted
<1>2. text' >= text
  BY <1>1 DEF Place
<1>3. \A f : Generated(f)' <=> Generated(f)
  BY <1>1 DEF Generated
<1>4. \A r : ToLink(r)' <=> ToLink(r)
  BY <1>1 DEF ToLink
<1> QED
  BY <1>1, <1>2, <1>3, <1>4, StillStep

\* What is generated once the list of functions has moved on.
LEMMA NextGenerates ==
    ASSUME Place, fi \in DOMAIN program, NextFunction, program' = program
    PROVE  /\ pos' \in {"head", "link"}
           /\ pos' = "link" => fi' = Len(program) + 1
           /\ \A f \in DOMAIN program : Generated(f)' <=> f <= fi
<1>1. fi' = fi + 1 /\ pos' = IF fi = Len(program) THEN "link" ELSE "head"
  BY DEF NextFunction
<1>2. /\ fi \in Nat /\ Len(program) \in Nat /\ DOMAIN program = 1 .. Len(program)
      /\ \A f \in DOMAIN program : f \in Nat /\ f <= Len(program)
  BY FunctionFacts DEF Place
<1>3. ASSUME NEW f \in DOMAIN program PROVE Generated(f)' <=> f <= fi
  BY <1>1, <1>2 DEF Generated
<1> QED
  BY <1>1, <1>2, <1>3

\* A function, or its stub, gets the offset where the text ends.
LEMMA FunctionStarts ==
    ASSUME Place, Place', FunctionsInv, CallsInv, pos = "head", Fn.kind # "extern",
           UNCHANGED <<program, calls, fn_relocs>>, text' >= text,
           fn_offset' = [fn_offset EXCEPT ![fi] = text],
           pos' = "head" => pc' = 0, pos' = "link" => pc' = 0 /\ fi' = Len(program) + 1,
           pos' # "done",
           \A f \in DOMAIN program : Generated(f)' <=> f <= fi
    PROVE  FunctionsInv' /\ CallsInv'
<1>1. /\ text \in Nat /\ text' \in Nat /\ fi \in DOMAIN program /\ fi \in Nat
      /\ \A f \in DOMAIN program : f \in Nat
  <2>1. DOMAIN program = 1 .. Len(program)
    BY FunctionFacts DEF Place
  <2> QED
    BY <2>1 DEF Place
<1>2. fn_offset \in [DOMAIN program -> Nat \union {Invalid}]
  BY DEF FunctionsInv
<1>3. /\ fn_offset' \in [DOMAIN program -> Nat \union {Invalid}]
      /\ fn_offset'[fi] = text
      /\ \A f \in DOMAIN program : f # fi => fn_offset'[f] = fn_offset[f]
  BY <1>1, <1>2
<1>4. \A f \in DOMAIN program : Generated(f) <=> f < fi
  BY <1>1 DEF Generated
<1>5. ASSUME NEW f \in DOMAIN program, program[f].kind # "extern"
      PROVE  /\ Generated(f)' => fn_offset'[f] \in Nat /\ fn_offset'[f] <= text'
             /\ ~Generated(f)' => fn_offset'[f] = program[f].was
  <2>1. /\ Generated(f) => fn_offset[f] \in Nat /\ fn_offset[f] <= text
        /\ ~Generated(f) => fn_offset[f] = program[f].was
    BY <1>5 DEF FunctionsInv
  <2>2. Generated(f)' <=> f <= fi
    OBVIOUS
  <2>3. CASE f = fi
    BY <1>1, <1>3, <2>2, <2>3
  <2>4. CASE f # fi
    BY <1>1, <1>3, <1>4, <2>1, <2>2, <2>4
  <2> QED
    BY <2>3, <2>4
<1>6. FunctionsInv'
  <2>1. pos' = "head" => pc' = 0
    OBVIOUS
  <2>2. pos' \in {"link", "done"} => fi' = Len(program') + 1
    OBVIOUS
  <2>3. fn_offset' \in [DOMAIN program' -> Nat \union {Invalid}]
    BY <1>3
  <2> QED
    BY <1>5, <2>1, <2>2, <2>3 DEF FunctionsInv
<1>7. ASSUME NEW f \in DOMAIN program
      PROVE  /\ Generated(f) => Generated(f)' /\ fn_offset'[f] = fn_offset[f]
             /\ ~Generated(f) /\ Generated(f)' => fn_offset'[f] = text
  <2>1. Generated(f)' <=> f <= fi
    OBVIOUS
  <2> QED
    BY <1>1, <1>3, <1>4, <2>1
<1>8. \A r \in DOMAIN fn_relocs : ToLink(r)' <=> ToLink(r)
  BY CallsSorts DEF ToLink
<1> QED
  BY <1>6, <1>7, <1>8, CallsStay

\* A call: the function has its offset, or one from the evaluator, or there is a
\* relocation for the place of the call.
LEMMA InvokeStep ==
    ASSUME Place, Place', FunctionsInv, CallsInv, Invoke
    PROVE  FunctionsInv' /\ CallsInv'
<1>1. pos = "ops" /\ Op \in Ops /\ Op.op = "invoke" /\ text \in Nat /\ text' \in Nat
  BY AtOp DEF Invoke, Place
<1>2. Op.fn \in DOMAIN program
  <2>1. /\ program \in Programs /\ fi \in DOMAIN program /\ bi \in DOMAIN program[fi].blocks
        /\ pc + 1 \in DOMAIN program[fi].blocks[bi] /\ program[fi].blocks[bi][pc + 1].op = "invoke"
    <3>1. At("invoke")
      BY DEF Invoke
    <3>2. program \in Programs
      BY DEF Place
    <3> QED
      BY <3>1, <3>2, AtOp DEF Blocks, Fn, Op
  <2> QED
    BY <2>1, ProgramsAssumption DEF Blocks, Fn, Op
<1>3. Op.n \in Nat
  BY <1>1, OpFacts
<1>4. PICK f \in DOMAIN program, end \in Nat : f = Op.fn /\ end = text + Op.n + 5
  BY <1>1, <1>2, <1>3
<1> DEFINE c == [end |-> end, disp |-> CallDisp(f, end), to |-> f]
           q == [fn |-> f, at |-> end - 4]
<1>5. /\ program[f].kind # "extern"
      /\ calls' = Append(calls, c)
      /\ fn_relocs' = IF fn_offset[f] = Invalid THEN Append(fn_relocs, q) ELSE fn_relocs
      /\ UNCHANGED <<program, fi, pos, fn_offset>>
  BY <1>4 DEF Invoke, Emitted
<1>6. text' = end /\ end >= text + 5 /\ end - 4 \in Nat
  <2>1. text' = text + (Op.n + 5)
    BY DEF Invoke, Emitted
  <2> QED
    BY <1>1, <1>3, <1>4, <2>1
<1>7. \A g : Generated(g)' <=> Generated(g)
  BY <1>5 DEF Generated
<1>8. FunctionsInv'
  <2>1. ASSUME NEW g \in DOMAIN program, program[g].kind # "extern"
        PROVE  /\ Generated(g)' => fn_offset'[g] \in Nat /\ fn_offset'[g] <= text'
               /\ ~Generated(g)' => fn_offset'[g] = program[g].was
    <3>1. /\ Generated(g) => fn_offset[g] \in Nat /\ fn_offset[g] <= text
          /\ ~Generated(g) => fn_offset[g] = program[g].was
      BY <2>1 DEF FunctionsInv
    <3> QED
      BY <1>1, <1>5, <1>6, <1>7, <3>1
  <2> QED
    BY <1>1, <1>5, <2>1 DEF FunctionsInv
<1>9. f \in Nat /\ fn_offset[f] \in Nat \union {Invalid}
  <2>1. DOMAIN program = 1 .. Len(program)
    BY FunctionFacts DEF Place
  <2> QED
    BY <2>1 DEF FunctionsInv
<1>10. c \in Call /\ q \in FnReloc /\ c.end = end /\ c.to = f /\ c.disp = CallDisp(f, end)
  <2>1. CallDisp(f, end) \in Int
    BY <1>9 DEF CallDisp, Invalid
  <2> QED
    BY <1>6, <1>9, <2>1 DEF Call, FnReloc
<1>11. /\ calls' \in Seq(Call) /\ DOMAIN calls' = 1 .. Len(calls) + 1
       /\ DOMAIN calls = 1 .. Len(calls) /\ Len(calls) \in Nat
       /\ calls'[Len(calls) + 1] = c
       /\ \A i \in DOMAIN calls : calls'[i] = calls[i]
  <2>1. calls \in Seq(Call)
    BY DEF CallsInv
  <2> HIDE DEF c
  <2> QED
    BY <1>5, <1>10, <2>1, AppendFacts
<1>12. /\ fn_relocs' \in Seq(FnReloc)
       /\ DOMAIN fn_relocs = 1 .. Len(fn_relocs) /\ Len(fn_relocs) \in Nat
       /\ \A r \in DOMAIN fn_relocs : r \in DOMAIN fn_relocs' /\ fn_relocs'[r] = fn_relocs[r]
       /\ \A r \in DOMAIN fn_relocs' : r \in DOMAIN fn_relocs
            \/ (r = Len(fn_relocs) + 1 /\ fn_relocs'[r] = q /\ fn_offset[f] = Invalid)
       /\ fn_offset[f] = Invalid => Len(fn_relocs) + 1 \in DOMAIN fn_relocs' /\ fn_relocs'[Len(fn_relocs) + 1] = q
  <2>1. fn_relocs \in Seq(FnReloc)
    BY DEF CallsInv
  <2> HIDE DEF q
  <2>2. CASE fn_offset[f] = Invalid
    <3>1. fn_relocs' = Append(fn_relocs, q)
      BY <1>5, <2>2
    <3>2. /\ fn_relocs' \in Seq(FnReloc) /\ DOMAIN fn_relocs' = 1 .. Len(fn_relocs) + 1
          /\ DOMAIN fn_relocs = 1 .. Len(fn_relocs) /\ Len(fn_relocs) \in Nat
          /\ fn_relocs'[Len(fn_relocs) + 1] = q
          /\ \A r \in DOMAIN fn_relocs : r \in DOMAIN fn_relocs' /\ fn_relocs'[r] = fn_relocs[r]
      BY <1>10, <2>1, <3>1, AppendFacts
    <3> QED
      BY <2>2, <3>2
  <2>3. CASE fn_offset[f] # Invalid
    <3>1. fn_relocs' = fn_relocs
      BY <1>5, <2>3
    <3>2. DOMAIN fn_relocs = 1 .. Len(fn_relocs) /\ Len(fn_relocs) \in Nat
      BY <2>1
    <3> QED
      BY <2>1, <2>3, <3>1, <3>2
  <2> QED
    BY <2>2, <2>3
<1>13. \A r \in DOMAIN fn_relocs' : ToLink(r)'
  BY <1>1, <1>5 DEF ToLink
<1>14. ASSUME NEW i \in DOMAIN calls, Awaits(calls[i])
       PROVE  Awaits(calls[i])'
  <2>1. PICK r \in DOMAIN fn_relocs : ToLink(r) /\ fn_relocs[r].at + 4 = calls[i].end /\ fn_relocs[r].fn = calls[i].to
    BY <1>14 DEF Awaits
  <2>2. r \in DOMAIN fn_relocs' /\ fn_relocs'[r] = fn_relocs[r] /\ ToLink(r)'
    BY <1>12, <1>13
  <2> QED
    BY <1>5, <1>11, <1>14, <2>1, <2>2 DEF Awaits
<1>15. ASSUME NEW i \in DOMAIN calls PROVE CallOK(calls[i])' /\ calls[i].end <= text
  <2>1. CallOK(calls[i]) /\ calls'[i] = calls[i] /\ calls[i].end \in Nat
    BY <1>11, CallsSorts DEF CallsInv
  <2>2. Reaches(calls[i]) => Reaches(calls[i])'
    BY <1>5, <1>7, <2>1 DEF Reaches
  <2>3. Stale(calls[i]) => Stale(calls[i])'
    BY <1>5, <1>7, <2>1 DEF Stale
  <2> QED
    BY <1>1, <1>5, <1>6, <1>14, <2>1, <2>2, <2>3 DEF CallOK
<1>25. PICK n : n = Len(calls) + 1
  OBVIOUS
<1>16. fn_offset[f] = Invalid => Awaits(calls[n])'
  <2> SUFFICES ASSUME fn_offset[f] = Invalid PROVE Awaits(calls[n])'
    OBVIOUS
  <2>1. program[f].was = Invalid
    <3>1. ~Generated(f)
      BY <1>5 DEF FunctionsInv, Invalid
    <3> QED
      BY <1>5, <3>1 DEF FunctionsInv
  <2>2. c.disp = -c.end
    BY <1>10 DEF CallDisp
  <2>3. PICK r \in DOMAIN fn_relocs' : fn_relocs'[r] = q /\ ToLink(r)'
    BY <1>12, <1>13
  <2>4. q.at + 4 = end /\ q.fn = f
    BY <1>6
  <2> HIDE DEF c, q
  <2>5. calls'[n] = c
    BY <1>11, <1>25
  <2> QED
    BY <1>5, <1>10, <2>1, <2>2, <2>3, <2>4, <2>5 DEF Awaits
<1>17. CallOK(calls[n])'
  <2>1. calls'[n] = c
    BY <1>11, <1>25
  <2>2. fn_offset[f] # Invalid /\ Generated(f) => Reaches(calls[n])'
    <3>1. fn_offset[f] # Invalid => c.end + c.disp = fn_offset[f]
      BY <1>9, <1>10 DEF CallDisp
    <3> HIDE DEF c
    <3> QED
      BY <1>5, <1>7, <1>10, <2>1, <3>1 DEF Reaches
  <2>3. fn_offset[f] # Invalid /\ ~Generated(f) => Stale(calls[n])'
    <3>1. ~Generated(f) => fn_offset[f] = program[f].was
      BY <1>5 DEF FunctionsInv
    <3> HIDE DEF c
    <3> QED
      BY <1>5, <1>7, <1>10, <2>1, <3>1 DEF Stale
  <2> HIDE DEF c
  <2>4. end <= text'
    BY <1>6
  <2> QED
    BY <1>5, <1>10, <1>16, <2>1, <2>2, <2>3, <2>4 DEF CallOK
<1>18. \A r \in DOMAIN fn_relocs : fn_relocs[r].at + 4 <= text /\ fn_relocs[r].at \in Nat
  BY CallsSorts DEF CallsInv
<1>19. \A r \in DOMAIN fn_relocs' : fn_relocs'[r].at + 4 <= text'
  BY <1>1, <1>6, <1>12, <1>18
<1>20. \A r, s \in DOMAIN fn_relocs' : r < s => fn_relocs'[r].at < fn_relocs'[s].at
  <2> SUFFICES ASSUME NEW r \in DOMAIN fn_relocs', NEW s \in DOMAIN fn_relocs', r < s
               PROVE  fn_relocs'[r].at < fn_relocs'[s].at
    OBVIOUS
  <2>1. q.at = end - 4
    OBVIOUS
  <2> HIDE DEF q
  <2>2. CASE s \in DOMAIN fn_relocs
    <3>1. r \in DOMAIN fn_relocs
      BY <1>12, <2>2
    <3> QED
      BY <1>12, <2>2, <3>1 DEF CallsInv
  <2>3. CASE s = Len(fn_relocs) + 1 /\ fn_relocs'[s] = q
    <3>1. r \in DOMAIN fn_relocs
      BY <1>12, <2>3
    <3> QED
      BY <1>1, <1>6, <1>12, <1>18, <2>1, <2>3, <3>1
  <2> QED
    BY <1>12, <2>2, <2>3
<1>21. \A i, k \in DOMAIN calls' : i < k => calls'[i].end < calls'[k].end
  <2> SUFFICES ASSUME NEW i \in DOMAIN calls', NEW k \in DOMAIN calls', i < k
               PROVE  calls'[i].end < calls'[k].end
    OBVIOUS
  <2>1. i \in DOMAIN calls
    BY <1>11
  <2>2. CASE k \in DOMAIN calls
    BY <1>11, <2>1, <2>2 DEF CallsInv
  <2>3. CASE k = n
    <3>1. calls[i].end <= text /\ calls[i].end \in Nat
      BY <1>15, <2>1, CallsSorts
    <3>2. calls'[k].end = end
      BY <1>10, <1>11, <1>25, <2>3
    <3> QED
      BY <1>1, <1>6, <1>11, <2>1, <3>1, <3>2
  <2> QED
    BY <1>11, <1>25, <2>2, <2>3
<1>22. ASSUME NEW r \in DOMAIN fn_relocs', NEW i \in DOMAIN calls', calls'[i].end = fn_relocs'[r].at + 4
       PROVE  Awaits(calls[i])'
  <2>1. CASE i \in DOMAIN calls
    <3>1. calls[i].end <= text /\ calls[i].end \in Nat /\ calls'[i] = calls[i]
      BY <1>11, <1>15, <2>1, CallsSorts
    <3>2. r \in DOMAIN fn_relocs
      <4> SUFFICES ASSUME fn_relocs'[r] = q PROVE FALSE
        BY <1>12
      <4> QED
        BY <1>1, <1>6, <1>22, <3>1
    <3>3. Awaits(calls[i])
      <4>1. ToLink(r)
        BY <1>1 DEF ToLink
      <4>2. fn_relocs'[r] = fn_relocs[r]
        BY <1>12, <3>2
      <4> QED
        BY <1>22, <2>1, <3>1, <3>2, <4>1, <4>2 DEF CallsInv
    <3> QED
      BY <1>14, <2>1, <3>3
  <2>2. CASE i = n
    <3>1. fn_offset[f] = Invalid
      <4> SUFFICES ASSUME r \in DOMAIN fn_relocs PROVE FALSE
        BY <1>12
      <4>1. fn_relocs'[r] = fn_relocs[r] /\ calls'[i].end = end
        BY <1>10, <1>11, <1>12, <1>25, <2>2
      <4> QED
        BY <1>1, <1>6, <1>18, <1>22, <4>1
    <3> QED
      BY <1>16, <2>2, <3>1
  <2> QED
    BY <1>11, <1>25, <2>1, <2>2
<1>23. ASSUME NEW i \in DOMAIN calls' PROVE CallOK(calls[i])'
  BY <1>11, <1>15, <1>17, <1>25
<1>24. CallsInv'
  BY <1>11, <1>12, <1>19, <1>20, <1>21, <1>22, <1>23 DEF CallsInv
<1> QED
  BY <1>8, <1>24

\* Relocation pc + 1 writes the one call that ends behind it, which awaits it.
LEMMA LinkStep ==
    ASSUME Place, Place', FunctionsInv, CallsInv, Link
    PROVE  FunctionsInv' /\ CallsInv'
<1>1. /\ pos = "link" /\ pos' = "link" /\ pc' = pc + 1 /\ pc \in Nat /\ text \in Nat
      /\ UNCHANGED <<program, fi, text, fn_offset, fn_relocs>>
  BY DEF Link, layout, tables, Place
<1>2. PICK n : n = pc + 1
  OBVIOUS
<1>3. n \in DOMAIN fn_relocs /\ n \in Nat
  BY <1>1, <1>2, CallsSorts DEF Link
<1>4. PICK q : q = fn_relocs[n]
  OBVIOUS
<1>5. calls' = [i \in DOMAIN calls |->
                    IF calls[i].end = q.at + 4 THEN [calls[i] EXCEPT !.disp = @ + fn_offset[q.fn]] ELSE calls[i]]
  BY <1>2, <1>4 DEF Link
<1>6. \A f : Generated(f)' <=> Generated(f)
  BY <1>1 DEF Generated
<1>7. \A f \in DOMAIN program : Generated(f)
  <2>1. fi = Len(program) + 1 /\ Len(program) \in Nat /\ DOMAIN program = 1 .. Len(program)
    BY <1>1, FunctionFacts DEF FunctionsInv, Place
  <2> QED
    BY <2>1 DEF Generated
<1>8. FunctionsInv'
  BY <1>1, <1>6 DEF FunctionsInv
<1>9. /\ DOMAIN calls = 1 .. Len(calls) /\ Len(calls) \in Nat
      /\ DOMAIN fn_relocs = 1 .. Len(fn_relocs)
      /\ \A i \in DOMAIN calls :
            calls[i] \in Call /\ calls[i].end \in Nat /\ calls[i].disp \in Int /\ calls[i].to \in Nat
      /\ \A r \in DOMAIN fn_relocs : fn_relocs[r].at \in Nat
  BY CallsSorts
\* The relocations to be done after this one.
<1>10. \A r \in DOMAIN fn_relocs : ToLink(r)' <=> ToLink(r) /\ r # n
  BY <1>1, <1>2, <1>9 DEF ToLink
<1>11. ToLink(n)
  BY <1>1, <1>2 DEF ToLink
<1>12. \A r \in DOMAIN fn_relocs : fn_relocs[r].at = q.at => r = n
  <2> SUFFICES ASSUME NEW r \in DOMAIN fn_relocs, fn_relocs[r].at = q.at, r # n PROVE FALSE
    OBVIOUS
  <2>1. r < n \/ n < r
    BY <1>3, <1>9
  <2> QED
    BY <1>3, <1>4, <1>9, <2>1 DEF CallsInv
<1>13. ASSUME NEW i \in DOMAIN calls
       PROVE  /\ calls'[i] \in Call /\ calls'[i].end = calls[i].end /\ calls'[i].to = calls[i].to
              /\ CallOK(calls[i])'
              /\ calls[i].end # q.at + 4 => calls'[i] = calls[i]
              /\ calls[i].end # q.at + 4 /\ Awaits(calls[i]) => Awaits(calls[i])'
  <2>1. CallOK(calls[i]) /\ calls[i] \in Call /\ calls[i].end \in Nat /\ calls[i].disp \in Int
    BY <1>9 DEF CallsInv
  <2>2. PICK c : c = calls[i]
    OBVIOUS
  <2>3. CASE c.end = q.at + 4
    <3>1. Awaits(c)
      BY <1>3, <1>4, <1>11, <2>2, <2>3 DEF CallsInv
    <3>2. c.disp = -c.end /\ q.fn = c.to
      <4>1. PICK r \in DOMAIN fn_relocs : ToLink(r) /\ fn_relocs[r].at + 4 = c.end /\ fn_relocs[r].fn = c.to
        BY <3>1 DEF Awaits
      <4>2. fn_relocs[r].at = q.at
        BY <1>3, <1>4, <1>9, <2>3, <4>1
      <4> QED
        BY <1>4, <1>12, <3>1, <4>1, <4>2 DEF Awaits
    <3>3. c.to \in DOMAIN program /\ program[c.to].kind # "extern" /\ c.end <= text
      BY <2>1, <2>2 DEF CallOK
    <3>4. fn_offset[c.to] \in Nat
      BY <1>7, <3>3 DEF FunctionsInv
    <3>5. calls'[i] = [c EXCEPT !.disp = @ + fn_offset[c.to]]
      BY <1>5, <2>2, <2>3, <3>2
    <3>6. /\ calls'[i] \in Call /\ calls'[i].end = c.end /\ calls'[i].to = c.to
          /\ calls'[i].disp = c.disp + fn_offset[c.to]
      BY <2>1, <2>2, <3>4, <3>5 DEF Call
    <3>7. Reaches(calls[i])'
      <4>1. c.end \in Nat
        BY <2>1, <2>2
      <4>2. c.end + (c.disp + fn_offset[c.to]) = fn_offset[c.to]
        BY <3>2, <3>4, <4>1
      <4> QED
        BY <1>1, <1>6, <1>7, <3>3, <3>6, <4>2 DEF Reaches
    <3>8. CallOK(calls[i])'
      BY <1>1, <3>3, <3>6, <3>7 DEF CallOK
    <3> QED
      BY <2>2, <2>3, <3>6, <3>8
  <2>4. CASE c.end # q.at + 4
    <3>1. calls'[i] = c
      BY <1>5, <2>2, <2>4
    <3>2. Awaits(c) => Awaits(c)'
      <4> SUFFICES ASSUME Awaits(c) PROVE Awaits(c)'
        OBVIOUS
      <4>1. PICK r \in DOMAIN fn_relocs : ToLink(r) /\ fn_relocs[r].at + 4 = c.end /\ fn_relocs[r].fn = c.to
        BY DEF Awaits
      <4>2. r # n
        BY <1>4, <2>4, <4>1
      <4> QED
        BY <1>1, <1>10, <4>1, <4>2 DEF Awaits
    <3>3. (Reaches(c) => Reaches(c)') /\ (Stale(c) => Stale(c)')
      BY <1>1, <1>6 DEF Reaches, Stale
    <3>4. CallOK(c)'
      BY <1>1, <2>1, <2>2, <3>2, <3>3 DEF CallOK
    <3>5. CallOK(calls[i])' /\ (Awaits(c) => Awaits(calls[i])')
      BY <3>1, <3>2, <3>4
    <3> QED
      BY <2>1, <2>2, <2>4, <3>1, <3>5
  <2> QED
    BY <2>3, <2>4
<1>14. DOMAIN calls' = DOMAIN calls /\ calls' \in Seq(Call)
  <2>1. calls' \in [1 .. Len(calls) -> Call]
    BY <1>5, <1>9, <1>13
  <2> QED
    BY <1>5, <1>9, <2>1
<1>15. \A i, k \in DOMAIN calls' : i < k => calls'[i].end < calls'[k].end
  BY <1>13, <1>14 DEF CallsInv
<1>16. ASSUME NEW r \in DOMAIN fn_relocs, NEW i \in DOMAIN calls', ToLink(r)', calls'[i].end = fn_relocs[r].at + 4
       PROVE  Awaits(calls[i])'
  <2>1. ToLink(r) /\ r # n /\ calls[i].end = fn_relocs[r].at + 4
    BY <1>10, <1>13, <1>14, <1>16
  <2>2. Awaits(calls[i])
    BY <1>14, <2>1 DEF CallsInv
  <2>3. calls[i].end # q.at + 4
    BY SMTT(40), <1>3, <1>4, <1>9, <1>12, <2>1
  <2> QED
    BY <1>13, <1>14, <2>2, <2>3
<1>17. CallsInv'
  BY <1>1, <1>13, <1>14, <1>15, <1>16 DEF CallsInv
<1> QED
  BY <1>8, <1>17

\* With the last relocation done no call awaits one.
LEMMA FinishStep ==
    ASSUME Place, Place', FunctionsInv, CallsInv, Finish
    PROVE  FunctionsInv' /\ CallsInv'
<1>1. /\ pos = "link" /\ pc = Len(fn_relocs) /\ pos' = "done"
      /\ UNCHANGED <<program, fi, text, fn_offset, fn_relocs, calls>>
  BY DEF Finish, layout, tables, sites
<1>2. \A f : Generated(f)' <=> Generated(f)
  BY <1>1 DEF Generated
<1>3. FunctionsInv'
  BY <1>1, <1>2 DEF FunctionsInv
<1>4. ASSUME NEW i \in DOMAIN calls PROVE CallOK(calls[i])'
  <2>1. PICK c : c = calls[i]
    OBVIOUS
  <2>2. CallOK(c) /\ c = calls'[i]
    BY <1>1, <2>1 DEF CallsInv
  <2>3. ~Awaits(c)
    BY <1>1, CallsSorts DEF Awaits, ToLink
  <2>4. (Reaches(c) => Reaches(c)') /\ (Stale(c) => Stale(c)')
    BY <1>1, <1>2 DEF Reaches, Stale
  <2>5. CallOK(c)'
    BY <1>1, <2>2, <2>3, <2>4 DEF CallOK
  <2> QED
    BY <2>2, <2>5
<1>5. CallsInv'
  <2>1. \A r : ~ToLink(r)'
    BY <1>1 DEF ToLink
  <2> QED
    BY <1>1, <1>4, <2>1 DEF CallsInv
<1> QED
  BY <1>3, <1>5

\* Ops other than calls write so many bytes.
LEMMA OtherOps ==
    ASSUME Place, Code \/ BranchBack \/ BranchAhead \/ BranchCond \/ Return
    PROVE  pos = "ops" /\ (\E n \in Nat : Emitted(n)) /\ calls' = calls /\ fn_relocs' = fn_relocs
<1>1. ASSUME NEW o, At(o) PROVE Op \in Ops /\ Op.op = o /\ pos = "ops"
  BY <1>1, AtOp
<1>2. CASE Code
  <2>1. Op.n \in Nat /\ pos = "ops"
    BY <1>1, <1>2, OpFacts DEF Code
  <2> QED
    BY <1>2, <2>1 DEF Code, tables, sites
<1>3. CASE BranchBack
  BY <1>1, <1>3 DEF BranchBack, tables
<1>4. CASE BranchAhead
  BY <1>1, <1>4 DEF BranchAhead, JumpAhead
<1>5. CASE BranchCond
  <2>1. Op.n \in Nat /\ pos = "ops"
    BY <1>1, <1>5, OpFacts DEF BranchCond
  <2>2. Op.n + 6 \in Nat
    BY <2>1
  <2> QED
    BY <1>5, <2>1, <2>2 DEF BranchCond, JumpAhead
<1>6. CASE Return
  <2>1. Op.n \in Nat /\ pos = "ops"
    BY <1>1, <1>6, OpFacts DEF Return
  <2> QED
    BY <1>6, <2>1 DEF Return, tables
<1> QED
  BY <1>2, <1>3, <1>4, <1>5, <1>6

\* Every step keeps what is known of functions and calls.
LEMMA CallsStep == Inv /\ Inv' /\ FunctionsInv /\ CallsInv /\ Next => FunctionsInv' /\ CallsInv'
<1> SUFFICES ASSUME Inv, Inv', FunctionsInv, CallsInv, Next PROVE FunctionsInv' /\ CallsInv'
  OBVIOUS
<1>t. Place /\ Place'
  BY DEF Inv
<1>a. /\ text \in Nat /\ fi \in Nat /\ pc \in Nat
      /\ pos \in {"head", "patch"} => Fn.head \in Nat /\ Fn.tail \in Nat /\ fi \in DOMAIN program
      /\ \A f \in DOMAIN program : f \in Nat /\ f <= Len(program)
      /\ DOMAIN fn_relocs = 1 .. Len(fn_relocs)
  <2>1. Len(program) \in Nat /\ DOMAIN program = 1 .. Len(program)
    BY <1>t, Sorts
  <2>2. \A f \in DOMAIN program : program[f].head \in Nat /\ program[f].tail \in Nat
    BY <1>t, Sorts
  <2>3. text \in Nat /\ fi \in Nat /\ pc \in Nat /\ (pos \in {"head", "patch"} => fi \in DOMAIN program)
    BY <1>t DEF Place
  <2> QED
    BY <2>1, <2>2, <2>3, CallsSorts DEF Fn
<1>1. CASE SkipExtern
  <2>1. /\ pos = "head" /\ Fn.kind = "extern" /\ NextFunction /\ pc' = pc
        /\ UNCHANGED <<program, text, fn_offset, calls, fn_relocs>>
    BY <1>1 DEF SkipExtern, layout, tables, sites
  <2>2. /\ pos' \in {"head", "link"}
        /\ pos' = "link" => fi' = Len(program) + 1
        /\ \A f \in DOMAIN program : Generated(f)' <=> f <= fi
    BY <1>t, <1>a, <2>1, NextGenerates
  <2>3. pc = 0 /\ pc' = 0
    BY <2>1 DEF FunctionsInv
  <2>4. ASSUME NEW f \in DOMAIN program, program[f].kind # "extern"
        PROVE  Generated(f)' <=> Generated(f)
    <3>1. f # fi
      BY <2>1, <2>4 DEF Fn
    <3> QED
      BY <1>a, <2>1, <2>2, <3>1 DEF Generated
  <2>5. \A r \in DOMAIN fn_relocs : ToLink(r)' <=> ToLink(r)
    BY <1>a, <2>1, <2>2, <2>3 DEF ToLink
  <2>6. text' >= text
    BY <1>a, <2>1
  <2> QED
    BY <1>t, <2>1, <2>2, <2>3, <2>4, <2>5, <2>6, StillStep
<1>2. CASE NativeStub
  <2>1. /\ pos = "head" /\ Fn.kind = "native" /\ NextFunction /\ pc' = pc /\ text' = text + Fn.head
        /\ fn_offset' = [fn_offset EXCEPT ![fi] = text]
        /\ UNCHANGED <<program, calls, fn_relocs>>
    BY <1>2 DEF NativeStub, tables, sites
  <2>2. /\ pos' \in {"head", "link"}
        /\ pos' = "link" => fi' = Len(program) + 1
        /\ \A f \in DOMAIN program : Generated(f)' <=> f <= fi
    BY <1>t, <1>a, <2>1, NextGenerates
  <2>3. pc' = 0 /\ text' >= text
    BY <1>a, <2>1 DEF FunctionsInv
  <2> QED
    BY <1>t, <2>1, <2>2, <2>3, FunctionStarts
<1>3. CASE Prologue
  <2>1. /\ pos = "head" /\ Fn.kind = "code" /\ pos' = "ops" /\ fi' = fi /\ text' = text + Fn.head
        /\ fn_offset' = [fn_offset EXCEPT ![fi] = text]
        /\ UNCHANGED <<program, calls, fn_relocs>>
    BY <1>3 DEF Prologue, sites
  <2>2. text' >= text /\ \A f \in DOMAIN program : Generated(f)' <=> f <= fi
    BY <1>a, <2>1 DEF Generated
  <2> QED
    BY <1>t, <2>1, <2>2, FunctionStarts
<1>4. CASE Code \/ BranchBack \/ BranchAhead \/ BranchCond \/ Return
  BY <1>4, <1>t, OtherOps, OpStep
<1>5. CASE Invoke
  BY <1>5, <1>t, InvokeStep
<1>6. CASE EndBlock \/ Patch
  <2>1. /\ pos \in {"ops", "patch"} /\ pos' \in {"ops", "patch"}
        /\ UNCHANGED <<program, fi, text, fn_offset, calls, fn_relocs>>
    BY <1>6 DEF EndBlock, Patch, StartBlock, layout, tables, sites
  <2>2. text' >= text
    BY <1>a, <2>1
  <2>3. \A f : Generated(f)' <=> Generated(f)
    BY <2>1 DEF Generated
  <2>4. \A r : ToLink(r)' <=> ToLink(r)
    BY <2>1 DEF ToLink
  <2> QED
    BY <1>t, <2>1, <2>2, <2>3, <2>4, StillStep
<1>7. CASE Epilogue
  <2>1. /\ pos = "patch" /\ NextFunction /\ pc' = 0 /\ text' = text + Fn.tail
        /\ UNCHANGED <<program, fn_offset, calls, fn_relocs>>
    BY <1>7 DEF Epilogue, tables, sites
  <2>2. /\ pos' \in {"head", "link"}
        /\ pos' = "link" => fi' = Len(program) + 1
        /\ \A f \in DOMAIN program : Generated(f)' <=> f <= fi
    BY <1>t, <1>a, <2>1, NextGenerates
  <2>3. \A f \in DOMAIN program : Generated(f)' <=> Generated(f)
    BY <1>a, <2>1, <2>2 DEF Generated
  <2>4. \A r \in DOMAIN fn_relocs : ToLink(r)' <=> ToLink(r)
    BY <1>a, <2>1, <2>2 DEF ToLink
  <2>5. text' >= text
    BY <1>a, <2>1
  <2> QED
    BY <1>t, <2>1, <2>2, <2>3, <2>4, <2>5, StillStep
<1>8. CASE Link
  BY <1>8, <1>t, LinkStep
<1>9. CASE Finish
  BY <1>9, <1>t, FinishStep
<1> QED
  BY <1>1, <1>2, <1>3, <1>4, <1>5, <1>6, <1>7, <1>8, <1>9 DEF Next

LEMMA CallsStutter == Inv /\ Inv' /\ FunctionsInv /\ CallsInv /\ UNCHANGED vars => FunctionsInv' /\ CallsInv'
<1> SUFFICES ASSUME Inv, Inv', FunctionsInv, CallsInv, UNCHANGED vars PROVE FunctionsInv' /\ CallsInv'
  OBVIOUS
<1>1. UNCHANGED <<program, fi, pos, pc, text, fn_offset, calls, fn_relocs>>
  BY DEF vars, layout, tables, sites
<1>2. (\A f : Generated(f)' <=> Generated(f)) /\ (\A r : ToLink(r)' <=> ToLink(r))
  BY <1>1 DEF Generated, ToLink
<1>3. text' >= text /\ (pos' = "head" => pc' = 0) /\ (pos' \in {"link", "done"} => fi' = Len(program) + 1)
  BY <1>1 DEF Inv, Place, FunctionsInv
<1> QED
  BY <1>1, <1>2, <1>3, StillStep DEF Inv

\* For every program, at every step: each call written so far has reached its
\* function, was made with an offset from the evaluator, or waits for a relocation.
THEOREM LayoutLinks == Spec => []LinkInv
<1>1. Init => LinkInv
  BY LinkStartsRight
<1>2. LinkInv /\ [Next]_vars => LinkInv'
  <2> SUFFICES ASSUME LinkInv, [Next]_vars PROVE LinkInv'
    OBVIOUS
  <2>1. Inv /\ FunctionsInv /\ CallsInv
    BY DEF LinkInv
  <2>2. Inv'
    BY <2>1, PlaceStep, JumpsStep, InvStutters DEF Inv
  <2> QED
    BY <2>1, <2>2, CallsStep, CallsStutter DEF LinkInv
<1> QED
  BY <1>1, <1>2, PTL DEF Spec

\* At the end no call waits.
LEMMA LinkInvLands == LinkInv => CallsLand
<1> SUFFICES ASSUME LinkInv, pos = "done", NEW i \in DOMAIN calls, ~Misled(calls[i])
             PROVE  calls[i].end + calls[i].disp = fn_offset[calls[i].to]
  BY DEF CallsLand
<1>1. PICK c : c = calls[i]
  OBVIOUS
<1>2. CallOK(c) /\ ~Misled(c)
  BY <1>1 DEF LinkInv, CallsInv
<1>3. Generated(c.to)
  <2>1. fi = Len(program) + 1 /\ Len(program) \in Nat /\ DOMAIN program = 1 .. Len(program)
    BY FunctionFacts DEF LinkInv, FunctionsInv, Inv, Place
  <2> QED
    BY <1>2, <2>1 DEF Generated, CallOK
<1>4. ~Stale(c)
  BY <1>2, <1>3 DEF Stale, Misled
<1>5. Reaches(c)
  BY <1>2, <1>4 DEF CallOK, Awaits, ToLink
<1> QED
  BY <1>1, <1>5 DEF Reaches

\* For every program: in the finished text each call goes to its function, whether
\* that comes before or after, but for a call that was made with an offset from the
\* evaluator (x86_64.c:2330-2369, 2574-2580).
THEOREM CallsReach == Spec => []CallsLand
BY LayoutLinks, LinkInvLands, PTL
-----------------------------------------------------------------------------
\* Relocation r of the function at hand is still to be done.
ToDo(r) == pos = "patch" => r > pc

\* The fields of the relocations are apart, in the text, and 0 until they are done.
Orders ==
    pos \in {"ops", "patch"} =>
        /\ \A r, s \in DOMAIN relocs : r < s => fixup[relocs[r].from] < fixup[relocs[s].from]
        /\ \A r \in DOMAIN relocs : fixup[relocs[r].from] + 4 <= text
        /\ \A r \in DOMAIN relocs, i \in DOMAIN jumps :
            ToDo(r) /\ jumps[i].end = fixup[relocs[r].from] + 4 => jumps[i].disp = 0

Shorts == \A i \in DOMAIN jumps : jumps[i].short => jumps[i].disp \in -128 .. 127

\* The relocations and their fields have their types.
LEMMA RelocSorts ==
    ASSUME Place, RelocsInv, pos \in {"ops", "patch"}
    PROVE  /\ DOMAIN relocs = 1 .. Len(relocs) /\ Len(relocs) \in Nat
           /\ \A r \in DOMAIN relocs :
                relocs[r].from \in DOMAIN Blocks /\ relocs[r].to \in DOMAIN Blocks /\ fixup[relocs[r].from] \in Nat
<1> DEFINE S == [from : DOMAIN Blocks, to : DOMAIN Blocks]
<1>1. relocs \in Seq(S)
  BY DEF RelocsInv
<1>2. \A r \in S : r.from \in DOMAIN Blocks /\ r.to \in DOMAIN Blocks
  OBVIOUS
<1>3. DOMAIN relocs = 1 .. Len(relocs) /\ Len(relocs) \in Nat /\ \A r \in DOMAIN relocs : relocs[r] \in S
  <2> HIDE DEF S
  <2> QED
    BY <1>1
<1>4. \A b \in DOMAIN Blocks : fixup[b] \in Nat
  BY DEF Place
<1> QED
  BY <1>2, <1>3, <1>4

\* Of the jumps of the text.
LEMMA JumpSorts ==
    ASSUME JumpsInv
    PROVE  /\ DOMAIN jumps = 1 .. Len(jumps) /\ Len(jumps) \in Nat
           /\ \A i \in DOMAIN jumps :
                /\ jumps[i] \in Jumps /\ jumps[i].end \in Nat /\ jumps[i].disp \in Int
                /\ jumps[i].end <= text
<1>1. jumps \in Seq(Jumps)
  BY DEF JumpsInv
<1>2. DOMAIN jumps = 1 .. Len(jumps) /\ Len(jumps) \in Nat /\ \A i \in DOMAIN jumps : jumps[i] \in Jumps
  BY <1>1
<1>3. \A i \in DOMAIN jumps : jumps[i].end <= text
  BY DEF JumpsInv, JumpOK
<1> QED
  BY <1>2, <1>3, JumpFacts

\* A step that writes no jump and makes no relocation.
LEMMA OrdersStay ==
    ASSUME Place, Place', RelocsInv, Orders, pos \in {"ops", "patch"}, text' >= text,
           UNCHANGED <<fixup, relocs, jumps>>,
           \A r \in DOMAIN relocs : ToDo(r)' => ToDo(r)
    PROVE  Orders'
<1>1. text \in Nat /\ text' \in Nat
  BY DEF Place
<1>2. \A r \in DOMAIN relocs : fixup[relocs[r].from] \in Nat /\ fixup[relocs[r].from] + 4 <= text
  BY RelocSorts DEF Orders
<1>3. \A r \in DOMAIN relocs' : fixup'[relocs'[r].from] + 4 <= text'
  BY <1>1, <1>2
<1>4. \A r \in DOMAIN relocs', i \in DOMAIN jumps' :
        ToDo(r)' /\ jumps'[i].end = fixup'[relocs'[r].from] + 4 => jumps'[i].disp = 0
  BY DEF Orders
<1>5. \A r, s \in DOMAIN relocs' : r < s => fixup'[relocs'[r].from] < fixup'[relocs'[s].from]
  BY DEF Orders
<1> QED
  BY <1>3, <1>4, <1>5 DEF Orders

\* The cast to a signed char gives one.
LEMMA CastInRange ==
    ASSUME NEW d \in Int
    PROVE  SignedChar(d) \in -128 .. 127
BY SMT DEF SignedChar

\* A jump back lies behind the fields there are.
LEMMA BackOrders ==
    ASSUME Place, Place', RelocsInv, JumpsInv, Orders, Shorts, BranchBack
    PROVE  Orders' /\ Shorts'
<1>1. /\ pos = "ops" /\ pos' = "ops" /\ relocs' = relocs /\ fixup' = fixup /\ text \in Nat /\ text' \in Nat
  BY AtOp DEF BranchBack, Emitted, tables, Place
<1>2. \E j : /\ jumps' = Append(jumps, j) /\ j.end > text /\ text' > text
             /\ j.short => j.disp \in -128 .. 127
  <2>1. /\ Relative(Op.to) \in Int
    <3>1. /\ Op \in Ops /\ Op.op = "branch" /\ fi \in DOMAIN program
      BY AtOp DEF BranchBack
    <3>2. Op.to \in Nat /\ Op.to <= Len(offset[fi]) /\ offset[fi] \in Seq(Nat)
      BY <3>1, OpFacts, Sorts DEF BranchBack, HasOffset
    <3>3. Op.to \in DOMAIN Blocks /\ DOMAIN Blocks = 1 .. Len(Blocks)
      <4>1. bi \in DOMAIN Blocks /\ pc + 1 \in DOMAIN Blocks[bi]
        BY AtOp DEF BranchBack
      <4>2. BlockAssumption(Blocks, bi)
        BY <3>1, <4>1, BlockFacts DEF Place, Blocks, Fn
      <4> QED
        BY <1>1, <3>1, <4>1, <4>2, Sorts DEF BlockAssumption, Op
    <3>4. Op.to \in DOMAIN offset[fi]
      BY <3>2, <3>3
    <3>5. offset[fi][Op.to] \in Nat
      BY <3>2, <3>4
    <3> QED
      BY <1>1, <3>5 DEF Relative
  <2>2. PICK d \in Int : d = Relative(Op.to)
    BY <2>1
  <2>3. CASE d >= -128 /\ d <= 127
    <3>1. PICK j : j = Jump(text + 2, SignedChar(FromEnd(d, 2)), TRUE, "always")
      OBVIOUS
    <3>2. jumps' = Append(jumps, j) /\ text' = text + 2
      BY <2>2, <2>3, <3>1 DEF BranchBack, Emitted
    <3>3. j.end = text + 2 /\ j.disp = SignedChar(FromEnd(d, 2))
      BY <3>1 DEF Jump
    <3>4. SignedChar(FromEnd(d, 2)) \in -128 .. 127
      BY CastInRange DEF FromEnd
    <3>5. j.end > text /\ text' > text
      BY <1>1, <3>2, <3>3
    <3>6. j.disp \in -128 .. 127
      BY <3>3, <3>4
    <3> QED
      BY <3>2, <3>5, <3>6, Zenon
  <2>4. CASE ~(d >= -128 /\ d <= 127)
    <3>1. PICK j : j = Jump(text + 5, FromEnd(d, 5), FALSE, "always")
      OBVIOUS
    <3>2. jumps' = Append(jumps, j) /\ text' = text + 5
      BY <2>2, <2>4, <3>1 DEF BranchBack, Emitted
    <3>3. j.end = text + 5 /\ ~j.short
      BY <3>1 DEF Jump
    <3>4. j.end > text /\ text' > text
      BY <1>1, <3>2, <3>3
    <3> QED
      BY <3>2, <3>3, <3>4, Zenon
  <2> QED
    BY <2>3, <2>4
<1>3. PICK j : /\ jumps' = Append(jumps, j) /\ j.end > text /\ text' > text
               /\ j.short => j.disp \in -128 .. 127
  BY <1>2
<1>4. /\ DOMAIN jumps' = 1 .. Len(jumps) + 1 /\ jumps'[Len(jumps) + 1] = j
      /\ \A i \in DOMAIN jumps : jumps'[i] = jumps[i]
  BY <1>3 DEF JumpsInv
<1>5. Shorts'
  BY <1>3, <1>4, JumpSorts DEF Shorts
<1>6. \A r \in DOMAIN relocs : fixup[relocs[r].from] \in Nat /\ fixup[relocs[r].from] + 4 <= text
  BY <1>1, RelocSorts DEF Orders
<1>7. ASSUME NEW r \in DOMAIN relocs, NEW i \in DOMAIN jumps', jumps'[i].end = fixup[relocs[r].from] + 4
      PROVE  jumps'[i].disp = 0
  <2>1. i # Len(jumps) + 1
    BY <1>1, <1>3, <1>4, <1>6, <1>7
  <2>2. i \in DOMAIN jumps /\ jumps'[i] = jumps[i]
    BY <1>4, <2>1, JumpSorts
  <2>3. ToDo(r)
    BY <1>1 DEF ToDo
  <2> QED
    BY <1>1, <1>7, <2>2, <2>3 DEF Orders
<1>8. \A r \in DOMAIN relocs : fixup[relocs[r].from] + 4 <= text'
  BY <1>1, <1>3, <1>6
<1>9. Orders'
  BY <1>1, <1>7, <1>8 DEF Orders
<1> QED
  BY <1>5, <1>9

\* What the branches ahead have in common.
LEMMA AheadFacts ==
    ASSUME Place, BranchAhead \/ BranchCond
    PROVE  /\ pos = "ops" /\ pc < Len(Blocks[bi]) /\ IsBranch(Op)
           /\ \E n \in Nat, to \in DOMAIN Blocks, taken \in {"always", "true", "false"} :
                n >= 5 /\ JumpAhead(n, to, taken) /\ Target(Ahead(n, taken)) = to
<1>1. At("branch") \/ At("cond")
  BY DEF BranchAhead, BranchCond
<1>2. /\ pos = "ops" /\ pc < Len(Blocks[bi]) /\ Op \in Ops /\ fi \in DOMAIN program
      /\ bi \in DOMAIN Blocks /\ pc + 1 \in DOMAIN Blocks[bi] /\ Op.op \in {"branch", "cond"}
  BY <1>1, AtOp
<1>3. BlockAssumption(Blocks, bi)
  BY <1>2, BlockFacts DEF Place, Blocks, Fn
<1>4. IsBranch(Op)
  BY <1>2 DEF IsBranch
<1>5. CASE BranchAhead
  <2>1. Op.op = "branch" /\ JumpAhead(5, Op.to, "always")
    BY <1>5, AtOp DEF BranchAhead
  <2>2. Op.to \in DOMAIN Blocks
    BY <1>2, <1>3, <2>1 DEF BlockAssumption, Op
  <2>3. Ahead(5, "always").taken = "always" /\ Ahead(5, "always").op = Op
    BY <1>2, AheadIsJump
  <2>4. Target(Ahead(5, "always")) = Op.to
    BY <2>3 DEF Target
  <2> QED
    BY <1>2, <1>4, <2>1, <2>2, <2>4
<1>6. CASE BranchCond
  <2>1. PICK n, to, taken : /\ n = Op.n + 6 /\ to = (IF Op.then = bi + 1 THEN Op.else ELSE Op.then)
                            /\ taken = Taken(Op)
    OBVIOUS
  <2>2. Op.op = "cond" /\ JumpAhead(n, to, taken) /\ bi + 1 \in {Op.then, Op.else}
    BY <1>6, <2>1, AtOp DEF BranchCond
  <2>3. to \in DOMAIN Blocks
    BY <1>2, <1>3, <2>1, <2>2 DEF BlockAssumption, Op
  <2>4. n \in Nat /\ n >= 5 /\ taken \in {"always", "true", "false"}
    BY <1>2, <2>1, <2>2, OpFacts DEF Taken
  <2>5. Ahead(n, taken).taken = taken /\ Ahead(n, taken).op = Op
    BY <1>2, <2>4, AheadIsJump
  <2>6. Target(Ahead(n, taken)) = to
    BY <2>1, <2>5 DEF Target, Taken
  <2> QED
    BY <1>2, <1>4, <2>2, <2>3, <2>4, <2>6
<1> QED
  BY <1>5, <1>6

\* A jump ahead, with its field of 0, lies behind the others.
LEMMA AheadOrders ==
    ASSUME Place, Place', RelocsInv, JumpsInv, Orders, Shorts, BranchAhead \/ BranchCond
    PROVE  Orders' /\ Shorts'
<1>1. pos = "ops" /\ pc < Len(Blocks[bi]) /\ IsBranch(Op) /\ text \in Nat /\ text' \in Nat
  BY AheadFacts DEF Place
<1>2. PICK n \in Nat, to \in DOMAIN Blocks, taken \in {"always", "true", "false"} :
        n >= 5 /\ JumpAhead(n, to, taken) /\ Target(Ahead(n, taken)) = to
  BY AheadFacts
<1>3. PICK j : j = Ahead(n, taken)
  OBVIOUS
<1>4. j.end = text + n /\ j.disp = 0 /\ ~j.short
  BY <1>1, <1>3, AheadIsJump
<1>5. /\ jumps' = Append(jumps, j) /\ text' = text + n /\ pos' = "ops"
  BY <1>1, <1>2, <1>3 DEF JumpAhead, Ahead, Emitted
<1>6. /\ RelocsStay
      /\ DOMAIN relocs' = 1 .. Len(relocs) + 1 /\ Len(relocs) \in Nat
      /\ relocs'[Len(relocs) + 1] = [from |-> bi, to |-> to]
      /\ fixup'[bi] + 4 = text + n
  BY <1>1, <1>2, RelocAdded
<1>7. /\ DOMAIN jumps' = 1 .. Len(jumps) + 1 /\ jumps'[Len(jumps) + 1] = j
      /\ \A i \in DOMAIN jumps : jumps'[i] = jumps[i]
  BY <1>5 DEF JumpsInv
<1>8. Shorts'
  <2> SUFFICES ASSUME NEW i \in DOMAIN jumps', jumps'[i].short PROVE jumps'[i].disp \in -128 .. 127
    BY DEF Shorts
  <2>1. i \in DOMAIN jumps \/ jumps'[i] = j
    BY <1>7, JumpSorts
  <2>2. i \in DOMAIN jumps /\ jumps'[i] = jumps[i]
    BY <1>4, <1>7, <2>1
  <2> QED
    BY <2>2 DEF Shorts
<1>9. /\ DOMAIN relocs = 1 .. Len(relocs)
      /\ \A r \in DOMAIN relocs :
            /\ fixup'[relocs'[r].from] = fixup[relocs[r].from]
            /\ fixup[relocs[r].from] \in Nat /\ fixup[relocs[r].from] + 4 <= text
  BY <1>1, <1>6, RelocSorts DEF RelocsStay, Orders
<1>10. PICK m : m = Len(relocs) + 1
  OBVIOUS
<1>11. fixup'[relocs'[m].from] = text + n - 4
  <2>1. fixup'[bi] \in Nat
    <3>1. bi' = bi /\ bi \in DOMAIN Blocks' /\ pos' = "ops"
      BY <1>1, <1>2, Sorts DEF JumpAhead, Emitted, Blocks, Fn
    <3> QED
      BY <3>1 DEF Place
  <2> QED
    BY <1>1, <1>6, <1>10, <2>1
<1>12. \A r \in DOMAIN relocs' : r \in DOMAIN relocs \/ r = m
  BY <1>6, <1>9, <1>10
<1>13. \A r \in DOMAIN relocs' : fixup'[relocs'[r].from] + 4 <= text'
  <2> SUFFICES ASSUME NEW r \in DOMAIN relocs' PROVE fixup'[relocs'[r].from] + 4 <= text'
    OBVIOUS
  <2>1. text' = text + n /\ text \in Nat /\ n \in Nat
    BY <1>1, <1>5
  <2>2. CASE r \in DOMAIN relocs
    <3>1. fixup'[relocs'[r].from] \in Nat /\ fixup'[relocs'[r].from] + 4 <= text
      BY <1>9, <2>2
    <3> QED
      BY <2>1, <3>1
  <2>3. CASE r = m
    BY <1>11, <2>1, <2>3
  <2> QED
    BY <1>12, <2>2, <2>3
<1>14. \A r, s \in DOMAIN relocs' : r < s => fixup'[relocs'[r].from] < fixup'[relocs'[s].from]
  <2> SUFFICES ASSUME NEW r \in DOMAIN relocs', NEW s \in DOMAIN relocs', r < s
               PROVE  fixup'[relocs'[r].from] < fixup'[relocs'[s].from]
    OBVIOUS
  <2>1. r \in DOMAIN relocs
    BY <1>6, <1>9, <1>10, <1>12
  <2>2. CASE s \in DOMAIN relocs
    BY <1>1, <1>9, <2>1, <2>2 DEF Orders
  <2>3. CASE s = m
    BY <1>1, <1>2, <1>9, <1>11, <2>1, <2>3
  <2> QED
    BY <1>12, <2>2, <2>3
<1>15. \A r \in DOMAIN relocs', i \in DOMAIN jumps' :
         jumps'[i].end = fixup'[relocs'[r].from] + 4 => jumps'[i].disp = 0
  <2> SUFFICES ASSUME NEW r \in DOMAIN relocs', NEW i \in DOMAIN jumps',
                      jumps'[i].end = fixup'[relocs'[r].from] + 4
               PROVE  jumps'[i].disp = 0
    OBVIOUS
  <2>1. CASE i = Len(jumps) + 1
    BY <1>4, <1>7, <2>1
  <2>2. CASE i # Len(jumps) + 1
    <3>1. i \in DOMAIN jumps /\ jumps'[i] = jumps[i] /\ jumps[i].end \in Nat /\ jumps[i].end <= text
      BY <1>7, <2>2, JumpSorts
    <3>2. r # m
      BY <1>1, <1>2, <1>11, <3>1
    <3>3. r \in DOMAIN relocs /\ ToDo(r)
      BY <1>1, <1>12, <3>2 DEF ToDo
    <3> QED
      BY <1>1, <1>9, <3>1, <3>3 DEF Orders
  <2> QED
    BY <2>1, <2>2
<1>16. Orders'
  BY <1>13, <1>14, <1>15 DEF Orders
<1> QED
  BY <1>8, <1>16

\* A relocation writes the jump it was made for, which had no distance yet.
LEMMA PatchWrites ==
    ASSUME Place, RelocsInv, JumpsInv, Orders, Shorts, Patch
    PROVE  /\ Orders' /\ Shorts'
           /\ \A i \in DOMAIN jumps : jumps'[i] # jumps[i] =>
                ~jumps[i].short /\ jumps[i].disp = 0 /\ Lands(jumps'[i])
<1>1. /\ pos = "patch" /\ pc < Len(relocs) /\ pc' = pc + 1 /\ pc \in Nat
      /\ UNCHANGED <<program, fi, pos, bi, text, offset, fixup, relocs>>
  BY DEF Patch, layout, tables, Place
<1>2. PICK m : m = pc + 1
  OBVIOUS
<1>3. /\ DOMAIN relocs = 1 .. Len(relocs) /\ Len(relocs) \in Nat
      /\ \A r \in DOMAIN relocs :
            relocs[r].from \in DOMAIN Blocks /\ relocs[r].to \in DOMAIN Blocks /\ fixup[relocs[r].from] \in Nat
      /\ m \in DOMAIN relocs
  BY <1>1, <1>2, RelocSorts
<1>4. PICK at, to : at = fixup[relocs[m].from] /\ to = relocs[m].to
  OBVIOUS
<1>5. /\ at \in Nat /\ to \in DOMAIN offset[fi] /\ offset[fi][to] \in Nat
  <2>1. offset[fi] \in Seq(Nat) /\ Len(offset[fi]) = Len(Blocks) /\ DOMAIN Blocks = 1 .. Len(Blocks)
    BY <1>1, Sorts DEF Place
  <2>2. to \in DOMAIN Blocks
    BY <1>3, <1>4
  <2> QED
    BY <1>3, <1>4, <2>1, <2>2
<1>6. PICK d : d = offset[fi][to] - at - 4
  OBVIOUS
<1>7. jumps' = [i \in DOMAIN jumps |-> IF jumps[i].end = at + 4 THEN [jumps[i] EXCEPT !.disp = d] ELSE jumps[i]]
  BY <1>2, <1>4, <1>6 DEF Patch, Write, Distance
\* The jump that waits for it.
<1>8. PICK w \in DOMAIN jumps : jumps[w].end = at + 4 /\ jumps[w].fn = fi /\ ~jumps[w].short /\ Target(jumps[w]) = to
  <2>1. Waits(m)
    BY <1>1, <1>3 DEF RelocsInv
  <2> QED
    BY <1>4, <2>1 DEF Waits
<1>9. /\ DOMAIN jumps = 1 .. Len(jumps)
      /\ \A i \in DOMAIN jumps : jumps[i] \in Jumps /\ jumps[i].end \in Nat /\ jumps[i].end <= text
  BY JumpSorts
<1>10. \A i \in DOMAIN jumps : jumps[i].end = at + 4 => i = w
  <2> SUFFICES ASSUME NEW i \in DOMAIN jumps, jumps[i].end = at + 4, i # w PROVE FALSE
    OBVIOUS
  <2>1. i < w \/ w < i
    BY <1>9
  <2> QED
    BY <1>5, <1>8, <1>9, <2>1 DEF JumpsInv
<1>11. \A i \in DOMAIN jumps : i # w => jumps'[i] = jumps[i]
  BY <1>7, <1>10
<1>12. PICK j, k : j = jumps[w] /\ k = jumps'[w]
  OBVIOUS
<1>13. k = [j EXCEPT !.disp = d] /\ j \in Jumps
  BY <1>7, <1>8, <1>9, <1>12
<1>14. k.end = j.end /\ k.fn = fi /\ k.short = j.short /\ k.taken = j.taken /\ k.op = j.op /\ k.disp = d
  BY <1>8, <1>12, <1>13 DEF Jumps
<1>15. j.disp = 0 /\ ~j.short
  <2>1. ToDo(m)
    BY <1>1, <1>2 DEF ToDo
  <2> QED
    BY <1>1, <1>3, <1>4, <1>8, <1>12, <2>1 DEF Orders
<1>16. Lands(k)
  <2>1. Target(k) = to
    BY <1>8, <1>12, <1>14 DEF Target
  <2>2. Goal(k) = offset[fi][to]
    BY <1>5, <1>6, <1>8, <1>12, <1>14 DEF Goal
  <2>3. FallsThrough(j)
    BY <1>12 DEF JumpsInv, JumpOK
  <2>4. Through(k) = Through(j)
    BY <1>14 DEF Through
  <2>5. k.taken # "always" => k.end = offset[fi][Through(k)]
    BY <1>1, <1>8, <1>12, <1>14, <2>3, <2>4 DEF FallsThrough
  <2>6. k.taken \in {"always", "true", "false"}
    BY <1>13, <1>14, JumpFacts
  <2> QED
    BY <1>14, <2>1, <2>2, <2>5, <2>6 DEF Lands, Start, Target, Through
<1>18. Shorts'
  <2> SUFFICES ASSUME NEW i \in DOMAIN jumps, jumps'[i].short PROVE jumps'[i].disp \in -128 .. 127
    BY <1>7 DEF Shorts
  <2>1. i # w
    BY <1>12, <1>14, <1>15
  <2>2. jumps'[i] = jumps[i]
    BY <1>11, <2>1
  <2> QED
    BY <2>2 DEF Shorts
<1>19. Orders'
  <2>1. ASSUME NEW r \in DOMAIN relocs, NEW i \in DOMAIN jumps, ToDo(r)', jumps'[i].end = fixup[relocs[r].from] + 4
        PROVE  jumps'[i].disp = 0
    <3>1. r # m /\ ToDo(r) /\ r > m
      BY <1>1, <1>2, <1>3, <2>1 DEF ToDo
    <3>2. fixup[relocs[m].from] < fixup[relocs[r].from]
      BY <1>1, <1>3, <3>1 DEF Orders
    <3>3. i # w
      <4> SUFFICES ASSUME i = w PROVE FALSE
        OBVIOUS
      <4>1. jumps'[i].end = at + 4
        BY <1>8, <1>12, <1>14
      <4> QED
        BY <1>3, <1>4, <1>5, <2>1, <3>2, <4>1
    <3> QED
      BY <1>1, <1>11, <2>1, <3>1, <3>3 DEF Orders
  <2>2. DOMAIN jumps' = DOMAIN jumps
    BY <1>7
  <2> QED
    BY <1>1, <2>1, <2>2 DEF Orders
<1> QED
  BY <1>11, <1>12, <1>15, <1>16, <1>18, <1>19

PatchInv == LinkInv /\ Orders /\ Shorts

\* What a step may do to the jumps of the text.
Keeps == \A i \in DOMAIN jumps : jumps'[i] # jumps[i] => ~jumps[i].short /\ jumps[i].disp = 0 /\ Lands(jumps'[i])

LEMMA OrdersStep == Inv /\ Inv' /\ Orders /\ Shorts /\ Next => Orders' /\ Shorts' /\ Keeps
<1> SUFFICES ASSUME Inv, Inv', Orders, Shorts, Next PROVE Orders' /\ Shorts' /\ Keeps
  OBVIOUS
<1>t. /\ Place /\ Place' /\ RelocsInv /\ JumpsInv
      /\ text \in Nat /\ pc \in Nat /\ fi \in Nat
  BY DEF Inv, Place
<1>1. CASE SkipExtern \/ NativeStub \/ Epilogue \/ Link \/ Finish
  <2>1. pos' \notin {"ops", "patch"} /\ jumps' = jumps
    BY <1>1 DEF SkipExtern, NativeStub, Epilogue, Link, Finish, NextFunction, sites
  <2> QED
    BY <2>1 DEF Orders, Shorts, Keeps
<1>2. CASE Prologue
  <2>1. pos' = "ops" /\ relocs' = <<>> /\ jumps' = jumps
    BY <1>2 DEF Prologue, sites
  <2>2. DOMAIN relocs' = {}
    BY <2>1
  <2>3. Orders' /\ Shorts'
    BY <2>1, <2>2 DEF Orders, Shorts
  <2> QED
    BY <2>1, <2>3 DEF Keeps
<1>3. CASE Code \/ Invoke \/ Return \/ EndBlock
  <2>1. /\ pos = "ops" /\ pos' \in {"ops", "patch"} /\ UNCHANGED <<fixup, relocs, jumps>>
    BY <1>3, AtOp, <1>t DEF Code, Invoke, Return, EndBlock, Emitted, At, tables, sites
  <2>2. text' >= text
    <3>1. CASE EndBlock
      BY <1>t, <3>1 DEF EndBlock
    <3>2. CASE Code \/ Invoke \/ Return
      <4>1. Op.op \in {"code", "invoke", "return"} /\ Op \in Ops
        BY <1>t, <3>2, AtOp DEF Code, Invoke, Return
      <4>2. Op.n \in Nat
        BY <4>1, OpFacts
      <4> QED
        BY <1>t, <3>2, <4>2 DEF Code, Invoke, Return, Emitted
    <3> QED
      BY <1>3, <3>1, <3>2
  <2>3. \A r : ToDo(r)
    BY <2>1 DEF ToDo
  <2>4. Orders'
    BY <1>t, <2>1, <2>2, <2>3, OrdersStay
  <2> QED
    BY <2>1, <2>4 DEF Shorts, Keeps
<1>4. CASE BranchBack \/ BranchAhead \/ BranchCond
  <2>1. Orders' /\ Shorts'
    BY <1>4, <1>t, BackOrders, AheadOrders
  <2>2. PICK j : jumps' = Append(jumps, j)
    BY <1>4 DEF BranchBack, BranchAhead, BranchCond, JumpAhead
  <2>3. \A i \in DOMAIN jumps : jumps'[i] = jumps[i]
    BY <1>t, <2>2 DEF JumpsInv
  <2> QED
    BY <2>1, <2>3 DEF Keeps
<1>5. CASE Patch
  BY <1>5, <1>t, PatchWrites DEF Keeps
<1> QED
  BY <1>1, <1>2, <1>3, <1>4, <1>5 DEF Next

LEMMA OrdersStutter == Orders /\ Shorts /\ UNCHANGED vars => Orders' /\ Shorts' /\ Keeps
<1> SUFFICES ASSUME Orders, Shorts, UNCHANGED vars PROVE Orders' /\ Shorts' /\ Keeps
  OBVIOUS
<1>1. UNCHANGED <<pos, pc, text, fixup, relocs, jumps>>
  BY DEF vars, layout, tables, sites
<1>2. \A r : ToDo(r)' <=> ToDo(r)
  BY <1>1 DEF ToDo
<1>3. Orders'
  BY <1>1, <1>2 DEF Orders
<1> QED
  BY <1>1, <1>3 DEF Shorts, Keeps

LEMMA PatchStarts == Init => PatchInv
<1> SUFFICES ASSUME Init PROVE Orders /\ Shorts
  BY LinkStartsRight DEF PatchInv
<1>1. pos = "head" /\ jumps = <<>>
  BY DEF Init
<1>2. DOMAIN jumps = {}
  BY <1>1
<1> QED
  BY <1>1, <1>2 DEF Orders, Shorts

LEMMA PatchInvStep == PatchInv /\ [Next]_vars => PatchInv' /\ Keeps
<1> SUFFICES ASSUME PatchInv, [Next]_vars PROVE PatchInv' /\ Keeps
  OBVIOUS
<1>1. Inv /\ FunctionsInv /\ CallsInv /\ Orders /\ Shorts
  BY DEF PatchInv, LinkInv
<1>2. Inv'
  BY <1>1, PlaceStep, JumpsStep, InvStutters DEF Inv
<1>3. FunctionsInv' /\ CallsInv'
  BY <1>1, <1>2, CallsStep, CallsStutter
<1>4. Orders' /\ Shorts' /\ Keeps
  BY <1>1, <1>2, OrdersStep, OrdersStutter
<1> QED
  BY <1>2, <1>3, <1>4 DEF PatchInv, LinkInv

\* For every program: the fields of the relocations of the function at hand are apart
\* and 0 until they are written, and a rel8 is a signed char.
THEOREM LayoutPatches == Spec => []PatchInv
<1>1. Init => PatchInv
  BY PatchStarts
<1>2. PatchInv /\ [Next]_vars => PatchInv'
  BY PatchInvStep
<1> QED
  BY <1>1, <1>2, PTL DEF Spec

\* For every program: a relocation writes only the branch it was made for, once, and
\* takes it to its target; no other step changes a branch (x86_64.c:2539-2545).
THEOREM PatchesMine == Spec => PatchesOwn
<1>1. PatchInv /\ [Next]_vars => [Keeps]_vars
  BY PatchInvStep
<1>2. Spec => [][Keeps]_vars
  BY <1>1, LayoutPatches, PTL DEF Spec
<1> QED
  BY <1>2 DEF PatchesOwn, Keeps

LEMMA PatchInvTypes == PatchInv => TypeOK
<1> SUFFICES ASSUME PatchInv PROVE TypeOK
  OBVIOUS
<1>1. Place /\ RelocsInv /\ JumpsInv /\ FunctionsInv /\ CallsInv /\ Shorts
  BY DEF PatchInv, LinkInv, Inv
<1>2. /\ pos \in {"head", "ops", "patch", "link", "done"}
      /\ fi \in 1 .. Len(program) + 1 /\ bi \in Nat /\ pc \in Nat /\ text \in Nat
  <2>1. Len(program) \in Nat
    BY <1>1, Sorts
  <2> QED
    BY <1>1, <2>1 DEF Place
<1>3. \A f \in DOMAIN program : offset[f] \in Seq(Nat) /\ fn_offset[f] \in Nat \union {Invalid}
  BY <1>1 DEF Place, FunctionsInv
<1>4. pos \in {"ops", "patch"} => \A i \in DOMAIN relocs : {relocs[i].from, relocs[i].to} \subseteq DOMAIN Blocks
  BY <1>1, RelocSorts
<1>5. \A i \in DOMAIN jumps :
        /\ jumps[i].end \in Nat /\ jumps[i].disp \in Int /\ jumps[i].op \in Ops
        /\ jumps[i].short => jumps[i].disp \in -128 .. 127
  BY <1>1, JumpSorts, JumpFacts DEF Shorts
<1>6. \A i \in DOMAIN calls : calls[i].end \in Nat /\ calls[i].disp \in Int
  BY <1>1, CallsSorts
<1> QED
  BY <1>2, <1>3, <1>4, <1>5, <1>6 DEF TypeOK

\* For every program: offsets and ends of branches and calls are places in the text,
\* relocations are of blocks of the function at hand, and a rel8 is a signed char.
THEOREM LayoutTypeOK == Spec => []TypeOK
BY LayoutPatches, PatchInvTypes, PTL
=============================================================================
