---------------------------- MODULE IrBlocksProofs ----------------------------
(***************************************************************************)
(* Blocks of two owners never mix, no chain turns back, and the generator  *)
(* writes only to blocks of the function it is in (BlocksSound), whatever  *)
(* the bounds.  Links are injective and nothing links to the start of a    *)
(* chain (Linked); so the block that a free list gives away is in no other *)
(* chain, and putting it behind a block closes no ring.                    *)
(***************************************************************************)
EXTENDS IrBlocks, TLAPS

\* What a chain starts with.
Heads == ({pool.free, constant} \union {entry[f] : f \in Functions}) \ {NoBlock}

\* Nothing links to the start of a chain, and no two blocks to the same one; the
\* lists that were lost stay apart, too.
Linked ==
    \A b \in Blocks : pool.next[b] # NoBlock =>
        /\ pool.next[b] \notin Heads
        /\ owner[pool.next[b]] = owner[b]
        /\ \A a \in Blocks : pool.next[a] = pool.next[b] => a = b

\* Who the starts of the chains belong to.
Started ==
    /\ \A f \in Functions : owner[entry[f]] = f
    /\ constant # NoBlock => owner[constant] = Const
    /\ pool.free # NoBlock => owner[pool.free] = Free

\* A constant is only compiled outermost, before the typer has finished.
Compiling ==
    /\ Len(entry) <= MaxFunctions
    /\ \A i \in DOMAIN context :
        /\ context[i].fn \in Functions \union {Const}
        /\ context[i].fn = Const <=> i = 1 /\ constant # NoBlock
    /\ constant # NoBlock => context # <<>> /\ ~typed
    /\ context # <<>> /\ constant = NoBlock => typed

Inv == TypeOK /\ Compiling /\ Started /\ Linked /\ WritesItsOwn /\ NoRing
-----------------------------------------------------------------------------
(***************************************************************************)
(* What the operations do to a pool.                                       *)
(***************************************************************************)
PoolType(p) ==
    /\ p.next \in Seq(Nat) /\ p.free \in Nat
    /\ p.free \in DOMAIN p.next \union {NoBlock}

\* q is p with b, the start of the free list or a new block, put behind cur or,
\* if that is NoBlock, in no chain.
Inserted(p, q, b, cur) ==
    /\ PoolType(q)
    /\ b \in Nat /\ b # NoBlock
    /\ b = p.free \/ b = Len(p.next) + 1
    /\ DOMAIN q.next = DOMAIN p.next \union {b}
    /\ q.next[b] = IF cur = NoBlock THEN NoBlock ELSE p.next[cur]
    /\ \A c \in DOMAIN p.next \ {b} : q.next[c] = IF c = cur THEN b ELSE p.next[c]
    /\ q.free = IF b = p.free THEN p.next[b] ELSE p.free

LEMMA SeqFacts ==
    ASSUME NEW s \in Seq(Nat)
    PROVE  /\ Len(s) \in Nat /\ DOMAIN s = 1 .. Len(s)
           /\ \A i \in DOMAIN s, n \in Nat :
                /\ [s EXCEPT ![i] = n] \in Seq(Nat)
                /\ Len([s EXCEPT ![i] = n]) = Len(s)
           /\ \A n \in Nat : /\ Append(s, n) \in Seq(Nat)
                             /\ DOMAIN Append(s, n) = DOMAIN s \union {Len(s) + 1}
                             /\ Append(s, n)[Len(s) + 1] = n
                             /\ \A i \in DOMAIN s : Append(s, n)[i] = s[i]
OBVIOUS

\* Fill puts the fresh block with its link into the array `links', which has the
\* blocks of p.
LEMMA FillFacts ==
    ASSUME NEW p, PoolType(p), NEW links \in Seq(Nat), Len(links) = Len(p.next), NEW n \in Nat,
           p.free # NoBlock => links[p.free] \in DOMAIN p.next \union {NoBlock}
    PROVE  LET b == FreshBlock(p)
               q == Fill(p, links, n)
           IN /\ PoolType(q)
              /\ b \in Nat /\ b # NoBlock /\ (b = p.free \/ b = Len(p.next) + 1)
              /\ DOMAIN q.next = DOMAIN p.next \union {b}
              /\ q.next[b] = n
              /\ \A c \in DOMAIN p.next \ {b} : q.next[c] = links[c]
              /\ q.free = IF b = p.free THEN links[b] ELSE p.free
<1>1. /\ Len(links) \in Nat /\ DOMAIN links = 1 .. Len(links)
      /\ DOMAIN p.next = DOMAIN links
  BY SeqFacts DEF PoolType
<1>2. CASE p.free # NoBlock
  <2>1. p.free \in DOMAIN links
    BY <1>1, <1>2 DEF PoolType
  <2>2. Fill(p, links, n) = [next |-> [links EXCEPT ![p.free] = n], free |-> links[p.free]]
    BY <1>2 DEF Fill
  <2>3. FreshBlock(p) = p.free
    BY <1>2 DEF FreshBlock
  <2>4. [links EXCEPT ![p.free] = n] \in Seq(Nat)
    BY <2>1, SeqFacts
  <2>5. links[p.free] \in Nat
    BY <2>1
  <2> QED
    BY <1>1, <1>2, <2>1, <2>2, <2>3, <2>4, <2>5 DEF PoolType, NoBlock
<1>3. CASE p.free = NoBlock
  <2>1. Fill(p, links, n) = [next |-> Append(links, n), free |-> NoBlock]
    BY <1>3 DEF Fill
  <2>2. FreshBlock(p) = Len(links) + 1
    BY <1>3 DEF FreshBlock
  <2>3. /\ Append(links, n) \in Seq(Nat)
        /\ DOMAIN Append(links, n) = DOMAIN links \union {Len(links) + 1}
        /\ Append(links, n)[Len(links) + 1] = n
        /\ \A i \in DOMAIN links : Append(links, n)[i] = links[i]
    BY SeqFacts
  <2> QED
    BY <1>1, <1>3, <2>1, <2>2, <2>3 DEF PoolType, NoBlock
<1> QED
  BY <1>2, <1>3

LEMMA LooseInserts ==
    ASSUME NEW p, PoolType(p), p.free # NoBlock => p.next[p.free] \in DOMAIN p.next \union {NoBlock}
    PROVE  Inserted(p, ir_create_block_loose(p), FreshBlock(p), NoBlock)
<1> DEFINE q == ir_create_block_loose(p)
           b == FreshBlock(p)
<1>1. q = Fill(p, p.next, NoBlock)
  BY DEF ir_create_block_loose
<1>2. p.next \in Seq(Nat) /\ NoBlock \in Nat /\ NoBlock \notin DOMAIN p.next
  BY SeqFacts DEF PoolType, NoBlock
<1> HIDE DEF q, b
<1>3. /\ PoolType(q)
      /\ b \in Nat /\ b # NoBlock /\ (b = p.free \/ b = Len(p.next) + 1)
      /\ DOMAIN q.next = DOMAIN p.next \union {b}
      /\ q.next[b] = NoBlock
      /\ \A c \in DOMAIN p.next \ {b} : q.next[c] = p.next[c]
      /\ q.free = IF b = p.free THEN p.next[b] ELSE p.free
  BY <1>1, <1>2, FillFacts DEF b
<1>4. Inserted(p, q, b, NoBlock)
  BY <1>2, <1>3 DEF Inserted
<1> QED
  BY <1>4 DEF q, b

LEMMA AfterInserts ==
    ASSUME NEW p, PoolType(p), p.free # NoBlock => p.next[p.free] \in DOMAIN p.next \union {NoBlock},
           NEW cur \in DOMAIN p.next, cur # p.free
    PROVE  Inserted(p, ir_create_block_after(p, cur), FreshBlock(p), cur)
<1> DEFINE links == [p.next EXCEPT ![cur] = FreshBlock(p)]
<1>1. FreshBlock(p) \in Nat /\ p.next[cur] \in Nat /\ cur # NoBlock
  BY SeqFacts DEF FreshBlock, PoolType, NoBlock
<1>2. links \in Seq(Nat) /\ Len(links) = Len(p.next)
  BY <1>1, SeqFacts DEF PoolType
<1>3. \A c \in DOMAIN p.next : links[c] = IF c = cur THEN FreshBlock(p) ELSE p.next[c]
  OBVIOUS
<1>4. ir_create_block_after(p, cur) = Fill(p, links, p.next[cur])
  BY DEF ir_create_block_after
<1>5. p.free # NoBlock => p.free \in DOMAIN p.next /\ links[p.free] = p.next[p.free]
  BY <1>3 DEF PoolType
<1> HIDE DEF links
<1>6. FreshBlock(p) = p.free => p.free # NoBlock
  BY SeqFacts DEF FreshBlock, PoolType, NoBlock
<1> QED
  BY <1>1, <1>2, <1>3, <1>4, <1>5, <1>6, FillFacts DEF Inserted

\* A break makes the same of the pool as a block put behind the current one.
LEMMA DeadIsAfter ==
    ASSUME NEW p, PoolType(p), p.free # NoBlock => p.next[p.free] \in DOMAIN p.next \union {NoBlock},
           NEW cur \in DOMAIN p.next, cur # p.free
    PROVE  Inserted(p, InsertDeadBlock(p, cur), FreshBlock(p), cur)
<1> SUFFICES ASSUME NEW q, NEW b, q = ir_create_block_loose(p), b = FreshBlock(p)
             PROVE  Inserted(p, InsertDeadBlock(p, cur), b, cur)
  OBVIOUS
<1>1. Inserted(p, q, b, NoBlock)
  BY LooseInserts
<1>2. /\ PoolType(q)
      /\ b \in Nat /\ b # NoBlock /\ (b = p.free \/ b = Len(p.next) + 1)
      /\ DOMAIN q.next = DOMAIN p.next \union {b}
      /\ \A c \in DOMAIN p.next \ {b} : q.next[c] = p.next[c]
      /\ q.free = IF b = p.free THEN p.next[b] ELSE p.free
  <2>1. NoBlock \notin DOMAIN p.next
    BY SeqFacts DEF PoolType, NoBlock
  <2> QED
    BY <1>1, <2>1 DEF Inserted
<1>3. cur \in Nat /\ cur # NoBlock /\ b # cur
  BY SMTT(40), <1>2, SeqFacts DEF PoolType, NoBlock
<1>4. p.next[cur] \in Nat
  BY SeqFacts DEF PoolType
<1>5. PICK one : one = [q.next EXCEPT ![b] = q.next[cur]]
  OBVIOUS
<1>6. PICK two : two = [one EXCEPT ![cur] = b]
  OBVIOUS
<1>7. q.next \in Seq(Nat) /\ b \in DOMAIN q.next /\ cur \in DOMAIN q.next /\ q.next[cur] = p.next[cur]
  BY <1>2, <1>3 DEF PoolType
<1>8. one \in Seq(Nat) /\ DOMAIN one = DOMAIN q.next
  BY <1>4, <1>5, <1>7, SeqFacts
<1>9. two \in Seq(Nat) /\ DOMAIN two = DOMAIN q.next
  BY <1>2, <1>6, <1>7, <1>8, SeqFacts
<1>10. two[b] = p.next[cur] /\ two[cur] = b /\ \A c \in DOMAIN p.next \ {b, cur} : two[c] = p.next[c]
  <2>1. one[b] = p.next[cur] /\ \A c \in DOMAIN p.next \ {b} : one[c] = p.next[c]
    BY <1>2, <1>5, <1>7
  <2> QED
    BY <1>2, <1>3, <1>6, <1>7, <1>8, <2>1
<1>11. InsertDeadBlock(p, cur) = [next |-> two, free |-> q.free]
  BY <1>5, <1>6 DEF InsertDeadBlock
<1>12. Inserted(p, [next |-> two, free |-> q.free], b, cur)
  BY <1>2, <1>3, <1>9, <1>10 DEF Inserted, PoolType
<1> QED
  BY <1>11, <1>12

\* The block of a function is always a new one.
LEMMA EntryInserts ==
    ASSUME NEW p, PoolType(p)
    PROVE  Inserted(p, FunctionEntry(p), Len(p.next) + 1, NoBlock)
BY SeqFacts DEF Inserted, PoolType, FunctionEntry, NoBlock
-----------------------------------------------------------------------------
(***************************************************************************)
(* A block is handed out.                                                  *)
(***************************************************************************)
LEMMA PoolFacts ==
    ASSUME TypeOK
    PROVE  /\ PoolType(pool)
           /\ Blocks = 1 .. Len(pool.next) /\ Len(pool.next) \in Nat
           /\ NoBlock \notin Blocks
           /\ pool.free # NoBlock => pool.next[pool.free] \in Blocks \union {NoBlock}
           /\ \A b \in Blocks : b \in Nat /\ pool.next[b] \in Blocks \union {NoBlock}
BY SeqFacts DEF TypeOK, PoolType, Blocks, NoBlock

\* The owners are different.
LEMMA OwnerFacts ==
    ASSUME Compiling, entry \in Seq(Blocks)
    PROVE  /\ Const \notin Functions /\ Free \notin Functions /\ Lost \notin Functions
           /\ Const # Free /\ Const # Lost /\ Free # Lost
           /\ Functions = 1 .. Len(entry) /\ Len(entry) \in Nat
<1>1. Len(entry) \in Nat /\ DOMAIN entry = 1 .. Len(entry)
  OBVIOUS
<1>2. MaxFunctions \in Nat
  BY BoundsAreNaturals
<1> QED
  BY <1>1, <1>2 DEF Compiling, Functions, Const, Free, Lost

\* Block b is handed out for f, and put behind cur: what holds of the links before.
HandsOut(b, cur, f) ==
    /\ Inserted(pool, pool', b, cur)
    /\ HandOut(b, f)
    /\ f # Free
    /\ cur # NoBlock => cur \in Blocks /\ owner[cur] = f

LEMMA FreshFacts ==
    ASSUME Inv, NEW b, NEW cur, NEW f, HandsOut(b, cur, f)
    PROVE  /\ b \notin Blocks \/ (b = pool.free /\ owner[b] = Free)
           /\ b # cur /\ b # NoBlock
           /\ \A c \in Blocks : pool.next[c] # b
           /\ Blocks' = Blocks \union {b}
           /\ \A c \in Blocks : owner'[c] = IF c = b THEN f ELSE owner[c]
           /\ owner'[b] = f
           /\ pool'.next[b] = IF cur = NoBlock THEN NoBlock ELSE pool.next[cur]
           /\ \A c \in Blocks \ {b} : pool'.next[c] = IF c = cur THEN b ELSE pool.next[c]
           /\ pool'.free = IF b = pool.free THEN pool.next[b] ELSE pool.free
<1>1. /\ b # NoBlock /\ (b = pool.free \/ b = Len(pool.next) + 1)
      /\ Blocks' = Blocks \union {b}
  BY DEF HandsOut, Inserted, Blocks
<1>2. b \notin Blocks \/ (b = pool.free /\ owner[b] = Free)
  BY <1>1, PoolFacts DEF Inv, Started
<1>3. b # cur
  BY <1>1, <1>2 DEF HandsOut
<1>4. \A c \in Blocks : pool.next[c] # b
  <2>1. CASE b \notin Blocks
    BY <1>1, <2>1, PoolFacts DEF Inv
  <2>2. CASE b = pool.free
    BY <1>1, <2>2 DEF Inv, Linked, Heads
  <2> QED
    BY <1>2, <2>1, <2>2
<1>5. \A c \in Blocks \union {b} : owner'[c] = IF c = b THEN f ELSE owner[c]
  BY DEF HandsOut, HandOut
<1>6. /\ pool'.next[b] = IF cur = NoBlock THEN NoBlock ELSE pool.next[cur]
      /\ \A c \in Blocks \ {b} : pool'.next[c] = IF c = cur THEN b ELSE pool.next[c]
      /\ pool'.free = IF b = pool.free THEN pool.next[b] ELSE pool.free
  BY DEF HandsOut, Inserted, Blocks
<1> QED
  BY <1>1, <1>2, <1>3, <1>4, <1>5, <1>6

\* The starts of chains are those from before and, if it is put behind no other,
\* the new block.
HeadsGrow(b, cur, f) ==
    \/ entry' = entry /\ constant' = constant
    \/ cur = NoBlock /\ entry' = Append(entry, b) /\ f = Len(entry) + 1 /\ constant' = constant
    \/ cur = NoBlock /\ entry' = entry /\ f = Const /\ constant' = b

LEMMA HeadsFacts ==
    ASSUME Inv, NEW b, NEW cur, NEW f, HandsOut(b, cur, f), HeadsGrow(b, cur, f), NEW h \in Heads'
    PROVE  \/ h \in Heads \ {b}
           \/ b \in Blocks /\ h = pool.next[b]
           \/ cur = NoBlock /\ h = b
<1>1. /\ b \notin Blocks \/ (b = pool.free /\ owner[b] = Free)
      /\ pool'.free = IF b = pool.free THEN pool.next[b] ELSE pool.free
      /\ b # NoBlock
  BY FreshFacts
<1>2. h # NoBlock
  BY DEF Heads
<1>3. CASE h = pool'.free
  <2>1. pool.free \in Blocks \union {NoBlock}
    BY DEF Inv, TypeOK
  <2>2. CASE b = pool.free
    BY <1>1, <1>3, <2>1, <2>2
  <2>3. CASE b # pool.free
    BY <1>1, <1>2, <1>3, <2>3 DEF Heads
  <2> QED
    BY <2>2, <2>3
<1>4. CASE h = constant'
  <2>1. constant # b \/ constant = NoBlock
    BY <1>1, OwnerFacts DEF Inv, TypeOK, Started
  <2> QED
    BY <1>2, <1>4, <2>1 DEF HeadsGrow, Heads
<1>5. CASE \E g \in Functions' : h = entry'[g]
  <2>1. entry \in Seq(Blocks)
    BY DEF Inv, TypeOK
  <2>2. \A g \in Functions : entry[g] # b
    <3>1. \A g \in Functions : entry[g] \in Blocks /\ owner[entry[g]] = g
      BY <2>1 DEF Inv, Started, Functions
    <3> QED
      BY <1>1, <3>1, OwnerFacts, <2>1 DEF Inv
  <2>3. CASE entry' = entry
    BY <1>2, <1>5, <2>2, <2>3 DEF Functions, Heads
  <2>4. CASE cur = NoBlock /\ entry' = Append(entry, b)
    <3>1. DOMAIN entry' = DOMAIN entry \union {Len(entry) + 1} /\ entry'[Len(entry) + 1] = b
      BY <2>1, <2>4
    <3>2. \A g \in DOMAIN entry : entry'[g] = entry[g]
      BY <2>1, <2>4
    <3> QED
      BY <1>2, <1>5, <2>2, <2>4, <3>1, <3>2 DEF Functions, Heads
  <2> QED
    BY <2>3, <2>4 DEF HeadsGrow
<1> QED
  BY <1>3, <1>4, <1>5 DEF Heads

LEMMA LinkedKept ==
    ASSUME Inv, NEW b, NEW cur, NEW f, HandsOut(b, cur, f), HeadsGrow(b, cur, f)
    PROVE  Linked'
<1> SUFFICES ASSUME NEW c \in Blocks', pool'.next[c] # NoBlock
             PROVE  /\ pool'.next[c] \notin Heads'
                    /\ owner'[pool'.next[c]] = owner'[c]
                    /\ \A a \in Blocks' : pool'.next[a] = pool'.next[c] => a = c
  BY DEF Linked
<1>1. /\ b # cur /\ b # NoBlock
      /\ b \notin Blocks \/ (b = pool.free /\ owner[b] = Free)
      /\ \A a \in Blocks : pool.next[a] # b
      /\ Blocks' = Blocks \union {b}
      /\ \A a \in Blocks : owner'[a] = IF a = b THEN f ELSE owner[a]
      /\ owner'[b] = f
      /\ pool'.next[b] = IF cur = NoBlock THEN NoBlock ELSE pool.next[cur]
      /\ \A a \in Blocks \ {b} : pool'.next[a] = IF a = cur THEN b ELSE pool.next[a]
  BY FreshFacts
<1>2. \A h \in Heads' : \/ h \in Heads \ {b}
                        \/ b \in Blocks /\ h = pool.next[b]
                        \/ cur = NoBlock /\ h = b
  BY HeadsFacts
<1>3. cur # NoBlock => cur \in Blocks /\ owner[cur] = f
  BY DEF HandsOut
<1>4. \A a \in Blocks : pool.next[a] \in Blocks \union {NoBlock}
  BY PoolFacts DEF Inv
<1>5. \A a, d \in Blocks : pool.next[a] # NoBlock =>
        /\ pool.next[a] \notin Heads
        /\ owner[pool.next[a]] = owner[a]
        /\ pool.next[d] = pool.next[a] => a = d
  BY DEF Inv, Linked
<1>6. NoBlock \notin Blocks
  BY PoolFacts DEF Inv
<1>7. CASE c = cur
  <2>1. cur \in Blocks /\ pool'.next[c] = b
    BY <1>1, <1>3, <1>6, <1>7
  <2>2. b \notin Heads'
    BY <1>1, <1>2, <1>6, <1>7, <2>1
  <2>3. owner'[b] = owner'[c]
    BY <1>1, <1>3, <1>6, <1>7, <2>1
  <2>4. ASSUME NEW a \in Blocks', pool'.next[a] = b PROVE a = c
    BY <1>1, <1>4, <1>7, <2>1, <2>4
  <2> QED
    BY <2>1, <2>2, <2>3, <2>4
<1>8. CASE c = b
  <2>1. cur \in Blocks /\ pool'.next[c] = pool.next[cur]
    BY <1>1, <1>3, <1>8
  <2>2. pool.next[cur] \in Blocks /\ pool.next[cur] # b
    BY <1>1, <1>4, <2>1
  <2>3. pool.next[cur] \notin Heads'
    BY <1>1, <1>2, <1>5, <2>1, <2>2
  <2>4. owner'[pool.next[cur]] = owner'[b]
    BY <1>1, <1>3, <1>5, <1>6, <2>1, <2>2
  <2>5. ASSUME NEW a \in Blocks', pool'.next[a] = pool.next[cur] PROVE a = b
    BY <1>1, <1>5, <1>6, <2>1, <2>2, <2>5
  <2> QED
    BY <1>8, <2>1, <2>3, <2>4, <2>5
<1>9. CASE c # b /\ c # cur
  <2>1. c \in Blocks /\ pool'.next[c] = pool.next[c]
    BY <1>1, <1>9
  <2>2. pool.next[c] \in Blocks /\ pool.next[c] # b
    BY <1>1, <1>4, <2>1
  <2>3. pool.next[c] \notin Heads'
    BY <1>1, <1>2, <1>5, <1>6, <1>9, <2>1, <2>2
  <2>4. owner'[pool.next[c]] = owner'[c]
    BY <1>1, <1>5, <1>6, <1>9, <2>1, <2>2
  <2>5. ASSUME NEW a \in Blocks', pool'.next[a] = pool.next[c] PROVE a = c
    <3>1. CASE a = b
      <4>1. cur \in Blocks /\ pool.next[cur] = pool.next[c]
        BY <1>1, <1>3, <1>6, <2>2, <2>5, <3>1
      <4> QED
        BY <1>5, <1>6, <1>9, <2>1, <2>2, <4>1
    <3>2. CASE a # b
      BY <1>1, <1>5, <1>6, <2>1, <2>2, <2>5, <3>2
    <3> QED
      BY <3>1, <3>2
  <2> QED
    BY <2>1, <2>3, <2>4, <2>5
<1> QED
  BY <1>7, <1>8, <1>9

\* A ring of the new links without the new block is one of the old links.
LEMMA NoRingKept ==
    ASSUME Inv, NEW b, NEW cur, NEW f, HandsOut(b, cur, f)
    PROVE  NoRing'
<1> SUFFICES ASSUME NEW ring \in SUBSET Blocks', ring # {}, \A c \in ring : pool'.next[c] \in ring
             PROVE  FALSE
  BY DEF NoRing
<1>1. /\ b # cur
      /\ \A a \in Blocks : pool.next[a] # b
      /\ Blocks' = Blocks \union {b}
      /\ pool'.next[b] = IF cur = NoBlock THEN NoBlock ELSE pool.next[cur]
      /\ \A a \in Blocks \ {b} : pool'.next[a] = IF a = cur THEN b ELSE pool.next[a]
      /\ b # NoBlock
  BY FreshFacts
<1>2. cur # NoBlock => cur \in Blocks
  BY DEF HandsOut
<1>3. NoBlock \notin Blocks
  BY PoolFacts DEF Inv
<1>4. b \in ring => cur \in Blocks /\ pool.next[cur] \in ring \ {b}
  <2> HAVE b \in ring
  <2>1. pool'.next[b] \in ring
    OBVIOUS
  <2>2. pool'.next[b] # NoBlock
    BY <1>1, <1>3, <2>1
  <2> QED
    BY <1>1, <1>2, <2>1, <2>2
<1>5. ring \ {b} # {}
  BY <1>4
<1>6. ring \ {b} \subseteq Blocks
  BY <1>1
<1>7. ASSUME NEW c \in ring \ {b} PROVE pool.next[c] \in ring \ {b}
  <2>1. c \in Blocks /\ pool'.next[c] \in ring
    BY <1>6
  <2>2. CASE c = cur
    BY <1>1, <1>4, <2>1, <2>2
  <2>3. CASE c # cur
    BY <1>1, <2>1, <2>3
  <2> QED
    BY <2>2, <2>3
<1> QED
  BY <1>5, <1>6, <1>7 DEF Inv, NoRing

LEMMA StartedKept ==
    ASSUME Inv, NEW b, NEW cur, NEW f, HandsOut(b, cur, f), HeadsGrow(b, cur, f)
    PROVE  Started'
<1>1. /\ b \notin Blocks \/ (b = pool.free /\ owner[b] = Free)
      /\ \A c \in Blocks : owner'[c] = IF c = b THEN f ELSE owner[c]
      /\ owner'[b] = f
      /\ pool'.free = IF b = pool.free THEN pool.next[b] ELSE pool.free
      /\ \A a \in Blocks : pool.next[a] # b
  BY FreshFacts
<1>2. entry \in Seq(Blocks) /\ constant \in Blocks \union {NoBlock} /\ pool.free \in Blocks \union {NoBlock}
  BY DEF Inv, TypeOK
<1>3. \A g \in Functions : entry[g] \in Blocks /\ entry[g] # b /\ owner[entry[g]] = g
  BY <1>1, <1>2, OwnerFacts DEF Inv, Started, Functions
<1>4. \A g \in Functions' : owner'[entry'[g]] = g
  <2>1. CASE entry' = entry
    BY <1>1, <1>3, <2>1 DEF Functions
  <2>2. CASE entry' = Append(entry, b) /\ f = Len(entry) + 1
    <3>1. DOMAIN entry' = DOMAIN entry \union {Len(entry) + 1} /\ entry'[Len(entry) + 1] = b
      BY <1>2, <2>2
    <3>2. \A g \in DOMAIN entry : entry'[g] = entry[g]
      BY <1>2, <2>2
    <3> QED
      BY <1>1, <1>3, <2>2, <3>1, <3>2 DEF Functions
  <2> QED
    BY <2>1, <2>2 DEF HeadsGrow
<1>5. constant' # NoBlock => owner'[constant'] = Const
  <2>1. CASE constant' = constant
    BY <1>1, <1>2, <2>1, OwnerFacts DEF Inv, Started
  <2>2. CASE constant' = b /\ f = Const
    BY <1>1, <2>2
  <2> QED
    BY <2>1, <2>2 DEF HeadsGrow
<1>6. pool'.free # NoBlock => owner'[pool'.free] = Free
  <2>1. CASE b = pool.free /\ b \in Blocks
    <3>1. pool'.free \in Blocks \union {NoBlock}
      BY <1>1, <2>1, PoolFacts DEF Inv
    <3> QED
      BY <1>1, <2>1, <3>1 DEF Inv, Linked
  <2>2. CASE b # pool.free \/ b \notin Blocks
    <3>1. pool'.free = pool.free /\ b # pool.free
      BY <1>1, <1>2, <2>2, FreshFacts
    <3> QED
      BY <1>1, <1>2, <3>1 DEF Inv, Started
  <2> QED
    BY <2>1, <2>2
<1> QED
  BY <1>4, <1>5, <1>6 DEF Started

\* The frames from before write what they wrote, those of f the new block, too.
FramesGrow(b, f) ==
    /\ context' \in Seq([fn : Nat, cur : Blocks', mine : SUBSET Blocks'])
    /\ \A i \in DOMAIN context' :
        \/ /\ i \in DOMAIN context /\ context'[i].fn = context[i].fn
           /\ \A c \in context'[i].mine \union {context'[i].cur} :
                \/ c \in context[i].mine \union {context[i].cur}
                \/ context[i].fn = f /\ c = b
        \/ context'[i].fn = f /\ \A c \in context'[i].mine \union {context'[i].cur} : c = b

Frame(blocks) == [fn : Nat, cur : blocks, mine : SUBSET blocks]

LEMMA FrameFacts ==
    ASSUME NEW blocks, NEW frame \in Frame(blocks)
    PROVE  frame.fn \in Nat /\ frame.cur \in blocks /\ frame.mine \subseteq blocks
BY DEF Frame

LEMMA SeqStays ==
    ASSUME NEW S, NEW T, S \subseteq T, NEW s \in Seq(S)
    PROVE  s \in Seq(T)
OBVIOUS

LEMMA FrontFacts ==
    ASSUME NEW S, NEW s \in Seq(S), Len(s) >= 1
    PROVE  LET front == SubSeq(s, 1, Len(s) - 1)
           IN /\ front \in Seq(S) /\ DOMAIN front = 1 .. Len(s) - 1
              /\ \A i \in DOMAIN front : i \in DOMAIN s /\ front[i] = s[i]
OBVIOUS

\* What is a sequence of frames stays one when there are more blocks.
LEMMA FramesStay ==
    ASSUME NEW B, NEW C, B \subseteq C, NEW s \in Seq([fn : Nat, cur : B, mine : SUBSET B])
    PROVE  s \in Seq([fn : Nat, cur : C, mine : SUBSET C])
<1>1. Frame(B) \subseteq Frame(C)
  BY DEF Frame
<1>2. s \in Seq(Frame(B))
  BY DEF Frame
<1>3. s \in Seq(Frame(C))
  BY <1>1, <1>2, SeqStays
<1> QED
  BY <1>3 DEF Frame

LEMMA ContextFacts ==
    ASSUME TypeOK
    PROVE  /\ Len(context) \in Nat /\ DOMAIN context = 1 .. Len(context)
           /\ \A i \in DOMAIN context :
                context[i].fn \in Nat /\ context[i].cur \in Blocks /\ context[i].mine \subseteq Blocks
<1>1. context \in Seq(Frame(Blocks))
  BY DEF TypeOK, Frame
<1>2. Len(context) \in Nat /\ DOMAIN context = 1 .. Len(context)
  BY <1>1
<1>3. \A i \in DOMAIN context : context[i] \in Frame(Blocks)
  BY <1>1
<1> QED
  BY <1>2, <1>3, FrameFacts

LEMMA WritesKept ==
    ASSUME Inv, NEW b, NEW cur, NEW f, HandsOut(b, cur, f), FramesGrow(b, f)
    PROVE  WritesItsOwn'
<1> SUFFICES ASSUME NEW i \in DOMAIN context', NEW c \in context'[i].mine \union {context'[i].cur}
             PROVE  owner'[c] = context'[i].fn
  BY DEF WritesItsOwn
<1>1. /\ b \notin Blocks \/ (b = pool.free /\ owner[b] = Free)
      /\ \A a \in Blocks : owner'[a] = IF a = b THEN f ELSE owner[a]
      /\ owner'[b] = f
  BY FreshFacts
<1>2. CASE i \in DOMAIN context /\ context'[i].fn = context[i].fn /\ c \in context[i].mine \union {context[i].cur}
  <2>1. c \in Blocks /\ owner[c] = context[i].fn
    BY <1>2, ContextFacts DEF Inv, WritesItsOwn
  <2>2. owner[c] # Free
    BY <1>2, <2>1, OwnerFacts DEF Inv, Compiling, TypeOK
  <2> QED
    BY <1>1, <1>2, <2>1, <2>2
<1>3. CASE context'[i].fn = f /\ c = b
  BY <1>1, <1>3
<1> QED
  BY <1>2, <1>3 DEF FramesGrow

LEMMA TypeKept ==
    ASSUME Inv, NEW b, NEW cur, NEW f, HandsOut(b, cur, f), HeadsGrow(b, cur, f), FramesGrow(b, f),
           typed' \in BOOLEAN, f \in Functions' \union {Const}
    PROVE  TypeOK'
<1>1. /\ Blocks' = Blocks \union {b}
      /\ b # NoBlock
      /\ pool'.next[b] = IF cur = NoBlock THEN NoBlock ELSE pool.next[cur]
      /\ \A a \in Blocks \ {b} : pool'.next[a] = IF a = cur THEN b ELSE pool.next[a]
      /\ \A a \in Blocks : owner'[a] = IF a = b THEN f ELSE owner[a]
      /\ owner'[b] = f
  BY FreshFacts
<1>2. /\ entry \in Seq(Blocks) /\ constant \in Blocks \union {NoBlock}
      /\ owner \in [Blocks -> Functions \union {Const, Free, Lost}]
      /\ \A a \in Blocks : pool.next[a] \in Blocks \union {NoBlock}
  BY DEF Inv, TypeOK
<1>3. pool'.next \in Seq(Nat) /\ pool'.free \in Nat /\ pool'.free \in Blocks' \union {NoBlock}
  BY DEF HandsOut, Inserted, PoolType, Blocks
<1>4. \A a \in Blocks' : pool'.next[a] \in Blocks' \union {NoBlock}
  BY <1>1, <1>2 DEF HandsOut
<1>5. entry' \in Seq(Blocks') /\ Functions \subseteq Functions'
  <2>1. CASE entry' = entry
    BY <1>1, <1>2, <2>1 DEF Functions
  <2>2. CASE entry' = Append(entry, b)
    <3>1. entry \in Seq(Blocks')
      BY <1>1, <1>2
    <3>2. DOMAIN entry \subseteq DOMAIN entry'
      BY <1>2, <2>2
    <3> QED
      BY <1>1, <2>2, <3>1, <3>2 DEF Functions
  <2> QED
    BY <2>1, <2>2 DEF HeadsGrow
<1>6. constant' \in Blocks' \union {NoBlock}
  BY <1>1, <1>2 DEF HeadsGrow
<1>7. owner' \in [Blocks' -> Functions' \union {Const, Free, Lost}]
  <2>1. owner' = [c \in Blocks \union {b} |-> IF c = b THEN f ELSE owner[c]]
    BY DEF HandsOut, HandOut
  <2>2. Free' = Free /\ Lost' = Lost /\ Const' = Const
    BY DEF Free, Lost, Const
  <2>3. \A c \in Blocks : owner[c] \in Functions \union {Const, Free, Lost}
    BY <1>2
  <2> QED
    BY <1>1, <1>5, <2>1, <2>2, <2>3
<1> QED
  BY <1>3, <1>4, <1>5, <1>6, <1>7 DEF FramesGrow, TypeOK

\* All of it: what a step that hands out a block has to show.
LEMMA HandingOutKeeps ==
    ASSUME Inv, NEW b, NEW cur, NEW f, HandsOut(b, cur, f), HeadsGrow(b, cur, f), FramesGrow(b, f),
           typed' \in BOOLEAN, f \in Functions' \union {Const}, Compiling'
    PROVE  Inv'
BY LinkedKept, NoRingKept, StartedKept, WritesKept, TypeKept DEF Inv
-----------------------------------------------------------------------------
(***************************************************************************)
(* The steps.                                                              *)
(***************************************************************************)
LEMMA FreshInserts ==
    ASSUME Inv
    PROVE  /\ Inserted(pool, ir_create_block_loose(pool), Fresh, NoBlock)
           /\ Inserted(pool, FunctionEntry(pool), Len(pool.next) + 1, NoBlock)
           /\ context # <<>> =>
                /\ Top.cur \in Blocks /\ owner[Top.cur] = Top.fn
                /\ Inserted(pool, ir_create_block_after(pool, Top.cur), Fresh, Top.cur)
                /\ Inserted(pool, InsertDeadBlock(pool, Top.cur), Fresh, Top.cur)
<1>1. PoolType(pool) /\ (pool.free # NoBlock => pool.next[pool.free] \in DOMAIN pool.next \union {NoBlock})
  BY PoolFacts DEF Inv, Blocks
<1>2. ASSUME context # <<>>
      PROVE  Top.cur \in Blocks /\ owner[Top.cur] = Top.fn /\ Top.cur # pool.free
  <2>1. Len(context) \in DOMAIN context
    BY <1>2, ContextFacts DEF Inv, TypeOK
  <2>2. Top.cur \in Blocks /\ owner[Top.cur] = Top.fn /\ Top.fn \in Functions \union {Const}
    BY <2>1, ContextFacts DEF Inv, WritesItsOwn, Compiling, Top
  <2>3. Top.cur # NoBlock
    BY <2>2, PoolFacts DEF Inv
  <2> QED
    BY <2>2, <2>3, OwnerFacts DEF Inv, TypeOK, Started
<1> QED
  BY <1>1, <1>2, LooseInserts, EntryInserts, AfterInserts, DeadIsAfter DEF Fresh, Blocks

\* The innermost frame goes on in a block of its own or the new one.
LEMMA ContinueGrows ==
    ASSUME Inv, context # <<>>, NEW b, Blocks' = Blocks \union {b},
           NEW cur \in Top.mine \union {Top.cur, b}, Continue(cur, b)
    PROVE  /\ FramesGrow(b, Top.fn)
           /\ DOMAIN context' = DOMAIN context /\ context' # <<>>
           /\ \A i \in DOMAIN context : context'[i].fn = context[i].fn
<1> DEFINE n == Len(context)
           frame == [fn |-> Top.fn, cur |-> cur, mine |-> Top.mine \union {b}]
<1>1. /\ context \in Seq([fn : Nat, cur : Blocks, mine : SUBSET Blocks])
      /\ n \in DOMAIN context /\ Top = context[n]
  BY ContextFacts DEF Inv, TypeOK, Top
<1>2. context' = [context EXCEPT ![n] = frame]
  BY DEF Continue
<1>3. Top.fn \in Nat /\ Top.cur \in Blocks /\ Top.mine \subseteq Blocks
  BY <1>1, ContextFacts DEF Inv
<1>4. frame \in [fn : Nat, cur : Blocks', mine : SUBSET Blocks']
  BY <1>3
<1>5. context \in Seq([fn : Nat, cur : Blocks', mine : SUBSET Blocks'])
  BY <1>1, FramesStay
<1>6. frame.fn = Top.fn /\ frame.cur = cur /\ frame.mine = Top.mine \union {b}
  OBVIOUS
<1> HIDE DEF frame
<1>7. context' \in Seq([fn : Nat, cur : Blocks', mine : SUBSET Blocks'])
  BY <1>1, <1>2, <1>4, <1>5
<1>8. DOMAIN context' = DOMAIN context /\ \A i \in DOMAIN context : context'[i] = IF i = n THEN frame ELSE context[i]
  BY <1>1, <1>2
<1>9. context' # <<>>
  BY <1>1, <1>8
<1> QED
  BY <1>1, <1>6, <1>7, <1>8, <1>9 DEF FramesGrow

LEMMA CompilingKept ==
    ASSUME Inv, context # <<>>, DOMAIN context' = DOMAIN context, context' # <<>>,
           \A i \in DOMAIN context : context'[i].fn = context[i].fn,
           UNCHANGED <<entry, constant, typed>>
    PROVE  Compiling'
BY DEF Inv, Compiling, Functions, Const, NoBlock

LEMMA BeginConstantStep == Inv /\ BeginConstant => Inv'
<1> SUFFICES ASSUME Inv, BeginConstant PROVE Inv'
  OBVIOUS
<1>1. /\ ~typed /\ context = <<>>
      /\ pool' = ir_create_block_loose(pool)
      /\ constant' = Fresh
      /\ context' = <<[fn |-> Const, cur |-> Fresh, mine |-> {Fresh}]>>
      /\ HandOut(Fresh, Const)
      /\ UNCHANGED <<entry, typed>>
  BY DEF BeginConstant, ConstantEntry, ir_create_block_loose
<1>2. HandsOut(Fresh, NoBlock, Const)
  BY <1>1, FreshInserts, OwnerFacts DEF HandsOut, Inv, TypeOK
<1>3. HeadsGrow(Fresh, NoBlock, Const)
  BY <1>1 DEF HeadsGrow
<1>4. Fresh \in Blocks' /\ Fresh # NoBlock
  BY <1>2, FreshFacts
<1>5. /\ DOMAIN context' = {1} /\ context'[1].fn = Const /\ context'[1].cur = Fresh /\ context'[1].mine = {Fresh}
      /\ context' # <<>>
  BY <1>1
<1>6. context' \in Seq([fn : Nat, cur : Blocks', mine : SUBSET Blocks'])
  BY <1>1, <1>4 DEF Const
<1>7. FramesGrow(Fresh, Const)
  BY <1>5, <1>6 DEF FramesGrow
<1>8. Compiling'
  BY <1>1, <1>4, <1>5 DEF Inv, Compiling, Functions, Const, NoBlock
<1> QED
  BY <1>1, <1>2, <1>3, <1>7, <1>8, HandingOutKeeps DEF Inv, TypeOK, Const

LEMMA CompileFunctionStep == ASSUME NEW body \in BOOLEAN PROVE Inv /\ CompileFunction(body) => Inv'
<1> SUFFICES ASSUME Inv, CompileFunction(body) PROVE Inv'
  OBVIOUS
<1> DEFINE f == Len(entry) + 1
           b == Len(pool.next) + 1
           frame == [fn |-> f, cur |-> b, mine |-> {b}]
<1>1. /\ typed \/ context # <<>>
      /\ f <= MaxFunctions
      /\ pool' = FunctionEntry(pool)
      /\ entry' = Append(entry, b)
      /\ context' = IF body THEN Append(context, frame) ELSE context
      /\ HandOut(b, f)
      /\ UNCHANGED <<constant, typed>>
  BY DEF CompileFunction
<1>2. entry \in Seq(Blocks) /\ Len(entry) \in Nat /\ DOMAIN entry = 1 .. Len(entry) /\ MaxFunctions \in Nat
  BY BoundsAreNaturals DEF Inv, TypeOK
<1>3. f # Free /\ f # Const /\ f \in Nat
  BY <1>1, <1>2 DEF Free, Const
<1>4. HandsOut(b, NoBlock, f)
  BY <1>1, <1>3, FreshInserts DEF HandsOut
<1>5. HeadsGrow(b, NoBlock, f)
  BY <1>1 DEF HeadsGrow
<1>6. Functions' = Functions \union {f} /\ Len(entry') = f
  BY <1>1, <1>2 DEF Functions
<1>7. Blocks' = Blocks \union {b}
  BY <1>4, FreshFacts
<1>8. frame \in [fn : Nat, cur : Blocks', mine : SUBSET Blocks'] /\ frame.fn = f /\ frame.cur = b /\ frame.mine = {b}
  BY <1>3, <1>7
<1> HIDE DEF frame, b, f
<1>9. context \in Seq([fn : Nat, cur : Blocks', mine : SUBSET Blocks'])
  BY <1>7, FramesStay DEF Inv, TypeOK
<1>10. CASE ~body
  <2>1. context' = context
    BY <1>1, <1>10
  <2>2. FramesGrow(b, f)
    BY <1>9, <2>1 DEF FramesGrow
  <2>3. Compiling'
    BY <1>1, <1>3, <1>6, <2>1 DEF Inv, Compiling, Const, NoBlock
  <2> QED
    BY <1>1, <1>4, <1>5, <1>6, <2>2, <2>3, HandingOutKeeps DEF Inv, TypeOK
<1>11. CASE body
  <2>1. context' = Append(context, frame)
    BY <1>1, <1>11
  <2>2. /\ context' \in Seq([fn : Nat, cur : Blocks', mine : SUBSET Blocks'])
        /\ Len(context) \in Nat /\ DOMAIN context = 1 .. Len(context)
        /\ DOMAIN context' = 1 .. Len(context) + 1
        /\ context'[Len(context) + 1] = frame
        /\ \A i \in DOMAIN context : context'[i] = context[i]
        /\ context' # <<>>
    BY <1>8, <1>9, <2>1
  <2>3. FramesGrow(b, f)
    BY <1>8, <2>2 DEF FramesGrow
  <2>4. Len(context) = 0 => context = <<>>
    BY <1>9
  <2>5. Compiling'
    <3>1. \A i \in DOMAIN context' : context'[i].fn \in Functions' \union {Const'}
      BY SMTT(40), <1>6, <1>8, <2>2 DEF Inv, Compiling, Const
    <3>2. ASSUME NEW i \in DOMAIN context' PROVE context'[i].fn = Const' <=> i = 1 /\ constant' # NoBlock'
      <4>1. CASE i \in DOMAIN context
        BY <1>1, <2>2, <4>1 DEF Inv, Compiling, Const, NoBlock
      <4>2. CASE i = Len(context) + 1
        <5>1. i = 1 => constant = NoBlock
          BY <2>2, <2>4, <4>2 DEF Inv, Compiling
        <5> QED
          BY <1>1, <1>3, <1>8, <2>2, <4>2, <5>1 DEF Const, NoBlock
      <4> QED
        BY <2>2, <4>1, <4>2
    <3>3. Len(entry') <= MaxFunctions'
      BY <1>1, <1>6
    <3> QED
      BY <1>1, <2>2, <3>1, <3>2, <3>3 DEF Inv, Compiling, NoBlock
  <2> QED
    BY <1>1, <1>4, <1>5, <1>6, <2>3, <2>5, HandingOutKeeps DEF Inv, TypeOK
<1> QED
  BY <1>10, <1>11

LEMMA CreateBlockStep == Inv /\ (CreateBlock \/ Break) => Inv'
<1> SUFFICES ASSUME Inv, CreateBlock \/ Break PROVE Inv'
  OBVIOUS
<1>1. /\ context # <<>>
      /\ pool' = ir_create_block_after(pool, Top.cur) \/ pool' = InsertDeadBlock(pool, Top.cur)
      /\ Continue(Top.cur, Fresh) \/ Continue(Fresh, Fresh)
      /\ HandOut(Fresh, Top.fn)
      /\ UNCHANGED <<entry, constant, typed>>
  BY DEF CreateBlock, Break
<1>2. Top.fn \in Functions \union {Const}
  <2>1. Len(context) \in DOMAIN context
    BY <1>1, ContextFacts DEF Inv, TypeOK
  <2> QED
    BY <2>1 DEF Inv, Compiling, Top
<1>3. HandsOut(Fresh, Top.cur, Top.fn)
  BY <1>1, <1>2, FreshInserts, OwnerFacts DEF HandsOut, Inv, TypeOK
<1>4. HeadsGrow(Fresh, Top.cur, Top.fn)
  BY <1>1 DEF HeadsGrow
<1>5. Blocks' = Blocks \union {Fresh}
  BY <1>3, FreshFacts
<1>6. /\ FramesGrow(Fresh, Top.fn)
      /\ DOMAIN context' = DOMAIN context /\ context' # <<>>
      /\ \A i \in DOMAIN context : context'[i].fn = context[i].fn
  BY <1>1, <1>5, ContinueGrows
<1>7. Compiling'
  BY <1>1, <1>6, CompilingKept
<1>8. typed' \in BOOLEAN /\ Top.fn \in Functions' \union {Const}
  BY <1>1, <1>2 DEF Inv, TypeOK, Functions
<1> QED
  BY <1>3, <1>4, <1>6, <1>7, <1>8, HandingOutKeeps

LEMMA GoOnInStep == ASSUME NEW b \in Blocks PROVE Inv /\ GoOnIn(b) => Inv'
<1> SUFFICES ASSUME Inv, GoOnIn(b) PROVE Inv'
  OBVIOUS
<1>1. /\ context # <<>> /\ b \in Top.mine /\ Continue(b, b)
      /\ UNCHANGED <<pool, entry, constant, typed, owner>>
  BY DEF GoOnIn
<1>2. Blocks' = Blocks /\ Blocks' = Blocks \union {b} /\ Functions' = Functions
  BY <1>1 DEF Blocks, Functions
<1>3. /\ FramesGrow(b, Top.fn)
      /\ DOMAIN context' = DOMAIN context /\ context' # <<>>
      /\ \A i \in DOMAIN context : context'[i].fn = context[i].fn
  BY <1>1, <1>2, ContinueGrows
<1>4. TypeOK'
  BY <1>1, <1>2, <1>3 DEF Inv, TypeOK, FramesGrow, Const, Free, Lost, NoBlock
<1>5. owner[b] = Top.fn
  <2>1. Len(context) \in DOMAIN context
    BY <1>1, ContextFacts DEF Inv, TypeOK
  <2> QED
    BY <1>1, <2>1 DEF Inv, WritesItsOwn, Top
<1>6. WritesItsOwn'
  <2> SUFFICES ASSUME NEW i \in DOMAIN context', NEW c \in context'[i].mine \union {context'[i].cur}
               PROVE  owner[c] = context'[i].fn
    BY <1>1 DEF WritesItsOwn
  <2> QED
    BY <1>3, <1>5 DEF Inv, WritesItsOwn, FramesGrow
<1>7. Compiling'
  BY <1>1, <1>3, CompilingKept
<1>8. Started' /\ Linked' /\ NoRing'
  BY <1>1, <1>2 DEF Inv, Started, Linked, NoRing, Heads, Const, Free, NoBlock
<1> QED
  BY <1>4, <1>6, <1>7, <1>8 DEF Inv

LEMMA FinishFunctionStep == Inv /\ FinishFunction => Inv'
<1> SUFFICES ASSUME Inv, FinishFunction PROVE Inv'
  OBVIOUS
<1>1. /\ context # <<>> /\ Top.fn # Const
      /\ context' = SubSeq(context, 1, Len(context) - 1)
      /\ UNCHANGED <<pool, entry, constant, typed, owner>>
  BY DEF FinishFunction
<1>2. Blocks' = Blocks /\ Functions' = Functions
  BY <1>1 DEF Blocks, Functions
<1>3. /\ context \in Seq([fn : Nat, cur : Blocks, mine : SUBSET Blocks])
      /\ Len(context) \in Nat /\ Len(context) >= 1
      /\ DOMAIN context = 1 .. Len(context)
  BY <1>1 DEF Inv, TypeOK
<1>4. /\ context' \in Seq([fn : Nat, cur : Blocks, mine : SUBSET Blocks])
      /\ DOMAIN context' = 1 .. Len(context) - 1
      /\ \A i \in DOMAIN context' : i \in DOMAIN context /\ context'[i] = context[i]
  BY <1>1, <1>3, FrontFacts
<1>5. TypeOK'
  BY <1>1, <1>2, <1>4 DEF Inv, TypeOK, Const, Free, Lost, NoBlock
<1>6. WritesItsOwn'
  BY <1>1, <1>4 DEF Inv, WritesItsOwn
<1>7. Compiling'
  <2>1. constant # NoBlock => context' # <<>>
    <3> HAVE constant # NoBlock
    <3>1. Len(context) # 1
      BY <1>1, <1>3 DEF Inv, Compiling, Top
    <3>2. 1 \in DOMAIN context'
      BY <1>3, <1>4, <3>1
    <3> QED
      BY <3>2
  <2> QED
    BY <1>1, <1>2, <1>4, <2>1 DEF Inv, Compiling, Const, NoBlock
<1>8. Started' /\ Linked' /\ NoRing'
  BY <1>1, <1>2 DEF Inv, Started, Linked, NoRing, Heads, Const, Free, NoBlock
<1> QED
  BY <1>5, <1>6, <1>7, <1>8 DEF Inv

\* The blocks of the constant become the free list, and what was on it is lost.
LEMMA EndConstantStep == Inv /\ EndConstant => Inv'
<1> SUFFICES ASSUME Inv, EndConstant PROVE Inv'
  OBVIOUS
<1> DEFINE Becomes(f) == CASE f = Const -> Free [] f = Free -> Lost [] OTHER -> f
<1>1. /\ context # <<>> /\ Top.fn = Const
      /\ pool'.next = pool.next /\ pool'.free = constant
      /\ constant' = NoBlock /\ context' = <<>>
      /\ owner' = [b \in Blocks |-> Becomes(owner[b])]
      /\ UNCHANGED <<entry, typed>>
  BY DEF EndConstant, ReleaseConstant
<1>2. Blocks' = Blocks /\ Functions' = Functions /\ entry \in Seq(Blocks)
  BY <1>1 DEF Blocks, Functions, Inv, TypeOK
<1>3. \A f \in Functions \union {Const, Free, Lost} :
        /\ Becomes(f) \in Functions \union {Const, Free, Lost}
        /\ f \in Functions => Becomes(f) = f
        /\ f = Const => Becomes(f) = Free
  BY <1>2, OwnerFacts DEF Inv
<1>4. \A b \in Blocks : owner'[b] = Becomes(owner[b]) /\ owner[b] \in Functions \union {Const, Free, Lost}
  BY <1>1 DEF Inv, TypeOK
<1>5. owner' \in [Blocks -> Functions \union {Const, Free, Lost}]
  BY <1>1, <1>3, <1>4
<1>6. constant \in Blocks /\ owner[constant] = Const
  <2>1. Len(context) \in DOMAIN context
    BY <1>1, ContextFacts DEF Inv, TypeOK
  <2>2. constant # NoBlock
    BY <1>1, <2>1 DEF Inv, Compiling, Top
  <2> QED
    BY <2>2 DEF Inv, TypeOK, Started
<1> HIDE DEF Becomes
<1>7. TypeOK'
  <2>1. pool'.next \in Seq(Nat) /\ pool'.free \in Nat /\ pool'.free \in Blocks \union {NoBlock}
    BY <1>1, <1>6, PoolFacts DEF Inv, TypeOK
  <2> QED
    BY <1>1, <1>2, <1>5, <2>1 DEF Inv, TypeOK, Const, Free, Lost, NoBlock
<1>8. Compiling'
  BY <1>1, <1>2 DEF Inv, Compiling, Const, NoBlock
<1>9. Started'
  <2>1. \A f \in Functions : entry[f] \in Blocks /\ owner'[entry[f]] = f
    BY <1>2, <1>3, <1>4 DEF Inv, Started, Functions
  <2>2. owner'[pool'.free] = Free
    BY <1>1, <1>3, <1>4, <1>6
  <2> QED
    BY <1>1, <1>2, <2>1, <2>2 DEF Started, Const, Free, NoBlock
<1>10. Linked'
  <2> SUFFICES ASSUME NEW b \in Blocks, pool.next[b] # NoBlock
               PROVE  /\ pool.next[b] \notin Heads'
                      /\ owner'[pool.next[b]] = owner'[b]
                      /\ \A a \in Blocks : pool.next[a] = pool.next[b] => a = b
    BY <1>1, <1>2 DEF Linked, NoBlock
  <2>1. Heads' \subseteq Heads
    BY <1>1, <1>2 DEF Heads, NoBlock
  <2>2. pool.next[b] \in Blocks
    BY DEF Inv, TypeOK
  <2> QED
    BY <1>4, <2>1, <2>2 DEF Inv, Linked
<1>11. NoRing'
  BY <1>1, <1>2 DEF Inv, NoRing
<1>12. WritesItsOwn'
  BY <1>1 DEF WritesItsOwn
<1> QED
  BY <1>7, <1>8, <1>9, <1>10, <1>11, <1>12 DEF Inv

LEMMA IdleStep == Inv /\ (FinishTyping \/ UNCHANGED vars) => Inv'
<1> SUFFICES ASSUME Inv, FinishTyping \/ UNCHANGED vars PROVE Inv'
  OBVIOUS
<1>1. /\ UNCHANGED <<pool, entry, constant, context, owner>>
      /\ typed' = typed \/ (typed' = TRUE /\ context = <<>>)
  BY DEF FinishTyping, vars
<1>2. Blocks' = Blocks /\ Functions' = Functions /\ typed' \in BOOLEAN
  BY <1>1 DEF Blocks, Functions, Inv, TypeOK
<1>3. TypeOK'
  BY <1>1, <1>2 DEF Inv, TypeOK, Const, Free, Lost, NoBlock
<1>4. Compiling'
  BY <1>1, <1>2 DEF Inv, Compiling, Const, NoBlock
<1>5. Started' /\ Linked' /\ NoRing' /\ WritesItsOwn'
  BY <1>1, <1>2 DEF Inv, Started, Linked, NoRing, WritesItsOwn, Heads, Const, Free, NoBlock
<1> QED
  BY <1>3, <1>4, <1>5 DEF Inv

LEMMA InitInv == Init => Inv
<1> SUFFICES ASSUME Init PROVE Inv
  OBVIOUS
<1>1. /\ pool.next = <<>> /\ pool.free = NoBlock
      /\ entry = <<>> /\ constant = NoBlock /\ context = <<>> /\ typed = FALSE /\ owner = <<>>
  BY DEF Init, EmptyPool
<1>2. Blocks = {} /\ Functions = {}
  BY <1>1 DEF Blocks, Functions
<1>3. TypeOK
  <2>1. owner \in [Blocks -> Functions \union {Const, Free, Lost}]
    BY <1>1, <1>2
  <2>2. pool.next \in Seq(Nat) /\ entry \in Seq(Blocks)
    BY <1>1
  <2>3. context \in Seq([fn : Nat, cur : Blocks, mine : SUBSET Blocks])
    BY <1>1
  <2>4. pool.free \in Nat
    BY <1>1 DEF NoBlock
  <2> QED
    BY <1>1, <1>2, <2>1, <2>2, <2>3, <2>4 DEF TypeOK
<1>4. Compiling
  BY <1>1, BoundsAreNaturals DEF Compiling
<1> QED
  BY <1>1, <1>2, <1>3, <1>4 DEF Inv, Started, Linked, NoRing, WritesItsOwn

\* Everything the run checks of the ownership of blocks, at every bound: what the
\* generator and the evaluator do to the pool keeps the chains of functions, of
\* the constant and of the free list apart and straight.
THEOREM BlocksInv == Spec => []Inv
<1>1. Inv /\ [Next]_vars => Inv'
  <2> SUFFICES ASSUME Inv, [Next]_vars PROVE Inv'
    OBVIOUS
  <2> QED
    BY BeginConstantStep, CompileFunctionStep, CreateBlockStep, GoOnInStep, FinishFunctionStep, EndConstantStep,
       IdleStep DEF Next
<1> QED
  BY <1>1, InitInv, PTL DEF Spec

\* The pool, the chains' starts and the generator's context keep their types.
THEOREM BlocksTypeOK == Spec => []TypeOK
<1>1. Inv => TypeOK
  BY DEF Inv
<1> QED
  BY <1>1, BlocksInv, PTL

\* Neither the evaluator nor a backend that walks a chain meets the code of
\* another function or a block that is free.
THEOREM BlocksApart == Spec => []ChainsApart
<1>1. Inv => ChainsApart
  BY DEF Inv, Linked, Started, ChainsApart
<1> QED
  BY <1>1, BlocksInv, PTL

\* A constant that calls a function not compiled yet gets its own blocks back.
THEOREM BlocksWritten == Spec => []WritesItsOwn
<1>1. Inv => WritesItsOwn
  BY DEF Inv
<1> QED
  BY <1>1, BlocksInv, PTL

\* Every walk along `next' ends.
THEOREM BlocksNoRing == Spec => []NoRing
<1>1. Inv => NoRing
  BY DEF Inv
<1> QED
  BY <1>1, BlocksInv, PTL

\* What one step does to the owners: only a free block is handed out, and a
\* constant gives up its blocks when it is evaluated.
KeepsOwners ==
    \A b \in Blocks : \/ owner'[b] = owner[b]
                      \/ owner[b] = Free
                      \/ owner[b] = Const /\ constant' = NoBlock

LEMMA OwnersStep == Inv /\ [Next]_vars => KeepsOwners
<1> SUFFICES ASSUME Inv, [Next]_vars, NEW b \in Blocks
             PROVE  owner'[b] = owner[b] \/ owner[b] = Free \/ (owner[b] = Const /\ constant' = NoBlock)
  BY DEF KeepsOwners
<1>1. ASSUME NEW c, NEW f, HandOut(c, f), c = pool.free \/ c = Len(pool.next) + 1
      PROVE  owner'[b] = owner[b] \/ owner[b] = Free
  <2>1. owner'[b] = IF b = c THEN f ELSE owner[b]
    BY <1>1 DEF HandOut
  <2>2. b = c => b = pool.free /\ pool.free # NoBlock
    BY <1>1, PoolFacts DEF Inv
  <2> QED
    BY <2>1, <2>2 DEF Inv, Started
<1>2. Fresh = pool.free \/ Fresh = Len(pool.next) + 1
  BY DEF Fresh, FreshBlock
<1>3. CASE BeginConstant \/ CreateBlock \/ Break
  BY <1>1, <1>2, <1>3 DEF BeginConstant, CreateBlock, Break
<1>4. CASE \E body \in BOOLEAN : CompileFunction(body)
  BY <1>1, <1>4 DEF CompileFunction
<1>5. CASE EndConstant
  <2>1. owner'[b] = CASE owner[b] = Const -> Free [] owner[b] = Free -> Lost [] OTHER -> owner[b]
    BY <1>5 DEF EndConstant
  <2>2. owner[b] # Const /\ owner[b] # Free => owner'[b] = owner[b]
    BY <2>1
  <2>3. constant' = NoBlock
    BY <1>5 DEF EndConstant
  <2> QED
    BY <2>2, <2>3
<1>6. CASE UNCHANGED owner
  BY <1>6
<1> QED
  BY <1>3, <1>4, <1>5, <1>6 DEF Next, GoOnIn, FinishFunction, FinishTyping, vars

\* No block of a function is ever given away again.
THEOREM BlocksOwnersKept == Spec => OwnersKept
<1>1. Inv /\ [Next]_vars => [KeepsOwners]_vars
  BY OwnersStep
<1>2. Spec => [][KeepsOwners]_vars
  BY <1>1, BlocksInv, PTL DEF Spec
<1> QED
  BY <1>2 DEF OwnersKept, KeepsOwners
=============================================================================
