---------------------------- MODULE ArenaProofs ----------------------------
(***************************************************************************)
(* The arena never hands out a word twice, for every chunk size, every set *)
(* of requests and every number of chunks.                                 *)
(*                                                                         *)
(* BlocksDisjoint alone is not inductive.  A new block starts at `used', so*)
(* one needs that every block ends below `used' (BlocksBelowUsed); and     *)
(* oc_arena_alloc enters the next chunk of the list without looking at its *)
(* room, so one needs that there never is one (CurrentIsLast).  What a     *)
(* chunk counts too much (Overruns) is an invariant on top of these.       *)
(***************************************************************************)
EXTENDS Arena, TLAPS

CurrentIsLast == current = Len(size)

\* The blocks bs lie in the chunks sz, below what us says is handed out.
Accounted(bs, sz, us) ==
    \A b \in bs :
        /\ b.chunk \in 1 .. Len(sz)
        /\ EndOf(b) <= us[b.chunk]
        /\ EndOf(b) <= sz[b.chunk]

Separate(b1, b2) ==
    \/ b1.chunk # b2.chunk
    \/ EndOf(b1) <= b2.off
    \/ EndOf(b2) <= b1.off

Apart(bs) == \A b1, b2 \in bs : b1 = b2 \/ Separate(b1, b2)

\* A block put `pad' words behind what chunk c has handed out, and the count
\* moved past it and by `more' words again.
Placed(us, c, n, pad) == [chunk |-> c, off |-> us[c] + pad, bytes |-> n]
Bumped(us, c, n, pad, more) == [us EXCEPT ![c] = @ + Words(n) + pad + more]

\* Chunk c of (sz, us) has room for such a block ...
RoomFor(sz, us, bs, c, n, pad, more) ==
    /\ sz \in Seq(Nat) /\ us \in Seq(Nat) /\ Len(us) = Len(sz)
    /\ bs \in SUBSET Block /\ Accounted(bs, sz, us) /\ Apart(bs)
    /\ c \in 1 .. Len(sz) /\ n \in Nat \ {0} /\ pad \in Nat /\ more \in Nat
    /\ us[c] + pad + Words(n) <= sz[c]

\* ... and what holds once it is placed.
WellPlaced(sz, us, bs) ==
    /\ us \in Seq(Nat) /\ Len(us) = Len(sz)
    /\ bs \in SUBSET Block /\ Accounted(bs, sz, us) /\ Apart(bs)

BlocksBelowUsed == Accounted(blocks, size, used)

IInv ==
    /\ Typed
    /\ CurrentIsLast
    /\ BlocksBelowUsed
    /\ Apart(blocks)
-----------------------------------------------------------------------------
(* A request of one byte or more takes at least one word, and enough.       *)
LEMMA WordsEnough ==
    ASSUME NEW n \in Nat \ {0}
    PROVE  Words(n) \in Nat \ {0} /\ 8 * Words(n) >= n /\ 8 * Words(n) < n + 8
BY DEF Words

(* More bytes never take fewer words.                                       *)
LEMMA WordsMonotone ==
    ASSUME NEW m \in Nat \ {0}, NEW n \in Nat \ {0}, m <= n
    PROVE  Words(m) <= Words(n)
BY DEF Words

(* oc_align_forward never rounds down.                                      *)
LEMMA AlignForwardUp ==
    ASSUME NEW v \in Nat, NEW a \in Nat \ {0}
    PROVE  AlignForward(v, a) \in Nat /\ AlignForward(v, a) >= v
<1> DEFINE q == (v + a - 1) \div a
           r == (v + a - 1) % a
<1>1. v + a - 1 \in Nat
  OBVIOUS
<1>2. q \in Nat /\ r \in 0 .. a - 1 /\ v + a - 1 = a * q + r
  BY <1>1
<1>3. a * q = q * a /\ q * a \in Nat
  BY <1>2
<1>4. q * a >= v
  BY <1>2, <1>3
<1> QED
  BY <1>3, <1>4 DEF AlignForward

(* The chunk mapped for a request has room for it.                          *)
LEMMA NewChunkFits ==
    ASSUME NEW n \in Nat \ {0}
    PROVE  NewChunkWords(n) \in Nat /\ Words(n) <= NewChunkWords(n)
<1> DEFINE q == (n + HeaderBytes + ChunkBytes - 1) \div ChunkBytes
           k == ChunkBytes \div 8
<1>1. k \in Nat /\ ChunkBytes = 8 * k
  BY ChunkAssumption
<1>2. q \in Nat
  BY ChunkAssumption DEF HeaderBytes
<1>3. q * k \in Nat /\ q * ChunkBytes = 8 * (q * k)
  BY <1>1, <1>2
<1>4. q * ChunkBytes >= n + 24
  BY AlignForwardUp, ChunkAssumption DEF AlignForward, HeaderBytes
<1> HIDE DEF q, k
<1>5. (8 * (q * k) - 24) \div 8 = q * k - 3
  <2> DEFINE m == q * k
  <2>1. m \in Nat
    BY <1>3
  <2> HIDE DEF m
  <2>2. (8 * m - 24) \div 8 = m - 3
    BY <2>1
  <2> QED
    BY <2>2 DEF m
<1>6. 8 * (q * k) >= n + 24
  BY <1>3, <1>4
<1>7. NewChunkWords(n) = q * k - 3
  BY <1>3, <1>5 DEF NewChunkWords, AlignForward, HeaderBytes, q
<1>8. ASSUME NEW m \in Nat, 8 * m >= n + 24
      PROVE  m - 3 \in Nat /\ Words(n) <= m - 3
  BY <1>8 DEF Words
<1> QED
  BY <1>3, <1>6, <1>7, <1>8
-----------------------------------------------------------------------------
(* The extent of a block is a non-empty range of words.                    *)
LEMMA BlockExtent ==
    ASSUME NEW b \in Block
    PROVE  /\ b.chunk \in Nat \ {0} /\ b.off \in Nat /\ b.bytes \in Nat \ {0}
           /\ EndOf(b) \in Nat /\ EndOf(b) = b.off + Words(b.bytes) /\ b.off < EndOf(b)
<1>1. b.chunk \in Nat \ {0} /\ b.off \in Nat /\ b.bytes \in Nat \ {0}
  BY DEF Block
<1>2. Words(b.bytes) \in Nat \ {0}
  BY <1>1, WordsEnough
<1>3. EndOf(b) = b.off + Words(b.bytes)
  BY DEF EndOf
<1> QED
  BY <1>1, <1>2, <1>3

(* A count of a list of counts is a number.                                *)
LEMMA CountIsNat ==
    ASSUME NEW s \in Seq(Nat), NEW d \in 1 .. Len(s)
    PROVE  s[d] \in Nat
OBVIOUS

(* One block put at `used' of a chunk, with that chunk's `used' moved past   *)
(* it, is inside the chunk and apart from all others; every action but the   *)
(* in-place realloc is of this form once its chunk is there.                 *)
LEMMA PlaceBlock ==
    ASSUME NEW sz, NEW us, NEW bs, NEW c, NEW n, NEW pad, NEW more,
           RoomFor(sz, us, bs, c, n, pad, more)
    PROVE  WellPlaced(sz, Bumped(us, c, n, pad, more), bs \union {Placed(us, c, n, pad)})
<1>0. /\ sz \in Seq(Nat) /\ us \in Seq(Nat) /\ Len(us) = Len(sz)
      /\ bs \in SUBSET Block /\ Accounted(bs, sz, us) /\ Apart(bs)
      /\ c \in 1 .. Len(sz) /\ n \in Nat \ {0} /\ pad \in Nat /\ more \in Nat
      /\ us[c] + pad + Words(n) <= sz[c]
  BY DEF RoomFor
<1> USE <1>0
<1> DEFINE nb == [chunk |-> c, off |-> us[c] + pad, bytes |-> n]
           us2 == [us EXCEPT ![c] = @ + Words(n) + pad + more]
           bs2 == bs \union {nb}
<1>1. Words(n) \in Nat \ {0}
  BY WordsEnough
<1>2. \A d \in 1 .. Len(sz) : us[d] \in Nat /\ sz[d] \in Nat
  BY CountIsNat, Zenon
<1>3. /\ us2 \in Seq(Nat) /\ Len(us2) = Len(sz)
      /\ us2[c] = us[c] + Words(n) + pad + more
  <2>0. ASSUME NEW x \in Nat, NEW w \in Nat
        PROVE  x + w + pad + more \in Nat
    OBVIOUS
  <2>1. us[c] \in Nat /\ us[c] + Words(n) + pad + more \in Nat
    BY <2>0, <1>1, <1>2
  <2> DEFINE x == us[c] + Words(n) + pad + more
  <2>2. us2 = [us EXCEPT ![c] = x]
    OBVIOUS
  <2> HIDE DEF x, us2
  <2>3. us2 \in Seq(Nat) /\ Len(us2) = Len(sz) /\ us2[c] = x
    BY <2>1, <2>2 DEF x
  <2> QED
    BY <2>3 DEF x
<1>13. ASSUME NEW d \in 1 .. Len(sz), d # c
       PROVE  us2[d] = us[d]
  BY <1>13
<1>4. nb \in Block /\ nb.chunk = c /\ nb.off = us[c] + pad /\ nb.bytes = n
  BY SMTT(40), <1>2 DEF Block
<1>5. EndOf(nb) = us[c] + pad + Words(n)
  BY <1>4 DEF EndOf
<1>6. \A b \in bs2 : b \in bs \/ b = nb
  OBVIOUS
<1> HIDE DEF nb, us2, bs2
<1>7. ASSUME NEW d \in 1 .. Len(sz)
      PROVE  us[d] <= us2[d] /\ us2[d] \in Nat
  <2>1. us[d] \in Nat
    BY <1>2
  <2>2. CASE d = c
    <3>1. ASSUME NEW x \in Nat, NEW w \in Nat
          PROVE  x <= x + w + pad + more /\ x + w + pad + more \in Nat
      OBVIOUS
    <3> QED
      BY <3>1, <2>1, <2>2, <1>1, <1>3
  <2>3. CASE d # c
    BY SMTT(40), <2>1, <2>3, <1>13
  <2> QED
    BY <2>2, <2>3
<1>8. ASSUME NEW b \in bs
      PROVE  /\ b.chunk \in 1 .. Len(sz)
             /\ EndOf(b) \in Nat /\ EndOf(b) <= us[b.chunk]
             /\ EndOf(b) <= us2[b.chunk] /\ EndOf(b) <= sz[b.chunk]
  <2>1. b.chunk \in 1 .. Len(sz) /\ EndOf(b) <= us[b.chunk] /\ EndOf(b) <= sz[b.chunk]
    BY DEF Accounted
  <2>2. EndOf(b) \in Nat
    BY BlockExtent
  <2>3. us[b.chunk] \in Nat /\ us2[b.chunk] \in Nat /\ us[b.chunk] <= us2[b.chunk]
    BY <2>1, <1>2, <1>7
  <2>4. ASSUME NEW x \in Nat, NEW y \in Nat, NEW z \in Nat, x <= y, y <= z
        PROVE  x <= z
    BY <2>4
  <2> QED
    BY <2>1, <2>2, <2>3, <2>4
<1>9. Accounted(bs2, sz, us2)
  <2> SUFFICES ASSUME NEW b \in bs2
               PROVE  b.chunk \in 1 .. Len(sz) /\ EndOf(b) <= us2[b.chunk] /\ EndOf(b) <= sz[b.chunk]
    BY DEF Accounted
  <2>1. CASE b \in bs
    BY <2>1, <1>8, Zenon
  <2>2. CASE b = nb
    <3>0. us[c] \in Nat /\ sz[c] \in Nat
      BY <1>2
    <3>1. EndOf(nb) <= us2[c]
      <4>1. ASSUME NEW x \in Nat, NEW w \in Nat
            PROVE  x + pad + w <= x + w + pad + more
        OBVIOUS
      <4> QED
        BY <4>1, <3>0, <1>1, <1>3, <1>5
    <3>2. EndOf(nb) <= sz[c]
      BY <3>0, <1>1, <1>5
    <3> QED
      BY <2>2, <3>1, <3>2, <1>4
  <2> QED
    BY <2>1, <2>2, <1>6
<1>10. ASSUME NEW b \in bs
       PROVE  Separate(b, nb) /\ Separate(nb, b)
  <2>1. CASE b.chunk = c
    <3>1. EndOf(b) <= us[c] /\ EndOf(b) \in Nat /\ us[c] \in Nat
      BY <2>1, <1>8, <1>2
    <3>2. EndOf(b) <= nb.off
      BY <3>1, <1>4
    <3> QED
      BY <3>2 DEF Separate
  <2>2. CASE b.chunk # c
    BY <2>2, <1>4 DEF Separate
  <2> QED
    BY <2>1, <2>2
<1>11. Apart(bs2)
  BY <1>6, <1>10 DEF Apart
<1>12. bs2 \subseteq Block
  BY <1>4, <1>6
<1>14. nb = Placed(us, c, n, pad) /\ us2 = Bumped(us, c, n, pad, more)
  BY DEF nb, us2, Placed, Bumped
<1> QED
  BY <1>3, <1>9, <1>11, <1>12, <1>14 DEF bs2, WellPlaced

(* The chunk list is as the request needs it, and the request has room there.*)
LEMMA ChunkReady ==
    ASSUME IInv, NEW n \in Nat \ {0}
    PROVE  LET sz == SizeFor(n)
               us == UsedFor(n)
               c == ChunkFor(Words(n))
           IN /\ sz \in Seq(Nat) /\ us \in Seq(Nat) /\ Len(us) = Len(sz)
              /\ c = Len(sz) /\ c \in 1 .. Len(sz)
              /\ us[c] + Words(n) <= sz[c]
              /\ Accounted(blocks, sz, us)
<1> DEFINE w == Words(n)
<1>0. w \in Nat \ {0}
  BY WordsEnough
<1>1. CASE FitsCurrent(w)
  BY <1>0, <1>1 DEF IInv, Typed, CurrentIsLast, BlocksBelowUsed, FitsCurrent, NeedsChunk, ChunkFor, SizeFor, UsedFor
<1>2. CASE ~FitsCurrent(w)
  <2>1. NeedsChunk(w) /\ ChunkFor(w) = Len(size) + 1
    BY <1>2 DEF IInv, CurrentIsLast, NeedsChunk, ChunkFor
  <2>2. SizeFor(n) = Append(size, NewChunkWords(n)) /\ UsedFor(n) = Append(used, 0)
    BY <2>1 DEF SizeFor, UsedFor
  <2>3. NewChunkWords(n) \in Nat /\ w <= NewChunkWords(n)
    BY NewChunkFits
  <2> HIDE DEF w
  <2>4. Len(size) \in Nat /\ Len(used) = Len(size) /\ size \in Seq(Nat) /\ used \in Seq(Nat)
    BY DEF IInv, Typed
  <2>5. /\ SizeFor(n) \in Seq(Nat) /\ Len(SizeFor(n)) = Len(size) + 1
        /\ UsedFor(n) \in Seq(Nat) /\ Len(UsedFor(n)) = Len(size) + 1
        /\ SizeFor(n)[Len(size) + 1] = NewChunkWords(n)
        /\ UsedFor(n)[Len(size) + 1] = 0
        /\ \A d \in 1 .. Len(size) : SizeFor(n)[d] = size[d] /\ UsedFor(n)[d] = used[d]
    BY <2>2, <2>3, <2>4
  <2>6. Accounted(blocks, SizeFor(n), UsedFor(n))
    <3>1. Accounted(blocks, size, used)
      BY DEF IInv, BlocksBelowUsed
    <3>2. \A d \in 1 .. Len(size) : d \in 1 .. Len(SizeFor(n))
      BY <2>4, <2>5
    <3> QED
      BY <3>1, <3>2, <2>5 DEF Accounted
  <2>7. 0 + w <= NewChunkWords(n) /\ Len(size) + 1 \in 1 .. Len(size) + 1
    BY <2>3, <2>4, <1>0
  <2> QED
    BY <2>1, <2>5, <2>6, <2>7 DEF w
<1> QED
  BY <1>1, <1>2
-----------------------------------------------------------------------------
(* What oc_arena_alloc does, with or without the second bump that realloc    *)
(* adds, keeps the invariant.                                                *)
LEMMA TakeKeepsIInv ==
    ASSUME IInv, NEW n \in Nat \ {0}, NEW again \in {0, 1}, Take(n, again), UNCHANGED spinning
    PROVE  IInv'
<1> DEFINE sz == SizeFor(n)
           us == UsedFor(n)
           c == ChunkFor(Words(n))
           more == again * Words(n)
           nb == Placed(us, c, n, 0)
           us2 == Bumped(us, c, n, 0, more)
<1>1. Words(n) \in Nat \ {0}
  BY WordsEnough
<1>2. /\ sz \in Seq(Nat) /\ us \in Seq(Nat) /\ Len(us) = Len(sz)
      /\ c = Len(sz) /\ c \in 1 .. Len(sz)
      /\ us[c] + Words(n) <= sz[c]
      /\ Accounted(blocks, sz, us)
  BY ChunkReady
<1>3. us[c] \in Nat /\ more \in Nat
  BY <1>1, <1>2
<1>4. us[c] + 0 = us[c] /\ us[c] + (1 + again) * Words(n) = us[c] + Words(n) + 0 + more
  BY <1>1, <1>3
<1>5. size' = sz /\ current' = c /\ used' = us2 /\ blocks' = blocks \union {nb}
  BY <1>4 DEF Take, AllocResult, Placed, Bumped
<1>6. Apart(blocks) /\ blocks \in SUBSET Block /\ spinning \in BOOLEAN
  BY DEF IInv, Typed
<1>7. us[c] + 0 + Words(n) <= sz[c]
  BY <1>2, <1>4
<1> HIDE DEF sz, us, c, more
<1>12. 0 \in Nat /\ n \in Nat \ {0} /\ more \in Nat
  BY <1>3
<1>13. RoomFor(sz, us, blocks, c, n, 0, more)
  BY <1>2, <1>6, <1>7, <1>12 DEF RoomFor
<1>14. WellPlaced(sz, us2, blocks \union {nb})
  BY <1>13, PlaceBlock
<1> HIDE DEF nb, us2
<1>8. /\ us2 \in Seq(Nat) /\ Len(us2) = Len(sz)
      /\ blocks \union {nb} \subseteq Block
      /\ Accounted(blocks \union {nb}, sz, us2)
      /\ Apart(blocks \union {nb})
  BY <1>14 DEF WellPlaced
<1>9. c \in 0 .. Len(sz)
  BY <1>2
<1>10. Typed' /\ CurrentIsLast'
  BY <1>2, <1>5, <1>6, <1>8, <1>9 DEF Typed, CurrentIsLast
<1>11. BlocksBelowUsed' /\ Apart(blocks)'
  <2>1. Accounted(blocks', size', used') /\ Apart(blocks')
    BY <1>5, <1>8
  <2> QED
    BY <2>1 DEF BlocksBelowUsed, Accounted, Apart, Separate, EndOf
<1> QED
  BY <1>10, <1>11 DEF IInv
(* The shape shared by the copying realloc and the aligned allocation.       *)
LEMMA PlacedKeepsIInv ==
    ASSUME IInv, NEW sz, NEW us, NEW c, NEW n, NEW pad,
           RoomFor(sz, us, blocks, c, n, pad, 0), c = Len(sz),
           size' = sz, used' = Bumped(us, c, n, pad, 0), current' = c,
           blocks' = blocks \union {Placed(us, c, n, pad)}, spinning' \in BOOLEAN
    PROVE  IInv'
<1> DEFINE us2 == Bumped(us, c, n, pad, 0)
           bs2 == blocks \union {Placed(us, c, n, pad)}
<1>1. WellPlaced(sz, us2, bs2)
  BY PlaceBlock
<1>2. sz \in Seq(Nat) /\ c \in 0 .. Len(sz)
  BY DEF RoomFor
<1>3. used' = us2 /\ blocks' = bs2
  OBVIOUS
<1> HIDE DEF us2, bs2
<1>4. Typed' /\ CurrentIsLast'
  BY <1>1, <1>2, <1>3 DEF Typed, CurrentIsLast, WellPlaced
<1>5. BlocksBelowUsed' /\ Apart(blocks)'
  <2>1. Accounted(blocks', size', used') /\ Apart(blocks')
    BY <1>1, <1>3 DEF WellPlaced
  <2> QED
    BY <2>1 DEF BlocksBelowUsed, Accounted, Apart, Separate, EndOf
<1> QED
  BY <1>4, <1>5 DEF IInv

LEMMA ReallocCopyKeepsIInv ==
    ASSUME IInv, NEW b \in blocks, NEW n \in Nat, ReallocCopy(b, n)
    PROVE  IInv'
<1>1. b \in Block /\ b.bytes \in Nat \ {0} /\ b.chunk \in 1 .. Len(size)
  BY BlockExtent DEF IInv, Typed, BlocksBelowUsed, Accounted
<1>2. n \in Nat \ {0}
  BY <1>1 DEF ReallocCopy
<1>3. /\ size \in Seq(Nat) /\ used \in Seq(Nat) /\ Len(used) = Len(size)
      /\ current = Len(size) /\ current \in 1 .. Len(size)
      /\ blocks \in SUBSET Block /\ Accounted(blocks, size, used) /\ Apart(blocks)
  BY <1>1 DEF IInv, Typed, CurrentIsLast, BlocksBelowUsed
<1>4. used[current] \in Nat /\ Words(n) \in Nat
  <2>1. used[current] \in Nat
    BY <1>3
  <2>2. Words(n) \in Nat
    BY <1>2, WordsEnough
  <2> QED
    BY <2>1, <2>2
<1>5. used[current] + 0 = used[current] /\ used[current] + Words(n) = used[current] + Words(n) + 0 + 0
  BY <1>4
<1>6. RoomFor(size, used, blocks, current, n, 0, 0)
  BY <1>2, <1>3, <1>5 DEF RoomFor, ReallocCopy
<1>7. used' = Bumped(used, current, n, 0, 0) /\ blocks' = blocks \union {Placed(used, current, n, 0)}
  BY <1>5 DEF ReallocCopy, Bumped, Placed
<1>8. size' = size /\ current' = current /\ spinning' \in BOOLEAN
  BY DEF ReallocCopy, IInv, Typed
<1> QED
  BY <1>3, <1>6, <1>7, <1>8, PlacedKeepsIInv

LEMMA ReallocInPlaceKeepsIInv ==
    ASSUME IInv, NEW b \in blocks, NEW n \in Nat, ReallocInPlace(b, n)
    PROVE  IInv'
<1> DEFINE nb == [b EXCEPT !.bytes = n]
           us2 == [used EXCEPT ![current] = @ + (Words(n) - Words(b.bytes))]
<1>1. /\ size \in Seq(Nat) /\ used \in Seq(Nat) /\ Len(used) = Len(size)
      /\ current = Len(size) /\ blocks \subseteq Block
      /\ Accounted(blocks, size, used) /\ Apart(blocks)
  BY DEF IInv, Typed, CurrentIsLast, BlocksBelowUsed
<1>2. b.chunk = current /\ current \in 1 .. Len(size)
  BY <1>1 DEF Accounted, ReallocInPlace, IsTail
<1>3. /\ b \in Block /\ b.off \in Nat /\ b.bytes \in Nat \ {0}
      /\ EndOf(b) \in Nat /\ EndOf(b) = b.off + Words(b.bytes)
  BY <1>1, BlockExtent
<1>4. n \in Nat \ {0} /\ b.bytes <= n
  BY <1>3 DEF ReallocInPlace
<1>5. Words(b.bytes) \in Nat \ {0} /\ Words(n) \in Nat \ {0} /\ Words(b.bytes) <= Words(n)
  BY <1>3, <1>4, WordsEnough, WordsMonotone
<1>6. used[current] \in Nat /\ size[current] \in Nat
  BY <1>1, <1>2
<1>7. used[current] = EndOf(b)
  <2>1. 8 * b.off + b.bytes = 8 * used[current]
    BY DEF ReallocInPlace, IsTail
  <2>2. 8 * Words(b.bytes) >= b.bytes /\ 8 * Words(b.bytes) < b.bytes + 8
    BY <1>3, WordsEnough
  <2> QED
    BY <2>1, <2>2, <1>3, <1>5, <1>6
<1>8. nb \in Block /\ nb.chunk = current /\ nb.off = b.off /\ nb.bytes = n
  BY <1>2, <1>3, <1>4 DEF Block
<1>9. EndOf(nb) = b.off + Words(n)
  BY <1>8 DEF EndOf
<1>10. /\ us2 \in Seq(Nat) /\ Len(us2) = Len(size) /\ us2[current] = EndOf(nb)
       /\ \A d \in 1 .. Len(size) : d # current => us2[d] = used[d]
  <2> DEFINE x == used[current] + (Words(n) - Words(b.bytes))
  <2>1. x \in Nat /\ x = EndOf(nb)
    BY <1>3, <1>5, <1>6, <1>7, <1>9
  <2>2. us2 = [used EXCEPT ![current] = x]
    OBVIOUS
  <2> HIDE DEF x, us2, nb
  <2>3. us2 \in Seq(Nat) /\ Len(us2) = Len(size) /\ us2[current] = x
    BY <1>1, <1>2, <2>1, <2>2
  <2>4. ASSUME NEW d \in 1 .. Len(size), d # current
        PROVE  us2[d] = used[d]
    BY <1>1, <2>2, <2>4
  <2> QED
    BY <2>1, <2>3, <2>4
<1>11. EndOf(nb) <= size[current] /\ EndOf(b) <= EndOf(nb) /\ EndOf(nb) \in Nat
  <2>1. used[current] + (Words(n) - Words(b.bytes)) <= size[current]
    BY DEF ReallocInPlace
  <2> QED
    BY <2>1, <1>3, <1>5, <1>6, <1>7, <1>9
<1>12. size' = size /\ current' = current /\ used' = us2 /\ blocks' = (blocks \ {b}) \union {nb}
  BY DEF ReallocInPlace
<1>13. spinning' \in BOOLEAN
  BY DEF ReallocInPlace, IInv, Typed
<1> HIDE DEF nb, us2
<1>14. \A d \in blocks' : d = nb \/ (d \in blocks /\ d # b)
  BY <1>12
<1>15. Accounted(blocks', size', used')
  <2> SUFFICES ASSUME NEW d \in blocks'
               PROVE  d.chunk \in 1 .. Len(size) /\ EndOf(d) <= us2[d.chunk] /\ EndOf(d) <= size[d.chunk]
    BY <1>12 DEF Accounted
  <2>1. CASE d = nb
    BY <2>1, <1>2, <1>8, <1>10, <1>11
  <2>2. CASE d \in blocks /\ d # b
    <3>1. d.chunk \in 1 .. Len(size) /\ EndOf(d) <= used[d.chunk] /\ EndOf(d) <= size[d.chunk]
      BY <2>2, <1>1 DEF Accounted
    <3>2. CASE d.chunk # current
      BY <3>1, <3>2, <1>10
    <3>3. CASE d.chunk = current
      <4>1. EndOf(d) \in Nat
        BY <2>2, <1>1, BlockExtent
      <4>2. EndOf(d) <= EndOf(nb)
        BY <4>1, <3>1, <3>3, <1>3, <1>7, <1>11
      <4> QED
        BY <4>2, <3>1, <3>3, <1>10
    <3> QED
      BY <3>2, <3>3
  <2> QED
    BY <2>1, <2>2, <1>14
<1>16. ASSUME NEW d \in blocks, d # b
       PROVE  Separate(d, nb) /\ Separate(nb, d)
  <2>1. CASE d.chunk # current
    BY <2>1, <1>8 DEF Separate
  <2>2. CASE d.chunk = current
    <3>1. EndOf(d) \in Nat /\ d.off \in Nat /\ d.off < EndOf(d)
      BY <1>1, BlockExtent
    <3>2. EndOf(d) <= EndOf(b)
      BY <2>2, <1>1, <1>7 DEF Accounted
    <3>3. EndOf(d) <= b.off \/ EndOf(b) <= d.off
      BY <1>16, <2>2, <1>1, <1>2 DEF Apart, Separate
    <3>4. EndOf(d) <= b.off
      BY <3>1, <3>2, <3>3, <1>3
    <3> QED
      BY <3>4, <1>8 DEF Separate
  <2> QED
    BY <2>1, <2>2
<1>17. Apart(blocks')
  BY <1>1, <1>14, <1>16 DEF Apart
<1>18. blocks' \subseteq Block
  BY <1>1, <1>8, <1>14
<1>19. Typed' /\ CurrentIsLast'
  BY <1>1, <1>2, <1>10, <1>12, <1>13, <1>18 DEF Typed, CurrentIsLast
<1>20. BlocksBelowUsed' /\ Apart(blocks)'
  BY <1>15, <1>17 DEF BlocksBelowUsed, Accounted, Apart, Separate, EndOf
<1> QED
  BY <1>19, <1>20 DEF IInv
(* The arena oc_arena_alloc_aligned works on once it has a first chunk.      *)
LEMMA AlignedReady ==
    ASSUME IInv, NEW n \in Nat \ {0}, NEW a \in Nat \ {0}
    PROVE  LET sz == AlignedSize(n, a)
               us == AlignedUsed
               c == AlignedCurrent
           IN /\ sz \in Seq(Nat) /\ us \in Seq(Nat) /\ Len(us) = Len(sz)
              /\ c = Len(sz) /\ c \in 1 .. Len(sz)
              /\ Accounted(blocks, sz, us)
              /\ us[c] \in Nat /\ Pad(us[c], a) \in Nat
<1> DEFINE sz == AlignedSize(n, a)
           us == AlignedUsed
           c == AlignedCurrent
<1>1. /\ size \in Seq(Nat) /\ used \in Seq(Nat) /\ Len(used) = Len(size)
      /\ current = Len(size) /\ Accounted(blocks, size, used)
  BY DEF IInv, Typed, CurrentIsLast, BlocksBelowUsed
<1>2. /\ sz \in Seq(Nat) /\ us \in Seq(Nat) /\ Len(us) = Len(sz)
      /\ c = Len(sz) /\ c \in 1 .. Len(sz)
      /\ Accounted(blocks, sz, us)
  <2>1. CASE current = 0
    <3> DEFINE m == FirstChunkBytes(n, a)
    <3>1. m \in Nat \ {0}
      BY DEF FirstChunkBytes
    <3>2. NewChunkWords(m) \in Nat
      BY <3>1, NewChunkFits
    <3>3. sz = Append(size, NewChunkWords(m)) /\ us = Append(used, 0) /\ c = 1
      BY <2>1 DEF AlignedSize, AlignedUsed, AlignedCurrent
    <3>4. Len(size) = 0
      BY <1>1, <2>1
    <3>5. blocks = {}
      BY <1>1, <3>4 DEF Accounted
    <3> HIDE DEF m, sz, us, c
    <3>6. sz \in Seq(Nat) /\ us \in Seq(Nat) /\ Len(sz) = 1 /\ Len(us) = 1
      BY <1>1, <3>2, <3>3, <3>4
    <3> QED
      BY <3>3, <3>5, <3>6 DEF Accounted
  <2>2. CASE current # 0
    BY <1>1, <2>2 DEF AlignedSize, AlignedUsed, AlignedCurrent
  <2> QED
    BY <2>1, <2>2
<1> HIDE DEF sz, us, c
<1>3. us[c] \in Nat
  BY <1>2
<1>4. ASSUME NEW u \in Nat
      PROVE  Pad(u, a) \in Nat
  <2>1. Address(u) \in Nat
    BY DEF Address, HeaderBytes
  <2>2. AlignForward(Address(u), a) \in Nat /\ AlignForward(Address(u), a) >= Address(u)
    BY <2>1, AlignForwardUp
  <2> QED
    BY <2>1, <2>2 DEF Pad
<1> QED
  BY <1>2, <1>3, <1>4 DEF sz, us, c

LEMMA AlignedKeepsIInv ==
    ASSUME IInv, NEW n \in Nat, NEW align \in Nat \ {0}, oc_arena_alloc_aligned(n, align)
    PROVE  IInv'
<1> DEFINE a == AtLeastWord(align)
           sz == AlignedSize(n, a)
           us == AlignedUsed
           c == AlignedCurrent
           pad == Pad(us[c], a)
<1>1. n \in Nat \ {0} /\ a \in Nat \ {0}
  BY DEF oc_arena_alloc_aligned, AtLeastWord
<1>2. /\ sz \in Seq(Nat) /\ us \in Seq(Nat) /\ Len(us) = Len(sz)
      /\ c = Len(sz) /\ c \in 1 .. Len(sz)
      /\ Accounted(blocks, sz, us)
      /\ us[c] \in Nat /\ pad \in Nat
  BY <1>1, AlignedReady
<1>3. Words(n) \in Nat \ {0}
  BY <1>1, WordsEnough
<1>4. us[c] + Words(n) + pad <= sz[c]
  BY DEF oc_arena_alloc_aligned, AlignedFits
<1>5. size' = sz /\ current' = c /\ spinning' = spinning
  BY DEF oc_arena_alloc_aligned
<1>6. /\ used' = [us EXCEPT ![c] = @ + Words(n) + pad]
      /\ blocks' = blocks \union {[chunk |-> c, off |-> us[c] + pad, bytes |-> n]}
  BY DEF oc_arena_alloc_aligned
<1> HIDE DEF a, sz, us, c, pad
<1>7. /\ us[c] + Words(n) + pad = us[c] + Words(n) + pad + 0
      /\ us[c] + pad + Words(n) <= sz[c]
  <2>1. ASSUME NEW x \in Nat, NEW y \in Nat, NEW z \in Nat
        PROVE  x + y + z = x + y + z + 0 /\ x + z + y = x + y + z
    OBVIOUS
  <2> QED
    BY <2>1, <1>2, <1>3, <1>4
<1>8. used' = Bumped(us, c, n, pad, 0) /\ blocks' = blocks \union {Placed(us, c, n, pad)}
  BY <1>6, <1>7 DEF Bumped, Placed
<1>9. blocks \in SUBSET Block /\ Apart(blocks) /\ spinning' \in BOOLEAN
  BY <1>5 DEF IInv, Typed
<1>10. RoomFor(sz, us, blocks, c, n, pad, 0)
  <2>1. 0 \in Nat
    OBVIOUS
  <2> QED
    BY <2>1, <1>1, <1>2, <1>7, <1>9 DEF RoomFor
<1> QED
  BY <1>2, <1>5, <1>8, <1>9, <1>10, PlacedKeepsIInv

LEMMA SpinKeepsIInv ==
    ASSUME IInv, NEW n \in Nat, NEW align \in Nat \ {0}, AllocAlignedSpins(n, align)
    PROVE  IInv'
<1> DEFINE a == AtLeastWord(align)
           sz == AlignedSize(n, a)
           us == AlignedUsed
           c == AlignedCurrent
<1>1. n \in Nat \ {0} /\ a \in Nat \ {0}
  BY DEF AllocAlignedSpins, AtLeastWord
<1>2. /\ sz \in Seq(Nat) /\ us \in Seq(Nat) /\ Len(us) = Len(sz)
      /\ c = Len(sz) /\ c \in 1 .. Len(sz)
      /\ Accounted(blocks, sz, us)
  BY <1>1, AlignedReady
<1>3. size' = sz /\ used' = us /\ current' = c /\ spinning' \in BOOLEAN /\ blocks' = blocks
  BY DEF AllocAlignedSpins
<1>4. blocks \subseteq Block /\ Apart(blocks)
  BY DEF IInv, Typed
<1> HIDE DEF a, sz, us, c
<1>5. c \in 0 .. Len(sz)
  BY <1>2
<1>6. Typed' /\ CurrentIsLast'
  BY <1>2, <1>3, <1>4, <1>5 DEF Typed, CurrentIsLast
<1>7. Accounted(blocks', size', used') /\ Apart(blocks')
  BY <1>2, <1>3, <1>4
<1>8. BlocksBelowUsed' /\ Apart(blocks)'
  BY <1>7 DEF BlocksBelowUsed, Accounted, Apart, Separate, EndOf
<1> QED
  BY <1>6, <1>8 DEF IInv

LEMMA AllocKeepsIInv ==
    ASSUME IInv, NEW n \in Nat, oc_arena_alloc(n)
    PROVE  IInv'
<1>1. n \in Nat \ {0} /\ Take(n, 0) /\ UNCHANGED spinning
  BY DEF oc_arena_alloc
<1> QED
  BY <1>1, TakeKeepsIInv

LEMMA ReallocMoveKeepsIInv ==
    ASSUME IInv, NEW b \in blocks, NEW n \in Nat, ReallocMove(b, n)
    PROVE  IInv'
<1>1. b.bytes \in Nat \ {0} /\ n > b.bytes
  BY BlockExtent DEF IInv, Typed, ReallocMove
<1>2. n \in Nat \ {0}
  BY <1>1
<1>3. Take(n, 1) /\ UNCHANGED spinning
  BY DEF ReallocMove
<1> QED
  BY <1>2, <1>3, TakeKeepsIInv
-----------------------------------------------------------------------------
LEMMA InitIInv == Init => IInv
<1> SUFFICES ASSUME Init PROVE IInv
  OBVIOUS
<1>1. size = <<>> /\ used = <<>> /\ current = 0 /\ blocks = {} /\ spinning = FALSE
  BY DEF Init
<1>2. Typed /\ CurrentIsLast
  <2>1. size \in Seq(Nat) /\ used \in Seq(Nat) /\ Len(size) = 0 /\ Len(used) = 0
    BY <1>1
  <2>2. 0 \in 0 .. 0 /\ {} \subseteq Block /\ FALSE \in BOOLEAN
    OBVIOUS
  <2> QED
    BY <1>1, <2>1, <2>2 DEF Typed, CurrentIsLast
<1>3. BlocksBelowUsed /\ Apart(blocks)
  BY <1>1 DEF BlocksBelowUsed, Accounted, Apart
<1> QED
  BY <1>2, <1>3 DEF IInv

LEMMA NextKeepsIInv == IInv /\ [Next]_vars => IInv'
<1> SUFFICES ASSUME IInv, [Next]_vars PROVE IInv'
  OBVIOUS
<1>1. ASSUME NEW n \in Requests, oc_arena_alloc(n)
      PROVE  IInv'
  BY <1>1, RequestAssumption, AllocKeepsIInv
<1>2. ASSUME NEW b \in blocks, NEW n \in Requests, oc_arena_realloc(b, n)
      PROVE  IInv'
  <2>1. n \in Nat
    BY RequestAssumption
  <2>2. CASE ReallocInPlace(b, n)
    BY <2>1, <2>2, ReallocInPlaceKeepsIInv
  <2>3. CASE ReallocCopy(b, n)
    BY <2>1, <2>3, ReallocCopyKeepsIInv
  <2>4. CASE ReallocMove(b, n)
    BY <2>1, <2>4, ReallocMoveKeepsIInv
  <2> QED
    BY <1>2, <2>2, <2>3, <2>4 DEF oc_arena_realloc
<1>3. ASSUME NEW n \in Requests, NEW a \in Alignments, oc_arena_alloc_aligned(n, a)
      PROVE  IInv'
  <2>1. n \in Nat /\ a \in Nat \ {0}
    BY RequestAssumption, AlignmentAssumption
  <2> QED
    BY <1>3, <2>1, AlignedKeepsIInv
<1>4. ASSUME NEW n \in Requests, NEW a \in Alignments, AllocAlignedSpins(n, a)
      PROVE  IInv'
  <2>1. n \in Nat /\ a \in Nat \ {0}
    BY RequestAssumption, AlignmentAssumption
  <2> QED
    BY <1>4, <2>1, SpinKeepsIInv
<1>5. CASE UNCHANGED vars
  BY <1>5 DEF vars, IInv, Typed, CurrentIsLast, BlocksBelowUsed, Accounted, Apart, Separate, EndOf
<1> QED
  BY <1>1, <1>2, <1>3, <1>4, <1>5 DEF Next

LEMMA IInvHolds == Spec => []IInv
BY InitIInv, NextKeepsIInv, PTL DEF Spec
-----------------------------------------------------------------------------
(* What a chunk counts beyond its words is the last block it got, again.     *)
Overruns(sz, us, bs) == \A c \in DOMAIN us : us[c] > sz[c] => CountedTwice(us, bs, c)

(* A new chunk counts nothing yet.                                           *)
LEMMA NewChunkOverruns ==
    ASSUME NEW sz \in Seq(Nat), NEW us \in Seq(Nat), Len(us) = Len(sz), NEW m \in Nat,
           NEW bs, Overruns(sz, us, bs)
    PROVE  Overruns(Append(sz, m), Append(us, 0), bs)
<1> DEFINE sz2 == Append(sz, m)
           us2 == Append(us, 0)
<1>1. DOMAIN us = 1 .. Len(us) /\ DOMAIN us2 = 1 .. Len(us) + 1 /\ Len(us) \in Nat
  OBVIOUS
<1>2. us2[Len(us) + 1] = 0 /\ sz2[Len(us) + 1] = m
  OBVIOUS
<1>3. \A c \in 1 .. Len(us) : us2[c] = us[c] /\ sz2[c] = sz[c]
  OBVIOUS
<1> HIDE DEF sz2, us2
<1>4. ASSUME NEW c \in DOMAIN us2, us2[c] > sz2[c]
      PROVE  CountedTwice(us2, bs, c)
  <2>1. CASE c = Len(us) + 1
    BY <1>2, <1>4, <2>1
  <2>2. CASE c # Len(us) + 1
    <3>1. c \in 1 .. Len(us)
      BY <1>1, <1>4, <2>2
    <3>2. us2[c] = us[c] /\ us[c] > sz[c] /\ c \in DOMAIN us
      BY <1>1, <1>3, <1>4, <3>1
    <3> QED
      BY <3>2 DEF Overruns, CountedTwice
  <2> QED
    BY <2>1, <2>2
<1> QED
  BY <1>4 DEF Overruns, sz2, us2

(* A block that fits is counted once, or a second time.                      *)
LEMMA PlacedOverruns ==
    ASSUME NEW sz, NEW us, NEW bs, NEW c, NEW n, NEW pad, NEW more \in {0, Words(n)},
           RoomFor(sz, us, bs, c, n, pad, more), Overruns(sz, us, bs)
    PROVE  Overruns(sz, Bumped(us, c, n, pad, more), bs \union {Placed(us, c, n, pad)})
<1> DEFINE us2 == Bumped(us, c, n, pad, more)
           nb == Placed(us, c, n, pad)
<1>1. /\ sz \in Seq(Nat) /\ us \in Seq(Nat) /\ Len(us) = Len(sz)
      /\ c \in 1 .. Len(sz) /\ n \in Nat \ {0} /\ pad \in Nat
      /\ us[c] + pad + Words(n) <= sz[c]
  BY DEF RoomFor
<1>2. us[c] \in Nat /\ sz[c] \in Nat /\ Words(n) \in Nat \ {0}
  <2>1. us[c] \in Nat /\ sz[c] \in Nat
    BY <1>1
  <2>2. Words(n) \in Nat \ {0}
    BY <1>1, WordsEnough
  <2> QED
    BY <2>1, <2>2
<1>3. c \in DOMAIN us /\ DOMAIN us2 = DOMAIN us
  BY <1>1 DEF Bumped
<1>4. us2[c] = us[c] + Words(n) + pad + more /\ \A d \in DOMAIN us : d # c => us2[d] = us[d]
  BY <1>3 DEF Bumped
<1>5. nb.chunk = c /\ nb.bytes = n /\ EndOf(nb) = us[c] + pad + Words(n)
  BY DEF Placed, EndOf
<1> HIDE DEF us2, nb
<1>6. ASSUME NEW d \in DOMAIN us2, us2[d] > sz[d]
      PROVE  CountedTwice(us2, bs \union {nb}, d)
  <2>1. CASE d = c
    <3>1. more = Words(n)
      <4>1. ASSUME more = 0 PROVE FALSE
        BY SMTT(40), <1>1, <1>2, <1>4, <1>6, <2>1, <4>1
      <4> QED
        BY <4>1
    <3>2. EndOf(nb) + Words(nb.bytes) = us2[c]
      BY <1>1, <1>2, <1>4, <1>5, <3>1
    <3> QED
      BY <1>5, <2>1, <3>2 DEF CountedTwice
  <2>2. CASE d # c
    <3>1. d \in DOMAIN us /\ us2[d] = us[d]
      BY <1>3, <1>4, <2>2
    <3>2. CountedTwice(us, bs, d)
      BY <1>6, <3>1 DEF Overruns
    <3> QED
      BY <3>1, <3>2 DEF CountedTwice
  <2> QED
    BY <2>1, <2>2
<1> QED
  BY <1>6 DEF Overruns, us2, nb

LEMMA TakeOverruns ==
    ASSUME IInv, NEW n \in Nat \ {0}, NEW again \in {0, 1}, Take(n, again),
           Overruns(size, used, blocks)
    PROVE  Overruns(size', used', blocks')
<1> DEFINE sz == SizeFor(n)
           us == UsedFor(n)
           c == ChunkFor(Words(n))
           more == again * Words(n)
<1>1. Words(n) \in Nat \ {0}
  BY WordsEnough
<1>2. /\ sz \in Seq(Nat) /\ us \in Seq(Nat) /\ Len(us) = Len(sz)
      /\ c \in 1 .. Len(sz) /\ us[c] + Words(n) <= sz[c]
      /\ Accounted(blocks, sz, us)
  BY ChunkReady
<1>3. us[c] \in Nat /\ more \in {0, Words(n)} /\ more \in Nat
  BY SMTT(40), <1>1, <1>2
<1>4. Overruns(sz, us, blocks)
  <2>1. size \in Seq(Nat) /\ used \in Seq(Nat) /\ Len(used) = Len(size) /\ NewChunkWords(n) \in Nat
    BY NewChunkFits DEF IInv, Typed
  <2> QED
    BY <2>1, NewChunkOverruns DEF SizeFor, UsedFor
<1>5. us[c] + 0 = us[c] /\ us[c] + (1 + again) * Words(n) = us[c] + Words(n) + 0 + more
  BY <1>1, <1>3
<1>6. /\ size' = sz /\ used' = Bumped(us, c, n, 0, more)
      /\ blocks' = blocks \union {Placed(us, c, n, 0)}
  BY <1>5 DEF Take, AllocResult, Placed, Bumped
<1>7. blocks \in SUBSET Block /\ Apart(blocks)
  BY DEF IInv, Typed
<1> HIDE DEF sz, us, c, more
<1>8. RoomFor(sz, us, blocks, c, n, 0, more)
  BY <1>2, <1>3, <1>5, <1>7 DEF RoomFor
<1> QED
  BY <1>3, <1>4, <1>6, <1>8, PlacedOverruns

LEMMA ReallocOverruns ==
    ASSUME IInv, NEW b \in blocks, NEW n \in Nat, oc_arena_realloc(b, n),
           Overruns(size, used, blocks)
    PROVE  Overruns(size', used', blocks')
<1>1. b.bytes \in Nat \ {0} /\ b.chunk \in 1 .. Len(size)
  BY BlockExtent DEF IInv, Typed, BlocksBelowUsed, Accounted
<1>2. /\ size \in Seq(Nat) /\ used \in Seq(Nat) /\ Len(used) = Len(size) /\ current = Len(size)
      /\ current \in 1 .. Len(size) /\ used[current] \in Nat /\ size[current] \in Nat
      /\ blocks \in SUBSET Block /\ Accounted(blocks, size, used) /\ Apart(blocks)
  <2>1. /\ size \in Seq(Nat) /\ used \in Seq(Nat) /\ Len(used) = Len(size) /\ current = Len(size)
        /\ blocks \in SUBSET Block /\ Accounted(blocks, size, used) /\ Apart(blocks)
    BY DEF IInv, Typed, CurrentIsLast, BlocksBelowUsed
  <2> QED
    BY <1>1, <2>1
<1>3. CASE ReallocInPlace(b, n)
  <2> DEFINE x == used[current] + (Words(n) - Words(b.bytes))
             nb == [b EXCEPT !.bytes = n]
  <2>1. b.chunk = current /\ x <= size[current] /\ size' = size
    BY <1>3 DEF ReallocInPlace, IsTail
  <2>2. used' = [used EXCEPT ![current] = x] /\ blocks' = (blocks \ {b}) \union {nb}
    BY <1>3 DEF ReallocInPlace
  <2>3. n \in Nat \ {0} /\ b.bytes <= n
    BY <1>1, <1>3 DEF ReallocInPlace
  <2>4. x \in Nat
    <3>1. Words(n) \in Nat /\ Words(b.bytes) \in Nat /\ Words(b.bytes) <= Words(n)
      BY <1>1, <2>3, WordsEnough, WordsMonotone
    <3> QED
      BY <1>2, <3>1
  <2> HIDE DEF x, nb
  <2>5. used'[current] = x /\ DOMAIN used' = DOMAIN used /\ \A d \in DOMAIN used : d # current => used'[d] = used[d]
    BY <1>2, <2>2
  <2>6. ASSUME NEW d \in DOMAIN used', used'[d] > size[d]
        PROVE  CountedTwice(used', blocks', d)
    <3>1. d # current
      BY <1>2, <2>1, <2>4, <2>5, <2>6
    <3>2. d \in DOMAIN used /\ used'[d] = used[d] /\ used[d] > size[d]
      BY <2>5, <2>6, <3>1
    <3>3. PICK e \in blocks : e.chunk = d /\ EndOf(e) + Words(e.bytes) = used[d]
      BY <3>2 DEF Overruns, CountedTwice
    <3>4. e \in blocks'
      BY <2>1, <2>2, <3>1, <3>3
    <3> QED
      BY <3>2, <3>3, <3>4 DEF CountedTwice
  <2> QED
    BY <2>1, <2>6 DEF Overruns
<1>4. CASE ReallocCopy(b, n)
  <2>1. n \in Nat \ {0} /\ used[current] + Words(n) <= size[current]
    BY <1>1, <1>4 DEF ReallocCopy
  <2>2. Words(n) \in Nat
    BY <2>1, WordsEnough
  <2>3. used[current] + 0 = used[current] /\ used[current] + Words(n) = used[current] + Words(n) + 0 + 0
    BY <1>2, <2>2
  <2>4. /\ size' = size /\ used' = Bumped(used, current, n, 0, 0)
        /\ blocks' = blocks \union {Placed(used, current, n, 0)}
    BY <1>4, <2>3 DEF ReallocCopy, Bumped, Placed
  <2>5. RoomFor(size, used, blocks, current, n, 0, 0)
    BY <1>2, <2>1, <2>3 DEF RoomFor
  <2> QED
    BY <2>4, <2>5, PlacedOverruns
<1>5. CASE ReallocMove(b, n)
  <2>1. n \in Nat \ {0} /\ Take(n, 1)
    BY <1>1, <1>5 DEF ReallocMove
  <2> QED
    BY <2>1, TakeOverruns
<1> QED
  BY <1>3, <1>4, <1>5 DEF oc_arena_realloc

(* The first chunk, if oc_arena_alloc_aligned maps it, counts nothing.       *)
LEMMA AlignedReadyOverruns ==
    ASSUME IInv, NEW n \in Nat \ {0}, NEW a \in Nat \ {0}, Overruns(size, used, blocks)
    PROVE  Overruns(AlignedSize(n, a), AlignedUsed, blocks)
<1>1. size \in Seq(Nat) /\ used \in Seq(Nat) /\ Len(used) = Len(size)
  BY DEF IInv, Typed
<1>2. FirstChunkBytes(n, a) \in Nat \ {0}
  BY DEF FirstChunkBytes
<1>3. NewChunkWords(FirstChunkBytes(n, a)) \in Nat
  BY <1>2, NewChunkFits
<1> QED
  BY <1>1, <1>3, NewChunkOverruns DEF AlignedSize, AlignedUsed

LEMMA AlignedOverruns ==
    ASSUME IInv, NEW n \in Nat, NEW align \in Nat \ {0}, Overruns(size, used, blocks),
           oc_arena_alloc_aligned(n, align) \/ AllocAlignedSpins(n, align)
    PROVE  Overruns(size', used', blocks')
<1> DEFINE a == AtLeastWord(align)
           sz == AlignedSize(n, a)
           us == AlignedUsed
           c == AlignedCurrent
           pad == Pad(us[c], a)
<1>1. n \in Nat \ {0} /\ a \in Nat \ {0}
  BY DEF oc_arena_alloc_aligned, AllocAlignedSpins, AtLeastWord
<1>2. Overruns(sz, us, blocks)
  BY <1>1, AlignedReadyOverruns
<1>3. /\ sz \in Seq(Nat) /\ us \in Seq(Nat) /\ Len(us) = Len(sz) /\ c \in 1 .. Len(sz)
      /\ Accounted(blocks, sz, us) /\ us[c] \in Nat /\ pad \in Nat
  BY <1>1, AlignedReady
<1>4. CASE AllocAlignedSpins(n, align)
  BY <1>2, <1>4 DEF AllocAlignedSpins
<1>5. CASE oc_arena_alloc_aligned(n, align)
  <2>1. Words(n) \in Nat \ {0} /\ us[c] + Words(n) + pad <= sz[c]
    BY <1>1, <1>5, WordsEnough DEF oc_arena_alloc_aligned, AlignedFits
  <2>2. /\ size' = sz /\ used' = [us EXCEPT ![c] = @ + Words(n) + pad]
        /\ blocks' = blocks \union {[chunk |-> c, off |-> us[c] + pad, bytes |-> n]}
    BY <1>5 DEF oc_arena_alloc_aligned
  <2>3. blocks \in SUBSET Block /\ Apart(blocks)
    BY DEF IInv, Typed
  <2> HIDE DEF a, sz, us, c, pad
  <2>4. /\ us[c] + Words(n) + pad = us[c] + Words(n) + pad + 0
        /\ us[c] + pad + Words(n) <= sz[c]
    <3>1. ASSUME NEW x \in Nat, NEW y \in Nat, NEW z \in Nat
          PROVE  x + y + z = x + y + z + 0 /\ x + z + y = x + y + z
      OBVIOUS
    <3> QED
      BY SMTT(40), <3>1, <1>3, <2>1
  <2>5. used' = Bumped(us, c, n, pad, 0) /\ blocks' = blocks \union {Placed(us, c, n, pad)}
    BY <2>2, <2>4 DEF Bumped, Placed
  <2>6. RoomFor(sz, us, blocks, c, n, pad, 0)
    BY <1>1, <1>3, <2>3, <2>4 DEF RoomFor
  <2>7. 0 \in {0, Words(n)}
    OBVIOUS
  <2>8. Overruns(sz, Bumped(us, c, n, pad, 0), blocks \union {Placed(us, c, n, pad)})
    BY <1>2, <2>6, <2>7, PlacedOverruns
  <2> QED
    BY <2>2, <2>5, <2>8
<1> QED
  BY <1>4, <1>5

LEMMA NextKeepsOverruns ==
    IInv /\ Overruns(size, used, blocks) /\ [Next]_vars => Overruns(size', used', blocks')
<1> SUFFICES ASSUME IInv, Overruns(size, used, blocks), [Next]_vars
             PROVE  Overruns(size', used', blocks')
  OBVIOUS
<1>1. ASSUME NEW n \in Requests, oc_arena_alloc(n) PROVE Overruns(size', used', blocks')
  <2>1. n \in Nat \ {0} /\ Take(n, 0)
    BY <1>1, RequestAssumption DEF oc_arena_alloc
  <2> QED
    BY <2>1, TakeOverruns
<1>2. ASSUME NEW b \in blocks, NEW n \in Requests, oc_arena_realloc(b, n)
      PROVE  Overruns(size', used', blocks')
  BY <1>2, RequestAssumption, ReallocOverruns
<1>3. ASSUME NEW n \in Requests, NEW a \in Alignments,
             oc_arena_alloc_aligned(n, a) \/ AllocAlignedSpins(n, a)
      PROVE  Overruns(size', used', blocks')
  <2>1. n \in Nat /\ a \in Nat \ {0}
    BY RequestAssumption, AlignmentAssumption
  <2> QED
    BY <1>3, <2>1, AlignedOverruns
<1>4. CASE UNCHANGED vars
  BY <1>4 DEF vars
<1> QED
  BY <1>1, <1>2, <1>3, <1>4 DEF Next

(* Whatever is asked of the arena, a chunk counts at least the words of its  *)
(* blocks, and counts more than it has only because the block that realloc   *)
(* moved there last is counted a second time.                                *)
THEOREM ArenaTypeOK == Spec => []TypeOK
<1> DEFINE JInv == IInv /\ Overruns(size, used, blocks)
<1>1. Init => JInv
  BY InitIInv DEF Init, Overruns
<1>2. JInv /\ [Next]_vars => JInv'
  <2>1. Overruns(size', used', blocks') => Overruns(size, used, blocks)'
    BY DEF Overruns, CountedTwice, EndOf
  <2> QED
    BY <2>1, NextKeepsIInv, NextKeepsOverruns
<1>3. JInv => TypeOK
  <2>1. ASSUME IInv PROVE \A b \in blocks : b.chunk \in DOMAIN used /\ EndOf(b) <= used[b.chunk]
    BY <2>1 DEF IInv, Typed, BlocksBelowUsed, Accounted
  <2> QED
    BY <2>1 DEF IInv, Overruns, TypeOK, Counted
<1> QED
  BY <1>1, <1>2, <1>3, PTL DEF Spec

(* No block oc_arena_alloc, oc_arena_realloc or oc_arena_alloc_aligned ever  *)
(* returned reaches past the pages of its chunk.                             *)
THEOREM ArenaInside == Spec => []BlocksInsideChunks
<1>1. IInv => BlocksInsideChunks
  BY DEF IInv, BlocksBelowUsed, Accounted, BlocksInsideChunks
<1> QED
  BY <1>1, IInvHolds, PTL

(* No two blocks the arena ever returned share a word.                       *)
THEOREM ArenaDisjoint == Spec => []BlocksDisjoint
<1>1. IInv => BlocksDisjoint
  BY DEF IInv, Apart, Separate, BlocksDisjoint
<1> QED
  BY <1>1, IInvHolds, PTL

(* No step moves, shrinks or withdraws a block that was returned.            *)
THEOREM ArenaStay == Spec => BlocksStay
<1> DEFINE Kept(b) == \E d \in blocks' : d.chunk = b.chunk /\ d.off = b.off /\ d.bytes >= b.bytes
<1>1. ASSUME IInv, NEW b \in blocks, b \in blocks'
      PROVE  Kept(b)
  <2>1. b.bytes \in Nat
    BY <1>1, BlockExtent DEF IInv, Typed
  <2> QED
    BY <1>1, <2>1
<1>2. ASSUME IInv, [Next]_vars
      PROVE  \A b \in blocks : Kept(b)
  <2>1. ASSUME blocks \subseteq blocks' PROVE \A b \in blocks : Kept(b)
    BY <2>1, <1>1, <1>2
  <2> HIDE DEF Kept
  <2>2. ASSUME NEW n \in Requests, oc_arena_alloc(n) PROVE \A b \in blocks : Kept(b)
    BY <2>1, <2>2 DEF oc_arena_alloc, Take
  <2>3. ASSUME NEW b \in blocks, NEW n \in Requests, oc_arena_realloc(b, n)
        PROVE  \A e \in blocks : Kept(e)
    <3>1. CASE ReallocInPlace(b, n)
      <4> DEFINE nb == [b EXCEPT !.bytes = n]
      <4>1. b \in Block /\ b.bytes \in Nat /\ n \in Nat
        BY <1>2, BlockExtent, RequestAssumption DEF IInv, Typed
      <4>2. nb.chunk = b.chunk /\ nb.off = b.off /\ nb.bytes = n /\ n >= b.bytes
        BY <3>1, <4>1 DEF Block, ReallocInPlace
      <4>3. nb \in blocks' /\ \A e \in blocks : e = b \/ e \in blocks'
        BY <3>1 DEF ReallocInPlace
      <4> HIDE DEF nb
      <4>4. Kept(b)
        BY <4>2, <4>3 DEF Kept
      <4> QED
        BY <4>3, <4>4, <1>1, <1>2
    <3>2. CASE ReallocCopy(b, n)
      BY <2>1, <3>2 DEF ReallocCopy
    <3>3. CASE ReallocMove(b, n)
      BY <2>1, <3>3 DEF ReallocMove, Take
    <3> QED
      BY <2>3, <3>1, <3>2, <3>3 DEF oc_arena_realloc
  <2>4. ASSUME NEW n \in Requests, NEW a \in Alignments, oc_arena_alloc_aligned(n, a)
        PROVE  \A b \in blocks : Kept(b)
    BY <2>1, <2>4 DEF oc_arena_alloc_aligned
  <2>5. ASSUME NEW n \in Requests, NEW a \in Alignments, AllocAlignedSpins(n, a)
        PROVE  \A b \in blocks : Kept(b)
    BY <2>1, <2>5 DEF AllocAlignedSpins
  <2>6. CASE UNCHANGED vars
    BY <2>1, <2>6 DEF vars
  <2> QED
    BY <1>2, <2>2, <2>3, <2>4, <2>5, <2>6 DEF Next
<1>3. IInv /\ [Next]_vars => [\A b \in blocks : Kept(b)]_vars
  BY <1>2
<1> QED
  BY <1>3, IInvHolds, PTL DEF Spec, BlocksStay
-----------------------------------------------------------------------------
(* The words of a block are some, and no two separate blocks share one.      *)
LEMMA ExtentFacts ==
    ASSUME NEW b \in Block
    PROVE  /\ Extent(b) # {}
           /\ \A d \in Block : Separate(b, d) => Extent(b) \cap Extent(d) = {}
<1>1. b.off \in b.off .. EndOf(b) - 1
  BY BlockExtent
<1>2. <<b.chunk, b.off>> \in Extent(b)
  BY <1>1 DEF Extent
<1>3. ASSUME NEW d \in Block, Separate(b, d), NEW x \in Extent(b) \cap Extent(d)
      PROVE  FALSE
  <2>1. PICK w \in b.off .. EndOf(b) - 1 : x = <<b.chunk, w>>
    BY DEF Extent
  <2>2. PICK v \in d.off .. EndOf(d) - 1 : x = <<d.chunk, v>>
    BY DEF Extent
  <2>3. b.chunk = d.chunk /\ w = v
    BY <2>1, <2>2
  <2>4. /\ b.off \in Nat /\ EndOf(b) \in Nat
        /\ d.off \in Nat /\ EndOf(d) \in Nat
    BY BlockExtent
  <2>5. EndOf(b) <= d.off \/ EndOf(d) <= b.off
    BY <1>3, <2>3 DEF Separate
  <2> QED
    BY <2>3, <2>4, <2>5
<1> QED
  BY <1>2, <1>3

(* A block that is accounted for uses words its arena has mapped.            *)
LEMMA ExtentMapped ==
    ASSUME NEW sz \in Seq(Nat), NEW us, NEW bs, bs \subseteq Block,
           Accounted(bs, sz, us), NEW b \in bs
    PROVE  Extent(b) \subseteq WordsOf(sz)
<1>1. b.off \in Nat /\ EndOf(b) \in Nat
  BY BlockExtent
<1>2. b.chunk \in DOMAIN sz /\ EndOf(b) <= sz[b.chunk] /\ sz[b.chunk] \in Nat
  BY DEF Accounted
<1>3. ASSUME NEW w \in b.off .. EndOf(b) - 1
      PROVE  <<b.chunk, w>> \in WordsOf(sz)
  <2>1. w \in 0 .. sz[b.chunk] - 1
    BY <1>1, <1>2
  <2> QED
    BY <1>2, <2>1 DEF WordsOf
<1> QED
  BY <1>3 DEF Extent

(* Chunks are only ever added.                                               *)
LEMMA RoomGrows ==
    ASSUME NEW sz \in Seq(Nat), NEW x
    PROVE  WordsOf(sz) \subseteq WordsOf(Append(sz, x))
<1>1. \A c \in DOMAIN sz : c \in DOMAIN Append(sz, x) /\ Append(sz, x)[c] = sz[c]
  OBVIOUS
<1> QED
  BY <1>1 DEF WordsOf

(* A step that returns one more block hands out words that were free.        *)
LEMMA PlacedGives ==
    ASSUME IInv, IInv', WordsOf(size) \subseteq WordsOf(size'),
           NEW nb, blocks' = blocks \union {nb}
    PROVE  A!Next
<1>1. blocks' \subseteq Block /\ nb \in blocks'
  BY DEF IInv, Typed
<1>2. A!Mapped
  BY DEF A!Mapped, WordsOf
<1>3. CASE nb \in blocks
  <2>1. blocks' = blocks
    BY <1>3
  <2>2. {Extent(b) : b \in blocks}' = {Extent(b) : b \in blocks}
    BY <2>1 DEF Extent, EndOf
  <2> QED
    BY <1>2, <2>2 DEF A!Next, A!Extend
<1>4. CASE nb \notin blocks
  <2>1. {Extent(b) : b \in blocks}' = {Extent(b) : b \in blocks} \union {Extent(nb)}
    BY DEF Extent, EndOf
  <2>2. Extent(nb) # {}
    BY <1>1, ExtentFacts
  <2>3. Extent(nb) \subseteq WordsOf(size)'
    <3>1. size' \in Seq(Nat) /\ Accounted(blocks', size', used')
      BY DEF IInv, Typed, BlocksBelowUsed, Accounted, EndOf
    <3>2. Extent(nb) \subseteq WordsOf(size')
      BY <3>1, <1>1, ExtentMapped
    <3> QED
      BY <3>2 DEF WordsOf
  <2>4. ASSUME NEW r \in {Extent(b) : b \in blocks}
        PROVE  Extent(nb) \cap r = {}
    <3>1. PICK b \in blocks : r = Extent(b)
      BY <2>4
    <3>2. b \in blocks' /\ b # nb
      BY <1>4
    <3>3. Separate(nb, b)
      BY <3>2, <1>1 DEF IInv, Apart, Separate, EndOf
    <3> QED
      BY <3>1, <3>2, <3>3, <1>1, ExtentFacts
  <2>5. Extent(nb) \in {Extent(b) : b \in blocks}'
    BY <2>1
  <2> HIDE DEF IInv
  <2>6. A!Free(Extent(nb), {Extent(b) : b \in blocks})
    BY <2>3, <2>4 DEF A!Free
  <2> QED
    BY <1>2, <2>1, <2>2, <2>5, <2>6 DEF A!Next, A!Give
<1> QED
  BY <1>3, <1>4

(* A block that grows in place takes the words behind it, which were free.   *)
LEMMA InPlaceGrows ==
    ASSUME IInv, IInv', NEW b \in blocks, NEW n \in Nat, ReallocInPlace(b, n)
    PROVE  A!Next
<1> DEFINE nb == [b EXCEPT !.bytes = n]
<1>1. blocks \subseteq Block /\ blocks' \subseteq Block
  BY DEF IInv, Typed
<1>2. size' = size /\ blocks' = (blocks \ {b}) \union {nb}
  BY DEF ReallocInPlace
<1>3. b.bytes \in Nat \ {0} /\ n \in Nat \ {0} /\ b.bytes <= n /\ b.off \in Nat
  BY <1>1, BlockExtent DEF ReallocInPlace
<1>4. nb.chunk = b.chunk /\ nb.off = b.off /\ nb.bytes = n
  BY <1>1, <1>3 DEF Block
<1>5. Words(b.bytes) \in Nat /\ Words(n) \in Nat /\ Words(b.bytes) <= Words(n)
  BY <1>3, WordsEnough, WordsMonotone
<1>6. nb \in blocks'
  BY <1>2
<1> HIDE DEF nb
<1>7. EndOf(b) = b.off + Words(b.bytes) /\ EndOf(nb) = b.off + Words(n)
  BY <1>4 DEF EndOf
<1>8. Extent(b) \subseteq Extent(nb)
  <2>1. b.off .. EndOf(b) - 1 \subseteq nb.off .. EndOf(nb) - 1
    BY <1>3, <1>4, <1>5, <1>7
  <2> QED
    BY <2>1, <1>4 DEF Extent
<1>9. A!Mapped
  BY <1>2 DEF A!Mapped, WordsOf
<1>10. Extent(nb) \subseteq WordsOf(size)'
  <2>1. size' \in Seq(Nat) /\ Accounted(blocks', size', used')
    BY DEF IInv, Typed, BlocksBelowUsed, Accounted, EndOf
  <2>2. Extent(nb) \subseteq WordsOf(size')
    BY <2>1, <1>1, <1>6, ExtentMapped
  <2> QED
    BY <2>2 DEF WordsOf
<1>11. ASSUME NEW d \in blocks, d # b
       PROVE  Extent(nb) \cap Extent(d) = {} /\ Extent(d) # Extent(b)
  <2>1. d \in blocks'
    BY <1>2, <1>11
  <2>2. Separate(b, d)
    BY <1>11 DEF IInv, Apart
  <2>3. Extent(b) \cap Extent(d) = {} /\ Extent(b) # {}
    BY <2>2, <1>1, ExtentFacts
  <2>4. d # nb
    <3>1. CASE d = nb
      <4>1. Extent(b) \subseteq Extent(d)
        BY <3>1, <1>8
      <4> QED
        BY <4>1, <2>3
    <3> QED
      BY <3>1
  <2>5. Separate(nb, d)
    BY <2>1, <2>4, <1>6 DEF IInv, Apart, Separate, EndOf
  <2>6. Extent(nb) \cap Extent(d) = {}
    BY <2>5, <2>1, <1>1, <1>6, ExtentFacts
  <2> QED
    BY <2>3, <2>6
<1> DEFINE R == {Extent(d) : d \in blocks}
<1>12. {Extent(d) : d \in blocks}' = (R \ {Extent(b)}) \union {Extent(nb)}
  <2>1. {Extent(d) : d \in blocks}' = {Extent(d) : d \in blocks'}
    BY DEF Extent, EndOf
  <2>2. {Extent(d) : d \in blocks'} = {Extent(d) : d \in blocks \ {b}} \union {Extent(nb)}
    BY <1>2
  <2>3. {Extent(d) : d \in blocks \ {b}} = R \ {Extent(b)}
    BY <1>11
  <2> QED
    BY <2>1, <2>2, <2>3
<1>13. ASSUME NEW r \in R \ {Extent(b)}
       PROVE  Extent(nb) \cap r = {}
  BY <1>11
<1>14. A!Free(Extent(nb), R \ {Extent(b)})
  BY <1>10, <1>13 DEF A!Free
<1>15. Extent(b) \in R
  OBVIOUS
<1>16. Extent(nb) \in {Extent(d) : d \in blocks}'
  BY <1>12
<1> HIDE DEF IInv
<1> QED
  BY <1>8, <1>9, <1>12, <1>14, <1>15, <1>16 DEF A!Next, A!Grow

(* The arena implements an allocator that never frees: whatever mixture of   *)
(* oc_arena_alloc, oc_arena_realloc and oc_arena_alloc_aligned is called,    *)
(* each call only maps words, hands out free ones, or adds free ones to a    *)
(* region.                                                                   *)
THEOREM ArenaImplementsAllocator == Spec => ImplementsAllocator
<1>1. Init => A!Init
  <2>1. ASSUME Init PROVE A!Init
    BY <2>1 DEF Init, A!Init, WordsOf
  <2> QED
    BY <2>1
<1>2. ASSUME IInv, IInv', [Next]_vars
      PROVE  [A!Next]_<<WordsOf(size), {Extent(b) : b \in blocks}>>
  <2>1. size \in Seq(Nat)
    BY <1>2 DEF IInv, Typed
  <2>3. ASSUME NEW n, NEW again, Take(n, again) PROVE A!Next
    <3>1. size' = size \/ \E x : size' = Append(size, x)
      BY <2>3 DEF Take, SizeFor
    <3>2. WordsOf(size) \subseteq WordsOf(size')
      BY <2>1, <3>1, RoomGrows
    <3>3. blocks' = blocks \union {AllocResult(n)}
      BY <2>3 DEF Take
    <3> QED
      BY <1>2, <3>2, <3>3, PlacedGives
  <2>4. ASSUME NEW n \in Requests, oc_arena_alloc(n) PROVE A!Next
    BY <2>3, <2>4 DEF oc_arena_alloc
  <2>5. ASSUME NEW b \in blocks, NEW n \in Requests, oc_arena_realloc(b, n) PROVE A!Next
    <3>1. CASE ReallocInPlace(b, n)
      BY <1>2, <3>1, RequestAssumption, InPlaceGrows
    <3>2. CASE ReallocCopy(b, n)
      <4>1. size' = size /\ blocks' = blocks \union {[chunk |-> current, off |-> used[current], bytes |-> n]}
        BY <3>2 DEF ReallocCopy
      <4> QED
        BY <1>2, <4>1, PlacedGives
    <3>3. CASE ReallocMove(b, n)
      BY <2>3, <3>3 DEF ReallocMove
    <3> QED
      BY <2>5, <3>1, <3>2, <3>3 DEF oc_arena_realloc
  <2>6. ASSUME NEW n \in Requests, NEW a \in Alignments, oc_arena_alloc_aligned(n, a) PROVE A!Next
    <3>1. size' = size \/ \E x : size' = Append(size, x)
      BY <2>6 DEF oc_arena_alloc_aligned, AlignedSize
    <3>2. WordsOf(size) \subseteq WordsOf(size')
      BY <2>1, <3>1, RoomGrows
    <3>3. \E nb : blocks' = blocks \union {nb}
      BY <2>6 DEF oc_arena_alloc_aligned
    <3> QED
      BY <1>2, <3>2, <3>3, PlacedGives
  <2>7. ASSUME NEW n \in Requests, NEW a \in Alignments, AllocAlignedSpins(n, a) PROVE A!Next
    <3>1. size' = size \/ \E x : size' = Append(size, x)
      BY <2>7 DEF AllocAlignedSpins, AlignedSize
    <3>2. WordsOf(size) \subseteq WordsOf(size')
      BY <2>1, <3>1, RoomGrows
    <3>3. blocks' = blocks
      BY <2>7 DEF AllocAlignedSpins
    <3>4. {Extent(b) : b \in blocks}' = {Extent(b) : b \in blocks}
      BY <3>3 DEF Extent, EndOf
    <3>5. A!Mapped
      BY <3>2 DEF A!Mapped, WordsOf
    <3> QED
      BY <3>4, <3>5 DEF A!Next, A!Extend
  <2>8. CASE UNCHANGED vars
    BY <2>8 DEF vars, WordsOf, Extent, EndOf
  <2> HIDE DEF IInv
  <2> QED
    BY <1>2, <2>4, <2>5, <2>6, <2>7, <2>8 DEF Next
<1> QED
  BY <1>1, <1>2, IInvHolds, PTL DEF Spec, ImplementsAllocator, A!Spec
=============================================================================
