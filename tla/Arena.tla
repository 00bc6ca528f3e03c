------------------------------- MODULE Arena -------------------------------
(***************************************************************************)
(* The chunked bump allocator of core/core1.h (Oc_Arena).  Everything the  *)
(* compiler builds (tokens, AST, types, IR blocks, evaluator frames) lives *)
(* in an arena and is referred to by raw pointer for the rest of the run,  *)
(* so a block that was handed out must never be handed out again, moved or *)
(* cut off by the end of its chunk.                                        *)
(*                                                                         *)
(* A chunk is known by its position in the list that starts at arena->head *)
(* (1 is the head); arena->current is such a position, 0 when NULL.  `used'*)
(* and `size' count words, requests count bytes, as in the code.           *)
(* oc_arena_save, oc_arena_restore and oc_arena_reset have no caller and   *)
(* are left out; it is their absence that makes `current' the last chunk.  *)
(***************************************************************************)
EXTENDS Naturals, Sequences

CONSTANTS
    ChunkBytes,     \* OC_ARENA_CHUNK_SIZE
    Requests,       \* the sizes in bytes that callers ask for
    Alignments,     \* the alignments in bytes that callers ask for
    MaxChunks       \* bound: how many chunks a behaviour may map

ASSUME ChunkAssumption ==
    /\ ChunkBytes \in Nat \ {0}
    /\ ChunkBytes % 8 = 0
ASSUME RequestAssumption == Requests \subseteq Nat
ASSUME AlignmentAssumption ==
    /\ Alignments \subseteq Nat \ {0}
    /\ \A a \in Alignments : a % 8 = 0 \/ a <= 8
ASSUME BoundAssumption == MaxChunks \in Nat

VARIABLES
    size,       \* size[c]: words of data in chunk c
    used,       \* used[c]: words of chunk c handed out
    current,    \* position of arena->current, 0 when NULL
    blocks,     \* every block ever returned: chunk, word offset, bytes
    spinning    \* the loop of oc_arena_alloc_aligned has no way out

vars == <<size, used, current, blocks, spinning>>

Block == [chunk : Nat \ {0}, off : Nat, bytes : Nat \ {0}]

\* sizeof(Oc_Arena_Chunk): used, size and next.
HeaderBytes == 24

\* Words that hold n > 0 bytes.
Words(n) == (n - 1) \div 8 + 1

\* oc_align_forward, whose mask rounds up to a multiple of the alignment.
AlignForward(v, a) == ((v + a - 1) \div a) * a

\* Mutant: the header of the chunk is not counted.
NewChunkWordsNoHeader(n) == (AlignForward(n, ChunkBytes) - HeaderBytes) \div 8

\* Words of data in the chunk that oc_arena_new_chunk maps for n bytes.  Its
\* first branch (extend the current chunk) is dead: a fresh mapping reads
\* chunk->size as 0, and a mapping never starts at current->data.
NewChunkWords(n) == (AlignForward(n + HeaderBytes, ChunkBytes) - HeaderBytes) \div 8

\* First word behind block b.
EndOf(b) == b.off + Words(b.bytes)

Init ==
    /\ size = <<>>
    /\ used = <<>>
    /\ current = 0
    /\ blocks = {}
    /\ spinning = FALSE

(***************************************************************************)
(* The chunk oc_arena_alloc takes its words from: the current one if they  *)
(* fit, else the next one of the list whatever its room, else a new one.   *)
(* The new chunk is mapped after the last one.                             *)
(***************************************************************************)
FitsCurrent(w) == current # 0 /\ used[current] + w <= size[current]
NeedsChunk(w) == ~FitsCurrent(w) /\ current = Len(size)

ChunkFor(w) == IF FitsCurrent(w) THEN current ELSE current + 1

\* The chunk list after the request, before any word is handed out.
SizeFor(n) == IF NeedsChunk(Words(n)) THEN Append(size, NewChunkWords(n)) ELSE size
UsedFor(n) == IF NeedsChunk(Words(n)) THEN Append(used, 0) ELSE used

\* The block oc_arena_alloc(n) returns.
AllocResult(n) ==
    LET c == ChunkFor(Words(n))
    IN [chunk |-> c, off |-> UsedFor(n)[c], bytes |-> n]

\* oc_arena_alloc for n > 0 bytes; `again' is how many more times the caller
\* bumps `used' by the words of the request.
Take(n, again) ==
    LET c == ChunkFor(Words(n))
    IN /\ NeedsChunk(Words(n)) => Len(size) < MaxChunks
       /\ size' = SizeFor(n)
       /\ used' = [UsedFor(n) EXCEPT ![c] = @ + (1 + again) * Words(n)]
       /\ current' = c
       /\ blocks' = blocks \union {AllocResult(n)}

oc_arena_alloc(n) ==
    /\ ~spinning
    /\ n > 0
    /\ Take(n, 0)
    /\ UNCHANGED spinning

(***************************************************************************)
(* oc_arena_realloc of block b to n bytes.  A block is recognised as the   *)
(* last one by its byte size, so only one whose size is a whole number of  *)
(* words can grow in place.                                                *)
(***************************************************************************)
\* Mutant: any block of the current chunk is taken for the last one.
IsInTailChunk(b) == b.chunk = current

IsTail(b) ==
    /\ b.chunk = current
    /\ 8 * b.off + b.bytes = 8 * used[current]

\* Mutant: the words the block has are counted again.
ReallocInPlaceAgain(b, n) ==
    /\ ~spinning
    /\ n > b.bytes
    /\ IsTail(b)
    /\ used[current] + (Words(n) - Words(b.bytes)) <= size[current]
    /\ used' = [used EXCEPT ![current] = @ + Words(n)]
    /\ blocks' = (blocks \ {b}) \union {[b EXCEPT !.bytes = n]}
    /\ UNCHANGED <<size, current, spinning>>

\* Mutant: a request for fewer bytes is not turned away.
ReallocInPlaceAny(b, n) ==
    /\ ~spinning
    /\ n > 0
    /\ IsTail(b)
    /\ used[current] + (Words(n) - Words(b.bytes)) <= size[current]
    /\ used' = [used EXCEPT ![current] = @ + (Words(n) - Words(b.bytes))]
    /\ blocks' = (blocks \ {b}) \union {[b EXCEPT !.bytes = n]}
    /\ UNCHANGED <<size, current, spinning>>

ReallocInPlace(b, n) ==
    /\ ~spinning
    /\ n > b.bytes
    /\ IsTail(b)
    /\ used[current] + (Words(n) - Words(b.bytes)) <= size[current]
    /\ used' = [used EXCEPT ![current] = @ + (Words(n) - Words(b.bytes))]
    /\ blocks' = (blocks \ {b}) \union {[b EXCEPT !.bytes = n]}
    /\ UNCHANGED <<size, current, spinning>>

\* Not the last block, but the current chunk has room: copy into it.
ReallocCopy(b, n) ==
    /\ ~spinning
    /\ n > b.bytes
    /\ ~IsTail(b)
    /\ used[current] + Words(n) <= size[current]
    /\ used' = [used EXCEPT ![current] = @ + Words(n)]
    /\ blocks' = blocks \union {[chunk |-> current, off |-> used[current], bytes |-> n]}
    /\ UNCHANGED <<size, current, spinning>>

\* No room: oc_arena_alloc, copy, and `used' is bumped a second time.  The
\* branch that would extend b in place asks that b end where the new block
\* starts and also where it ends, which no block of one word or more does.
ReallocMove(b, n) ==
    /\ ~spinning
    /\ n > b.bytes
    /\ IF IsTail(b)
       THEN used[current] + (Words(n) - Words(b.bytes)) > size[current]
       ELSE used[current] + Words(n) > size[current]
    /\ Take(n, 1)
    /\ UNCHANGED spinning

oc_arena_realloc(b, n) ==
    \/ ReallocInPlace(b, n)
    \/ ReallocCopy(b, n)
    \/ ReallocMove(b, n)

(***************************************************************************)
(* oc_arena_alloc_aligned.  The data of a chunk starts HeaderBytes into a  *)
(* page.  The do-while recomputes the same two pointers, so it is left at  *)
(* once or never.                                                          *)
(***************************************************************************)
Address(off) == HeaderBytes + 8 * off

Pad(off, a) == (AlignForward(Address(off), a) - Address(off)) \div 8

AtLeastWord(a) == IF a < 8 THEN 8 ELSE a

FirstChunkBytes(n, a) == IF n < a THEN a ELSE n

\* The chunk list once the arena has a first chunk.
AlignedSize(n, a) == IF current = 0 THEN Append(size, NewChunkWords(FirstChunkBytes(n, a))) ELSE size
AlignedUsed == IF current = 0 THEN Append(used, 0) ELSE used
AlignedCurrent == IF current = 0 THEN 1 ELSE current

AlignedFits(n, a) ==
    LET c == AlignedCurrent
    IN AlignedUsed[c] + Words(n) + Pad(AlignedUsed[c], a) <= AlignedSize(n, a)[c]

oc_arena_alloc_aligned(n, align) ==
    LET a == AtLeastWord(align)
        c == AlignedCurrent
        pad == Pad(AlignedUsed[c], a)
    IN /\ ~spinning
       /\ n > 0
       /\ Len(AlignedUsed) <= MaxChunks
       /\ AlignedFits(n, a)
       /\ size' = AlignedSize(n, a)
       /\ used' = [AlignedUsed EXCEPT ![c] = @ + Words(n) + pad]
       /\ current' = c
       /\ blocks' = blocks \union {[chunk |-> c, off |-> AlignedUsed[c] + pad, bytes |-> n]}
       /\ UNCHANGED spinning

AllocAlignedSpins(n, align) ==
    LET a == AtLeastWord(align)
    IN /\ ~spinning
       /\ n > 0
       /\ Len(AlignedUsed) <= MaxChunks
       /\ ~AlignedFits(n, a)
       /\ spinning' = TRUE
       /\ size' = AlignedSize(n, a)
       /\ used' = AlignedUsed
       /\ current' = AlignedCurrent
       /\ UNCHANGED blocks

Next ==
    \/ \E n \in Requests : oc_arena_alloc(n)
    \/ \E b \in blocks, n \in Requests : oc_arena_realloc(b, n)
    \/ \E n \in Requests, a \in Alignments : oc_arena_alloc_aligned(n, a)
    \/ \E n \in Requests, a \in Alignments : AllocAlignedSpins(n, a)

Spec == Init /\ [][Next]_vars
-----------------------------------------------------------------------------
(***************************************************************************)
(* Properties.                                                             *)
(***************************************************************************)
\* The variables have their types, and every chunk has a `used' and a `size'.
Typed ==
    /\ size \in Seq(Nat)
    /\ used \in Seq(Nat)
    /\ Len(used) = Len(size)
    /\ current \in 0 .. Len(size)
    /\ blocks \subseteq Block
    /\ spinning \in BOOLEAN

\* Chunk c counts more words than it has (us) because its last block, which
\* realloc moved there, is counted twice.
CountedTwice(us, bs, c) == \E b \in bs : b.chunk = c /\ EndOf(b) + Words(b.bytes) = us[c]

\* No chunk counts fewer words than its blocks take, and one that counts more
\* than it has does so by the words of a single moved block.
Counted ==
    /\ \A b \in blocks : b.chunk \in DOMAIN used /\ EndOf(b) <= used[b.chunk]
    /\ \A c \in DOMAIN used : used[c] > size[c] => CountedTwice(used, blocks, c)

\* Type invariant, with what `used' means: the second bump of oc_arena_realloc
\* (core/core1.h:663) takes it past `size', but never by more than the words of
\* the block it has just placed, whatever is grown or asked for afterwards.
TypeOK == Typed /\ Counted

\* Every block lies inside its chunk: a caller that fills the bytes it asked
\* for never writes past the mapped pages (oc_arena_alloc checks `used' against
\* `size' before it moves to a chunk, never after).
BlocksInsideChunks ==
    \A b \in blocks :
        /\ b.chunk \in 1 .. Len(size)
        /\ EndOf(b) <= size[b.chunk]

\* No two blocks the arena ever returned share a word, whatever mixture of
\* alloc, realloc and alloc_aligned returned them: realloc may grow a block in
\* place only when nothing lies behind it.
BlocksDisjoint ==
    \A b1, b2 \in blocks :
        \/ b1 = b2
        \/ b1.chunk # b2.chunk
        \/ EndOf(b1) <= b2.off
        \/ EndOf(b2) <= b1.off

\* The block realloc abandons stays where it is: no step moves, shrinks or
\* withdraws a block, so pointers into an array that has since grown (locals,
\* scopes, IR blocks held across an append) still read what was written.
BlocksStay ==
    [][\A b \in blocks : \E d \in blocks' :
          d.chunk = b.chunk /\ d.off = b.off /\ d.bytes >= b.bytes]_vars

\* The words of the chunks in a list of sizes, and those of block b.
WordsOf(sz) == UNION {{<<c, w>> : w \in 0 .. sz[c] - 1} : c \in DOMAIN sz}
Extent(b) == {<<b.chunk, w>> : w \in b.off .. EndOf(b) - 1}

A == INSTANCE Allocator WITH
        room <- WordsOf(size),
        regions <- {Extent(b) : b \in blocks}

\* The chunks, their counts and the guesses of realloc about which block is the
\* last one are an allocator: every call maps words, hands out words nobody has,
\* or adds words nobody has to one region (the callers of oc_arena_realloc copy
\* nothing when they get the same pointer back).
ImplementsAllocator == A!Spec
=============================================================================
