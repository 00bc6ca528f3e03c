------------------------------- MODULE IrPool ------------------------------
(***************************************************************************)
(* The array of IR blocks (LL_Backend_Ir.blocks) and its free list, as     *)
(* operators on a pool: the `next' link of every block, 0 at the end of a  *)
(* chain, and the head of the free list, 0 when it is empty.  Block 0 is   *)
(* the null block and has no entry.  The contents of a block are left out. *)
(***************************************************************************)
EXTENDS Naturals, Sequences

NoBlock == 0

EmptyPool == [next |-> <<>>, free |-> NoBlock]

\* Mutant: the head of the free list stays where it is.
FillKeepingFree(p, links, n) ==
    IF p.free # NoBlock
    THEN [next |-> [links EXCEPT ![p.free] = n], free |-> p.free]
    ELSE [next |-> Append(links, n), free |-> NoBlock]

\* The block with link n is put where the free list starts, which then starts
\* at the link that stood there, or at the end of the array.
Fill(p, links, n) ==
    IF p.free # NoBlock
    THEN [next |-> [links EXCEPT ![p.free] = n], free |-> links[p.free]]
    ELSE [next |-> Append(links, n), free |-> NoBlock]

\* Mutant: the reference is the end of the array even when a block is reused.
FreshBlockAtEnd(p) == Len(p.next) + 1

\* The block that ir_create_block and ll_eval_node take next.
FreshBlock(p) == IF p.free # NoBlock THEN p.free ELSE Len(p.next) + 1

\* ir_create_block with `append': behind the current block cur.
ir_create_block_after(p, cur) ==
    Fill(p, [p.next EXCEPT ![cur] = FreshBlock(p)], p.next[cur])

\* ir_create_block without `append': a block in no chain yet.
ir_create_block_loose(p) == Fill(p, p.next, NoBlock)

\* Mutant: the current block is linked before its old link is read.
InsertDeadBlockSwapped(p, cur) ==
    LET q == ir_create_block_loose(p)
    IN [next |-> [q.next EXCEPT ![FreshBlock(p)] = FreshBlock(p), ![cur] = FreshBlock(p)],
        free |-> q.free]

\* What a break does to the chain: a loose block for the code behind it, which
\* is then linked behind the current block.
InsertDeadBlock(p, cur) ==
    LET q == ir_create_block_loose(p)
    IN [next |-> [q.next EXCEPT ![FreshBlock(p)] = q.next[cur], ![cur] = FreshBlock(p)],
        free |-> q.free]

\* The entry block of a function is always a new one of the array, ...
FunctionEntry(p) == [next |-> Append(p.next, NoBlock), free |-> p.free]

\* ... that of a constant comes from the free list, ...
ConstantEntry(p) == Fill(p, p.next, NoBlock)

\* ... to which ll_eval_node returns the chain of the constant.  What was still
\* on the list is not linked to it.
ReleaseConstant(p, entry) == [next |-> p.next, free |-> entry]
=============================================================================
