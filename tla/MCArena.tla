------------------------------ MODULE MCArena ------------------------------
(* Arena on pages of 64 bytes: five words of data in a chunk, requests on    *)
(* both sides of the word and of the chunk boundary.                         *)
EXTENDS Arena, FiniteSets

CONSTANT MaxBlocks  \* bound: blocks in a behaviour

Bound == Cardinality(blocks) <= MaxBlocks
=============================================================================
