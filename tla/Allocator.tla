----------------------------- MODULE Allocator -----------------------------
(***************************************************************************)
(* What an allocator promises, for blocks that are never freed.  There are *)
(* words one may use, which only grow in number, and regions of them that  *)
(* were handed out, which never share a word, never lose one, and are only *)
(* added to.  Where a region lies is the allocator's choice.               *)
(***************************************************************************)
VARIABLES
    room,       \* the words that exist
    regions     \* the sets of words handed out

Init == room = {} /\ regions = {}

Mapped == room \subseteq room'

\* The words of region r are there and in no region of rs.
Free(r, rs) == r \subseteq room' /\ \A s \in rs : r \cap s = {}

\* More words, and nothing handed out.
Extend == Mapped /\ UNCHANGED regions

Give ==
    \E r \in regions' :
        /\ Mapped
        /\ r # {}
        /\ Free(r, regions)
        /\ regions' = regions \union {r}

\* A region gets more words than it had.
Grow ==
    \E old \in regions, new \in regions' :
        /\ Mapped
        /\ old \subseteq new
        /\ Free(new, regions \ {old})
        /\ regions' = (regions \ {old}) \union {new}

Next == Extend \/ Give \/ Grow

Spec == Init /\ [][Next]_<<room, regions>>
=============================================================================
