----------------------------- MODULE Interning -----------------------------
(***************************************************************************)
(* The table of strings (src/common.c): two strings are one when they got  *)
(* the same pointer, which is how keywords and names are compared.  The    *)
(* hash is that of the code, on words of 64 bits in four parts of 16.      *)
(***************************************************************************)
EXTENDS Spelling, Bitwise

\* A word is the tuple of its parts, the lowest first.
Part == 65536
Word64(n) == <<n, 0, 0, 0>>
Not64(x) == <<Part - 1 - x[1], Part - 1 - x[2], Part - 1 - x[3], Part - 1 - x[4]>>
Xor64(x, y) == <<x[1] ^^ y[1], x[2] ^^ y[2], x[3] ^^ y[3], x[4] ^^ y[4]>>

\* What does not fit into a part is carried to the next one.
Carried(x) ==
    LET second == x[2] + x[1] \div Part
        third == x[3] + second \div Part
    IN <<x[1] % Part, second % Part, third % Part, (x[4] + third \div Part) % Part>>
Plus64(x, y) == Carried(<<x[1] + y[1], x[2] + y[2], x[3] + y[3], x[4] + y[4]>>)

\* All parts move left by fewer than 16 bits; `below' comes in at the lowest one.
PartOf(part, lower, bits) == ((part * 2 ^ bits) % Part) + (lower \div 2 ^ (16 - bits))
MoveLeft(x, below, bits) ==
    <<PartOf(x[1], below, bits), PartOf(x[2], x[1], bits), PartOf(x[3], x[2], bits), PartOf(x[4], x[3], bits)>>
ShiftLeft(x, bits) == MoveLeft(x, 0, bits)
ByParts(x, n) == [i \in 1 .. 4 |-> x[((i - n - 1) % 4) + 1]]
RotateLeft(x, n) == LET turned == ByParts(x, n \div 16) IN MoveLeft(turned, turned[4], n % 16)
RotateRight(x, n) == RotateLeft(x, 64 - n)

Seed == Word64(16)

RECURSIVE Summed(_, _)
Summed(h, str) ==
    IF str = <<>> THEN h
    ELSE CHOOSE sum \in {Summed(next, Tail(str)) : next \in {Plus64(RotateLeft(h, 9), Word64(Head(str)))}} : TRUE

\* The mix: each step takes what the one before it made.  hash ^= hash ^ y is y.
Turned(h) == RotateRight(Plus64(Not64(h), ShiftLeft(<<0, h[1], h[2], h[3]>>, 2)), 31)
Times21(h) == RotateRight(Plus64(h, Plus64(ShiftLeft(h, 2), ShiftLeft(h, 4))), 11)
Spread(h) == Plus64(h, ShiftLeft(h, 6))
Finished(h) == Plus64(Xor64(h, RotateRight(h, 22)), Seed)
stbds_hash_string(str) ==
    CHOOSE hash \in {Finished(d) : d \in {Spread(c) : c \in {Times21(b) : b \in
                        {Turned(a) : a \in {Xor64(Summed(Seed, str), Seed)}}}}} : TRUE

\* MAP_GET: the bucket of a string.
Buckets == 256
Bucket(str) == stbds_hash_string(str)[1] % Buckets
-----------------------------------------------------------------------------
\* strncmp over the shorter length, which also ends at a zero.
string_eql(a, b) ==
    LET n == IF Len(a) < Len(b) THEN Len(a) ELSE Len(b)
        different == {i \in 1 .. n : a[i] # b[i]}
    IN \A i \in different : \E j \in 1 .. i - 1 : a[j] = 0 /\ b[j] = 0

\* The table is the strings in it with their buckets, the latest first.  What is
\* found for a string is it, or another one.
ll_intern_string(table, str) ==
    LET bucket == Bucket(str)
        found == {i \in DOMAIN table : table[i].bucket = bucket /\ string_eql(table[i].str, str)}
    IN IF found = {} THEN [table |-> <<[bucket |-> bucket, str |-> str]>> \o table, str |-> str]
       ELSE [table |-> table, str |-> table[Min(found)].str]

RECURSIVE Interned(_, _)
Interned(table, strs) ==
    IF strs = <<>> THEN table ELSE Interned(ll_intern_string(table, Head(strs)).table, Tail(strs))
=============================================================================
