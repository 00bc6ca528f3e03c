------------------------ MODULE InstanceTypesProofs ------------------------
(***************************************************************************)
(* What the typer makes of the name of a type: the same each time it is    *)
(* asked, however many types have come in between (ResolvesAgain).         *)
(***************************************************************************)
EXTENDS Instances, TLAPS, WellFoundedInduction, SequenceTheorems

\* All strings: that these four are, the provers do not know.
Words == STRING \union {"*", "NULL", "garbage", "type"}

Types == [base : Words, wraps : Seq(Words)]

\* The wraps of two array types that the typer takes for one.
Alike(v, w) == {v, w} \subseteq Arrays /\ ArrayClass[v] = ArrayClass[w]

\* One array type for each kind and bucket.
KnownTypes(types) ==
    /\ types \subseteq Types
    /\ \A t \in types : Outermost(t) \in Arrays /\ t.base # "NULL"
    /\ \A t, u \in types : Alike(Outermost(t), Outermost(u)) => t = u

BaseOf(name, bound) ==
    IF name.base \in Generics THEN bound[name.base] ELSE [base |-> name.base, wraps |-> <<>>]

Sane(name, bound) ==
    /\ name \in Types /\ BaseOf(name, bound) \in Types
    /\ BaseOf(name, bound).base = "NULL" => name.wraps = <<>>

\* The same, unless what memory happens to hold.
Like(t, u) == t = u \/ t.base = "garbage" \/ u.base = "garbage"
-----------------------------------------------------------------------------
\* A set of natural numbers has a least element.
LEMMA Least ==
    ASSUME NEW S, S \subseteq Nat, S # {}
    PROVE  \E x \in S : \A y \in S : x <= y
<1> DEFINE R == OpToRel(<, Nat)
<1>1. \A x, y \in Nat : <<y, x>> \in R <=> y < x
  BY Zenon DEF OpToRel
<1>2. IsWellFoundedOn(R, Nat)
  BY NatLessThanWellFounded, Zenon
<1> HIDE DEF R
<1>3. PICK x \in S : \A y \in S : ~ (<<y, x>> \in R)
  BY <1>2, WFMin
<1>4. \A y \in S : ~(y < x)
  BY <1>1, <1>3
<1> QED
  BY <1>4

\* Induction up to n.
LEMMA UpTo ==
    ASSUME NEW n \in Nat, NEW S, 0 \in S, \A k \in 0 .. n : k \in S /\ k < n => k + 1 \in S
    PROVE  \A k \in 0 .. n : k \in S
<1> DEFINE Missing == {k \in 0 .. n : k \notin S}
<1> SUFFICES ASSUME Missing # {} PROVE FALSE
  OBVIOUS
<1>1. PICK k \in Missing : \A j \in Missing : k <= j
  <2>1. Missing \subseteq Nat
    OBVIOUS
  <2> HIDE DEF Missing
  <2> QED
    BY <2>1, Least
<1>2. k \in Nat /\ k # 0 /\ k - 1 \in 0 .. n /\ k - 1 < n
  OBVIOUS
<1>3. k - 1 \notin Missing
  BY <1>1, <1>2
<1>4. k - 1 \in S
  BY <1>2, <1>3
<1>5. (k - 1) + 1 \in S
  BY <1>2, <1>4
<1> QED
  BY <1>2, <1>5

\* ... and a greatest one when it has a bound.
LEMMA MaxFacts ==
    ASSUME NEW S, NEW n \in Nat, S \subseteq 1 .. n, S # {}
    PROVE  Max(S) \in S /\ \A y \in S : y <= Max(S)
<1> DEFINE T == {n - y : y \in S}
<1>1. T \subseteq Nat /\ T # {}
  <2>1. \A y \in S : n - y \in Nat /\ n - y \in T
    OBVIOUS
  <2>2. PICK y \in S : TRUE
    OBVIOUS
  <2>3. T \subseteq Nat
    BY <2>1
  <2>4. n - y \in T
    BY <2>1, <2>2
  <2> QED
    BY <2>3, <2>4
<1>2. PICK t \in T : \A u \in T : t <= u
  BY <1>1, Least
<1>3. PICK x \in S : t = n - x
  OBVIOUS
<1>4. \A y \in S : n - y \in T
  OBVIOUS
<1>5. ASSUME NEW y \in S PROVE x >= y
  <2>1. t <= n - y
    BY <1>2, <1>4
  <2>2. x \in Nat /\ y \in Nat
    OBVIOUS
  <2> QED
    BY <1>3, <2>1, <2>2
<1>6. \A m \in S : (\A y \in S : m >= y) => (\A y \in S : y <= m)
  OBVIOUS
<1> QED
  BY <1>5, <1>6 DEF Max
-----------------------------------------------------------------------------
LEMMA WrappedFacts ==
    ASSUME NEW t \in Types, NEW w \in Words
    PROVE  /\ Wrapped(t, w) \in Types /\ Wrapped(t, w).base = t.base
           /\ Wrapped(t, w).wraps = Append(t.wraps, w)
           /\ Wrapped(t, w).wraps # <<>> /\ Outermost(Wrapped(t, w)) = w
<1>1. t.base \in Words /\ t.wraps \in Seq(Words)
  BY DEF Types
<1>2. Append(t.wraps, w) \in Seq(Words) /\ Append(t.wraps, w) # <<>>
      /\ Len(Append(t.wraps, w)) = Len(t.wraps) + 1 /\ Append(t.wraps, w)[Len(t.wraps) + 1] = w
  BY <1>1
<1>3. /\ Wrapped(t, w) \in Types /\ Wrapped(t, w).base = t.base
      /\ Wrapped(t, w).wraps = Append(t.wraps, w)
  BY <1>1, <1>2 DEF Wrapped, Types
<1> QED
  BY <1>2, <1>3 DEF Outermost, Last

\* A type is found or added, and is the one of its bucket then.
LEMMA InternFacts ==
    ASSUME NEW types, KnownTypes(types), NEW t \in Types, t.base # "NULL"
    PROVE  LET r == Intern(types, t)
           IN /\ KnownTypes(r.types) /\ types \subseteq r.types
              /\ r.type \in Types /\ r.type.base # "NULL"
              /\ Outermost(t) \in Arrays => r.type \in r.types /\ Alike(Outermost(t), Outermost(r.type))
              /\ Outermost(t) \notin Arrays => r.type = t /\ r.types = types
<1> DEFINE same == {u \in types : SameType(t, u)}
<1>1. CASE Outermost(t) \in Arrays /\ same # {}
  <2>1. Intern(types, t) = [types |-> types, type |-> CHOOSE u \in same : TRUE]
    BY <1>1 DEF Intern
  <2>2. PICK u : u = CHOOSE v \in same : TRUE
    OBVIOUS
  <2>3. u \in types /\ SameType(t, u)
    BY <1>1, <2>2
  <2>4. Alike(Outermost(t), Outermost(u))
    BY <1>1, <2>3 DEF SameType, Alike
  <2> QED
    BY <1>1, <2>1, <2>2, <2>3, <2>4 DEF KnownTypes
<1>2. CASE Outermost(t) \in Arrays /\ same = {}
  <2>1. Intern(types, t) = [types |-> types \union {t}, type |-> t]
    BY <1>2 DEF Intern
  <2>2. \A u \in types : ~Alike(Outermost(t), Outermost(u)) /\ ~Alike(Outermost(u), Outermost(t))
    BY <1>2 DEF SameType, Alike
  <2>3. KnownTypes(types \union {t})
    BY <1>2, <2>2 DEF KnownTypes
  <2>4. Alike(Outermost(t), Outermost(t))
    BY <1>2 DEF Alike
  <2> QED
    BY <1>2, <2>1, <2>3, <2>4
<1>3. CASE Outermost(t) \notin Arrays
  <2>1. Intern(types, t) = [types |-> types, type |-> t]
    BY <1>3 DEF Intern
  <2> QED
    BY <1>3, <2>1
<1> QED
  BY <1>1, <1>2, <1>3

\* What is there is found, whatever is under its outermost wrap.
LEMMA InternAgain ==
    ASSUME NEW types, KnownTypes(types), NEW t \in types, NEW u \in Types, Alike(Outermost(u), Outermost(t))
    PROVE  Intern(types, u) = [types |-> types, type |-> t]
<1> DEFINE same == {v \in types : SameType(u, v)}
<1>1. Outermost(u) \in Arrays /\ t \in same
  BY DEF KnownTypes, SameType, Alike
<1>2. \A v \in same : v = t
  <2>1. \A v \in same : Alike(Outermost(v), Outermost(t))
    BY DEF SameType, Alike
  <2> QED
    BY <2>1 DEF KnownTypes
<1>3. (CHOOSE v \in same : TRUE) = t
  BY <1>1, <1>2
<1> QED
  BY <1>1, <1>3 DEF Intern
-----------------------------------------------------------------------------
\* The recursion over the wraps of a name ends.
LEMMA ResolvedIs ==
    ASSUME NEW types, NEW name \in Types, NEW bound
    PROVE  LET r == Resolved(types, name, bound)
           IN /\ Len(name.wraps) \in Nat
              /\ r[0] = [types |-> types, type |-> BaseOf(name, bound)]
              /\ \A k \in 1 .. Len(name.wraps) :
                    r[k] = Intern(r[k - 1].types, Wrapped(r[k - 1].type, name.wraps[k]))
<1> DEFINE first == [types |-> types, type |-> BaseOf(name, bound)]
           Step(g, k) == Intern(g.types, Wrapped(g.type, name.wraps[k]))
           Solves(f, m) == f = [k \in 0 .. m |-> IF k = 0 THEN first ELSE Step(f[k - 1], k)]
           n == Len(name.wraps)
           S == {m \in 0 .. n : \E f : Solves(f, m)}
<1>1. n \in Nat
  BY DEF Types
<1>2. 0 \in S
  <2>1. Solves([k \in 0 .. 0 |-> first], 0)
    OBVIOUS
  <2>2. 0 \in 0 .. n
    BY <1>1
  <2> HIDE DEF Solves
  <2> QED
    BY <2>1, <2>2
<1>3. ASSUME NEW m \in 0 .. n, m \in S, m < n PROVE m + 1 \in S
  <2>1. PICK g : Solves(g, m)
    BY <1>3
  <2> DEFINE f == [k \in 0 .. m + 1 |-> IF k = m + 1 THEN Step(g[m], m + 1) ELSE g[k]]
  <2>2. ASSUME NEW k \in 0 .. m + 1
        PROVE  f[k] = IF k = 0 THEN first ELSE Step(f[k - 1], k)
    <3> HIDE DEF Step, first
    <3>1. CASE k = m + 1
      <4>1. f[k - 1] = g[m] /\ k # 0
        BY <1>1, <3>1
      <4> QED
        BY <3>1, <4>1
    <3>2. CASE k # m + 1
      <4>1. k \in 0 .. m
        BY <1>1, <3>2
      <4>2. k # 0 => k - 1 \in 0 .. m + 1 /\ k - 1 # m + 1
        BY <1>1, <4>1
      <4>3. k # 0 => f[k - 1] = g[k - 1]
        BY <4>2
      <4>4. g[k] = IF k = 0 THEN first ELSE Step(g[k - 1], k)
        BY <2>1, <4>1
      <4> QED
        BY <3>2, <4>1, <4>3, <4>4
    <3> QED
      BY <3>1, <3>2
  <2>3. Solves(f, m + 1)
    <3> HIDE DEF Step, first
    <3>1. f = [k \in 0 .. m + 1 |-> f[k]]
      OBVIOUS
    <3> HIDE DEF f
    <3> QED
      BY <2>2, <3>1
  <2>4. m + 1 \in 0 .. n
    BY <1>1, <1>3
  <2> HIDE DEF Solves, f
  <2> QED
    BY <2>3, <2>4
<1>4. n \in S
  <2> HIDE DEF S, n
  <2>1. \A k \in 0 .. n : k \in S /\ k < n => k + 1 \in S
    BY <1>3
  <2>2. \A k \in 0 .. n : k \in S
    BY <1>1, <1>2, <2>1, UpTo
  <2> QED
    BY <1>1, <2>2
<1>5. \E f : Solves(f, n)
  BY <1>4
<1>6. Solves(Resolved(types, name, bound), n)
  BY <1>5 DEF Resolved, BaseOf
<1>7. PICK r : r = Resolved(types, name, bound)
  OBVIOUS
<1>8. \A k \in 0 .. n : r[k] = IF k = 0 THEN first ELSE Step(r[k - 1], k)
  <2> HIDE DEF Step, first, n
  <2> QED
    BY <1>6, <1>7
<1>9. r[0] = first /\ \A k \in 1 .. n : r[k] = Step(r[k - 1], k)
  <2> HIDE DEF Step, first, n
  <2>1. 0 \in 0 .. n /\ \A k \in 1 .. n : k \in 0 .. n /\ k # 0
    BY <1>1
  <2> QED
    BY <1>8, <2>1
<1> QED
  BY <1>1, <1>7, <1>9
\* What comes of a name, with every further wrap.
LEMMA Resolves ==
    ASSUME NEW types, KnownTypes(types), NEW name, NEW bound, Sane(name, bound)
    PROVE  LET r == Resolved(types, name, bound)
           IN \A k \in 0 .. Len(name.wraps) :
                /\ KnownTypes(r[k].types) /\ r[k].type \in Types
                /\ BaseOf(name, bound).base # "NULL" => r[k].type.base # "NULL"
                /\ \A j \in 0 .. k : r[j].types \subseteq r[k].types
<1> DEFINE n == Len(name.wraps)
           Good(r, k) ==
                /\ KnownTypes(r[k].types) /\ r[k].type \in Types
                /\ BaseOf(name, bound).base # "NULL" => r[k].type.base # "NULL"
                /\ \A j \in 0 .. k : r[j].types \subseteq r[k].types
<1>1. PICK r : r = Resolved(types, name, bound)
  OBVIOUS
<1>2. /\ name \in Types /\ name.wraps \in Seq(Words) /\ n \in Nat
      /\ BaseOf(name, bound) \in Types /\ (BaseOf(name, bound).base = "NULL" => n = 0)
  BY DEF Sane, Types
<1>3. /\ r[0] = [types |-> types, type |-> BaseOf(name, bound)]
      /\ \A k \in 1 .. n : r[k] = Intern(r[k - 1].types, Wrapped(r[k - 1].type, name.wraps[k]))
  BY <1>1, <1>2, ResolvedIs
<1> DEFINE S == {k \in 0 .. n : Good(r, k)}
<1>4. 0 \in S
  BY <1>2, <1>3
<1>5. ASSUME NEW k \in 0 .. n, k \in S, k < n PROVE k + 1 \in S
  <2>1. Good(r, k) /\ k \in Nat /\ k + 1 \in 1 .. n /\ k + 1 \in 0 .. n /\ (k + 1) - 1 = k /\ k + 1 # 0
    BY <1>2, <1>5
  <2>2. r[k].type.base # "NULL" /\ BaseOf(name, bound).base # "NULL"
    BY <1>2, <2>1
  <2>3. name.wraps[k + 1] \in Words
    BY <1>2, <2>1
  <2>4. PICK t : t = Wrapped(r[k].type, name.wraps[k + 1])
    OBVIOUS
  <2>5. t \in Types /\ t.base # "NULL" /\ Outermost(t) = name.wraps[k + 1]
    BY <2>1, <2>2, <2>3, <2>4, WrappedFacts
  <2>6. r[k + 1] = Intern(r[k].types, t)
    BY <1>3, <2>1, <2>4
  <2>7. /\ KnownTypes(r[k + 1].types) /\ r[k].types \subseteq r[k + 1].types
        /\ r[k + 1].type \in Types /\ r[k + 1].type.base # "NULL"
    BY <2>1, <2>5, <2>6, InternFacts, SMTT(40)
  <2>8. \A j \in 0 .. k + 1 : r[j].types \subseteq r[k + 1].types
    <3>1. \A j \in 0 .. k + 1 : j \in 0 .. k \/ j = k + 1
      BY <2>1
    <3> QED
      BY <2>1, <2>7, <3>1
  <2> QED
    BY <2>1, <2>7, <2>8
<1>6. \A k \in 0 .. n : k \in S
  <2> HIDE DEF S, n
  <2>1. \A k \in 0 .. n : k \in S /\ k < n => k + 1 \in S
    BY <1>5
  <2> QED
    BY <1>2, <1>4, <2>1, UpTo
<1> QED
  BY <1>1, <1>6

\* The type of a name.
LEMMA TypenameFacts ==
    ASSUME NEW types, KnownTypes(types), NEW name, NEW bound, Sane(name, bound)
    PROVE  LET r == ll_typer_get_type_from_typename(types, name, bound)
           IN /\ KnownTypes(r.types) /\ types \subseteq r.types /\ r.type \in Types
              /\ BaseOf(name, bound).base # "NULL" => r.type.base # "NULL"
              /\ name.wraps = <<>> => r = [types |-> types, type |-> BaseOf(name, bound)]
<1>1. name \in Types /\ name.wraps \in Seq(Words) /\ Len(name.wraps) \in Nat
  BY DEF Sane, Types
<1>2. Resolved(types, name, bound)[0] = [types |-> types, type |-> BaseOf(name, bound)]
  BY <1>1, ResolvedIs
<1>3. 0 \in 0 .. Len(name.wraps) /\ Len(name.wraps) \in 0 .. Len(name.wraps)
  BY <1>1
<1> QED
  BY <1>1, <1>2, <1>3, Resolves DEF ll_typer_get_type_from_typename

\* Asked again later it is the same, unless the generic is garbage.
LEMMA ResolvesAgain ==
    ASSUME NEW types, KnownTypes(types), NEW later, KnownTypes(later), NEW name, NEW bound, NEW other,
           Sane(name, bound), Sane(name, other), Like(BaseOf(name, bound), BaseOf(name, other)),
           ll_typer_get_type_from_typename(types, name, bound).types \subseteq later
    PROVE  LET r == ll_typer_get_type_from_typename(types, name, bound)
               q == ll_typer_get_type_from_typename(later, name, other)
           IN /\ q.types = later /\ Like(r.type, q.type)
              /\ BaseOf(name, bound) = BaseOf(name, other) => r.type = q.type
<1> DEFINE n == Len(name.wraps)
           Good(r, q, k) ==
                /\ q[k].types = later /\ Like(r[k].type, q[k].type)
                /\ BaseOf(name, bound) = BaseOf(name, other) => r[k].type = q[k].type
<1>1. PICK r : r = Resolved(types, name, bound)
  OBVIOUS
<1>2. PICK q : q = Resolved(later, name, other)
  OBVIOUS
<1>3. /\ name \in Types /\ name.wraps \in Seq(Words) /\ n \in Nat
      /\ BaseOf(name, bound).base = "NULL" => n = 0
      /\ BaseOf(name, other).base = "NULL" => n = 0
  BY DEF Sane, Types
<1>4. /\ r[0] = [types |-> types, type |-> BaseOf(name, bound)]
      /\ \A k \in 1 .. n : r[k] = Intern(r[k - 1].types, Wrapped(r[k - 1].type, name.wraps[k]))
  BY <1>1, <1>3, ResolvedIs
<1>5. /\ q[0] = [types |-> later, type |-> BaseOf(name, other)]
      /\ \A k \in 1 .. n : q[k] = Intern(q[k - 1].types, Wrapped(q[k - 1].type, name.wraps[k]))
  BY <1>2, <1>3, ResolvedIs
<1>6. \A k \in 0 .. n :
        /\ KnownTypes(r[k].types) /\ r[k].type \in Types /\ q[k].type \in Types
        /\ r[k].types \subseteq later
        /\ n # 0 => r[k].type.base # "NULL" /\ q[k].type.base # "NULL"
  <2>1. \A k \in 0 .. n : KnownTypes(r[k].types) /\ r[k].type \in Types /\ r[k].types \subseteq r[n].types
                        /\ (n # 0 => r[k].type.base # "NULL")
    <3>1. \A k \in 0 .. n : k \in 0 .. n /\ n \in 0 .. n
      BY <1>3
    <3>2. \A k \in 0 .. n : /\ KnownTypes(r[k].types) /\ r[k].type \in Types
                            /\ BaseOf(name, bound).base # "NULL" => r[k].type.base # "NULL"
                            /\ \A j \in 0 .. k : r[j].types \subseteq r[k].types
      BY <1>1, Resolves, SMTT(40)
    <3> HIDE DEF n
    <3> QED
      BY <1>3, <3>1, <3>2
  <2>2. \A k \in 0 .. n : q[k].type \in Types /\ (n # 0 => q[k].type.base # "NULL")
    <3>1. \A k \in 0 .. n : /\ q[k].type \in Types
                            /\ BaseOf(name, other).base # "NULL" => q[k].type.base # "NULL"
      BY <1>2, Resolves
    <3> HIDE DEF n
    <3> QED
      BY <1>3, <3>1
  <2>3. r[n].types \subseteq later
    BY <1>1 DEF ll_typer_get_type_from_typename
  <2> QED
    BY <2>1, <2>2, <2>3
<1> DEFINE S == {k \in 0 .. n : Good(r, q, k)}
<1>7. 0 \in S
  BY <1>3, <1>4, <1>5
<1>8. ASSUME NEW k \in 0 .. n, k \in S, k < n PROVE k + 1 \in S
  <2>1. Good(r, q, k) /\ k + 1 \in 1 .. n /\ k + 1 \in 0 .. n /\ (k + 1) - 1 = k /\ n # 0
    BY <1>3, <1>8
  <2>2. PICK w : w = name.wraps[k + 1]
    OBVIOUS
  <2>3. w \in Words
    BY <1>3, <2>1, <2>2
  <2>4. PICK t : t = Wrapped(r[k].type, w)
    OBVIOUS
  <2>5. PICK u : u = Wrapped(q[k].type, w)
    OBVIOUS
  <2>6. /\ t \in Types /\ t.base = r[k].type.base /\ t.base # "NULL" /\ Outermost(t) = w
        /\ u \in Types /\ u.base = q[k].type.base /\ u.base # "NULL" /\ Outermost(u) = w
    BY <1>6, <2>1, <2>3, <2>4, <2>5, WrappedFacts
  <2>7. r[k + 1] = Intern(r[k].types, t) /\ q[k + 1] = Intern(later, u)
    BY <1>4, <1>5, <2>1, <2>2, <2>4, <2>5
  <2>8. CASE w \in Arrays
    <3>1. r[k + 1].type \in r[k + 1].types /\ Alike(w, Outermost(r[k + 1].type))
      <4>1. KnownTypes(r[k].types)
        BY <1>6, <2>1
      <4> QED
        BY <2>6, <2>7, <2>8, <4>1, InternFacts, SMTT(40)
    <3>2. r[k + 1].type \in later
      BY <1>6, <2>1, <3>1
    <3>3. q[k + 1] = [types |-> later, type |-> r[k + 1].type]
      BY <2>6, <2>7, <3>1, <3>2, InternAgain
    <3> QED
      BY <2>1, <3>3 DEF Like
  <2>9. CASE w \notin Arrays
    <3>1. r[k + 1].type = t
      BY <1>6, <2>6, <2>7, <2>9, InternFacts
    <3>2. q[k + 1].type = u /\ q[k + 1].types = later
      BY <1>6, <2>6, <2>7, <2>9, InternFacts
    <3>3. Like(t, u) /\ (r[k].type = q[k].type => t = u)
      BY <2>1, <2>4, <2>5, <2>6 DEF Like
    <3> QED
      BY <2>1, <3>1, <3>2, <3>3
  <2> QED
    BY <2>8, <2>9
<1>9. \A k \in 0 .. n : k \in S
  <2> HIDE DEF S, n
  <2>1. \A k \in 0 .. n : k \in S /\ k < n => k + 1 \in S
    BY <1>8
  <2> QED
    BY <1>3, <1>7, <2>1, UpTo
<1>10. n \in 0 .. n
  BY <1>3
<1> QED
  BY <1>1, <1>2, <1>9, <1>10 DEF ll_typer_get_type_from_typename
-----------------------------------------------------------------------------
\* The recursion over names ends, too.
LEMMA InternedIs ==
    ASSUME NEW types, NEW names, names \in Seq(Types), NEW bound
    PROVE  LET r == Interned(types, names, bound)
           IN /\ Len(names) \in Nat
              /\ r[0] = [types |-> types, type |-> Nothing]
              /\ \A k \in 1 .. Len(names) :
                    r[k] = ll_typer_get_type_from_typename(r[k - 1].types, names[k], bound)
<1> DEFINE first == [types |-> types, type |-> Nothing]
           Step(g, k) == ll_typer_get_type_from_typename(g.types, names[k], bound)
           Solves(f, m) == f = [k \in 0 .. m |-> IF k = 0 THEN first ELSE Step(f[k - 1], k)]
           n == Len(names)
           S == {m \in 0 .. n : \E f : Solves(f, m)}
<1>1. n \in Nat
  OBVIOUS
<1>2. 0 \in S
  <2>1. Solves([k \in 0 .. 0 |-> first], 0)
    OBVIOUS
  <2>2. 0 \in 0 .. n
    BY <1>1
  <2> HIDE DEF Solves
  <2> QED
    BY <2>1, <2>2
<1>3. ASSUME NEW m \in 0 .. n, m \in S, m < n PROVE m + 1 \in S
  <2>1. PICK g : Solves(g, m)
    BY <1>3
  <2> DEFINE f == [k \in 0 .. m + 1 |-> IF k = m + 1 THEN Step(g[m], m + 1) ELSE g[k]]
  <2>2. ASSUME NEW k \in 0 .. m + 1
        PROVE  f[k] = IF k = 0 THEN first ELSE Step(f[k - 1], k)
    <3> HIDE DEF Step, first
    <3>1. CASE k = m + 1
      <4>1. f[k - 1] = g[m] /\ k # 0
        BY <1>1, <3>1
      <4> QED
        BY <3>1, <4>1
    <3>2. CASE k # m + 1
      <4>1. k \in 0 .. m
        BY <1>1, <3>2
      <4>2. k # 0 => k - 1 \in 0 .. m + 1 /\ k - 1 # m + 1
        BY <1>1, <4>1
      <4>3. k # 0 => f[k - 1] = g[k - 1]
        BY <4>2
      <4>4. g[k] = IF k = 0 THEN first ELSE Step(g[k - 1], k)
        BY <2>1, <4>1
      <4> QED
        BY <3>2, <4>1, <4>3, <4>4
    <3> QED
      BY <3>1, <3>2
  <2>3. Solves(f, m + 1)
    <3> HIDE DEF Step, first
    <3>1. f = [k \in 0 .. m + 1 |-> f[k]]
      OBVIOUS
    <3> HIDE DEF f
    <3> QED
      BY <2>2, <3>1
  <2>4. m + 1 \in 0 .. n
    BY <1>1, <1>3
  <2> HIDE DEF Solves, f
  <2> QED
    BY <2>3, <2>4
<1>4. n \in S
  <2> HIDE DEF S, n
  <2>1. \A k \in 0 .. n : k \in S /\ k < n => k + 1 \in S
    BY <1>3
  <2>2. \A k \in 0 .. n : k \in S
    BY <1>1, <1>2, <2>1, UpTo
  <2> QED
    BY <1>1, <2>2
<1>5. \E f : Solves(f, n)
  BY <1>4
<1>6. Solves(Interned(types, names, bound), n)
  BY <1>5 DEF Interned
<1>7. PICK r : r = Interned(types, names, bound)
  OBVIOUS
<1>8. \A k \in 0 .. n : r[k] = IF k = 0 THEN first ELSE Step(r[k - 1], k)
  <2> HIDE DEF Step, first, n
  <2> QED
    BY <1>6, <1>7
<1>9. r[0] = first /\ \A k \in 1 .. n : r[k] = Step(r[k - 1], k)
  <2> HIDE DEF Step, first, n
  <2>1. 0 \in 0 .. n /\ \A k \in 1 .. n : k \in 0 .. n /\ k # 0
    BY <1>1
  <2> QED
    BY <1>8, <2>1
<1> QED
  BY <1>1, <1>7, <1>9

\* The types there are after each of the names.
LEMMA InternedGrows ==
    ASSUME NEW types, KnownTypes(types), NEW names, names \in Seq(Types), NEW bound,
           \A k \in DOMAIN names : Sane(names[k], bound)
    PROVE  LET r == Interned(types, names, bound)
           IN \A k \in 0 .. Len(names) :
                /\ KnownTypes(r[k].types)
                /\ \A j \in 0 .. k : r[j].types \subseteq r[k].types
<1> DEFINE n == Len(names)
           Good(r, k) == KnownTypes(r[k].types) /\ \A j \in 0 .. k : r[j].types \subseteq r[k].types
<1>1. PICK r : r = Interned(types, names, bound)
  OBVIOUS
<1>2. n \in Nat /\ DOMAIN names = 1 .. n
  OBVIOUS
<1>3. /\ r[0] = [types |-> types, type |-> Nothing]
      /\ \A k \in 1 .. n : r[k] = ll_typer_get_type_from_typename(r[k - 1].types, names[k], bound)
  BY <1>1, InternedIs
<1> DEFINE S == {k \in 0 .. n : Good(r, k)}
<1>4. 0 \in S
  BY <1>2, <1>3
<1>5. ASSUME NEW k \in 0 .. n, k \in S, k < n PROVE k + 1 \in S
  <2>1. Good(r, k) /\ k \in Nat /\ k + 1 \in 1 .. n /\ k + 1 \in 0 .. n /\ (k + 1) - 1 = k
    BY <1>2, <1>5
  <2>2. Sane(names[k + 1], bound) /\ KnownTypes(r[k].types)
    BY <1>2, <2>1
  <2>3. r[k + 1] = ll_typer_get_type_from_typename(r[k].types, names[k + 1], bound)
    BY <1>3, <2>1
  <2>4. KnownTypes(r[k + 1].types) /\ r[k].types \subseteq r[k + 1].types
    BY <2>2, <2>3, TypenameFacts
  <2>5. \A j \in 0 .. k + 1 : r[j].types \subseteq r[k + 1].types
    <3>1. \A j \in 0 .. k + 1 : j \in 0 .. k \/ j = k + 1
      BY <2>1
    <3> QED
      BY <2>1, <2>4, <3>1
  <2> QED
    BY <2>1, <2>4, <2>5
<1>6. \A k \in 0 .. n : k \in S
  <2> HIDE DEF S, n
  <2>1. \A k \in 0 .. n : k \in S /\ k < n => k + 1 \in S
    BY <1>5
  <2> QED
    BY <1>2, <1>4, <2>1, UpTo
<1> QED
  BY <1>1, <1>6

\* The types of names, and that they stay what they are.
LEMMA TypesOfFacts ==
    ASSUME NEW types, KnownTypes(types), NEW names, names \in Seq(Types), NEW bound,
           \A k \in DOMAIN names : Sane(names[k], bound)
    PROVE  LET r == TypesOf(types, names, bound)
           IN /\ KnownTypes(r.known) /\ types \subseteq r.known
              /\ DOMAIN r.types = DOMAIN names /\ r.types \in Seq(Types) /\ Len(r.types) = Len(names)
              /\ \A k \in DOMAIN names :
                    /\ BaseOf(names[k], bound).base # "NULL" => r.types[k].base # "NULL"
                    /\ names[k].wraps = <<>> => r.types[k] = BaseOf(names[k], bound)
                    /\ \A later, other : 
                          KnownTypes(later) /\ r.known \subseteq later
                          /\ Sane(names[k], other) /\ Like(BaseOf(names[k], bound), BaseOf(names[k], other))
                          => LET q == ll_typer_get_type_from_typename(later, names[k], other)
                             IN /\ q.types = later /\ Like(r.types[k], q.type)
                                /\ BaseOf(names[k], bound) = BaseOf(names[k], other) => q.type = r.types[k]
<1> DEFINE n == Len(names)
<1>1. PICK r : r = Interned(types, names, bound)
  OBVIOUS
<1>2. n \in Nat /\ DOMAIN names = 1 .. n
  OBVIOUS
<1>3. /\ r[0] = [types |-> types, type |-> Nothing]
      /\ \A k \in 1 .. n : r[k] = ll_typer_get_type_from_typename(r[k - 1].types, names[k], bound)
  BY <1>1, InternedIs
<1>4. \A k \in 0 .. n : KnownTypes(r[k].types) /\ \A j \in 0 .. k : r[j].types \subseteq r[k].types
  BY <1>1, InternedGrows
<1>5. /\ TypesOf(types, names, bound).known = r[n].types
      /\ TypesOf(types, names, bound).types = [k \in 1 .. n |-> r[k].type]
  BY <1>1, <1>2 DEF TypesOf
<1>6. KnownTypes(r[n].types) /\ types \subseteq r[n].types
  <2>1. n \in 0 .. n /\ 0 \in 0 .. n
    BY <1>2
  <2>2. r[0].types = types
    BY <1>3
  <2> HIDE DEF n
  <2> QED
    BY <1>4, <2>1, <2>2
<1>7. ASSUME NEW k \in 1 .. n
      PROVE  /\ r[k].type \in Types
             /\ BaseOf(names[k], bound).base # "NULL" => r[k].type.base # "NULL"
             /\ names[k].wraps = <<>> => r[k].type = BaseOf(names[k], bound)
             /\ \A later, other : 
                   KnownTypes(later) /\ r[n].types \subseteq later
                   /\ Sane(names[k], other) /\ Like(BaseOf(names[k], bound), BaseOf(names[k], other))
                   => LET q == ll_typer_get_type_from_typename(later, names[k], other)
                      IN /\ q.types = later /\ Like(r[k].type, q.type)
                         /\ BaseOf(names[k], bound) = BaseOf(names[k], other) => q.type = r[k].type
  <2>1. k \in 0 .. n /\ n \in 0 .. n /\ k - 1 \in 0 .. n /\ k \in DOMAIN names
    BY <1>2
  <2>2. r[k] = ll_typer_get_type_from_typename(r[k - 1].types, names[k], bound)
    BY <1>3
  <2>3. KnownTypes(r[k - 1].types) /\ r[k].types \subseteq r[n].types /\ Sane(names[k], bound)
    <3> HIDE DEF n
    <3> QED
      BY <1>4, <2>1
  <2>4. /\ r[k].type \in Types
        /\ BaseOf(names[k], bound).base # "NULL" => r[k].type.base # "NULL"
        /\ names[k].wraps = <<>> => r[k].type = BaseOf(names[k], bound)
    BY <2>2, <2>3, TypenameFacts
  <2>5. ASSUME NEW later, NEW other, KnownTypes(later), r[n].types \subseteq later,
               Sane(names[k], other), Like(BaseOf(names[k], bound), BaseOf(names[k], other))
        PROVE  LET q == ll_typer_get_type_from_typename(later, names[k], other)
               IN /\ q.types = later /\ Like(r[k].type, q.type)
                  /\ BaseOf(names[k], bound) = BaseOf(names[k], other) => q.type = r[k].type
    <3>1. ll_typer_get_type_from_typename(r[k - 1].types, names[k], bound).types \subseteq later
      BY <2>2, <2>3, <2>5
    <3> QED
      BY <2>2, <2>3, <2>5, <3>1, ResolvesAgain
  <2> QED
    BY <2>4, <2>5
<1>8. [k \in 1 .. n |-> r[k].type] \in Seq(Types) /\ Len([k \in 1 .. n |-> r[k].type]) = n
  BY <1>2, <1>7
<1> HIDE DEF n
<1> QED
  BY <1>2, <1>5, <1>6, <1>7, <1>8

LEMMA TypesOfAgain ==
    ASSUME NEW types, KnownTypes(types), NEW names, names \in Seq(Types), NEW bound,
           \A k \in DOMAIN names : Sane(names[k], bound),
           NEW later, KnownTypes(later), TypesOf(types, names, bound).known \subseteq later, NEW other,
           \A k \in DOMAIN names :
              Sane(names[k], other) /\ Like(BaseOf(names[k], bound), BaseOf(names[k], other))
    PROVE  LET r == TypesOf(types, names, bound)
               q == TypesOf(later, names, other)
           IN /\ q.known = later /\ DOMAIN q.types = DOMAIN names
              /\ \A k \in DOMAIN names :
                    /\ Like(r.types[k], q.types[k])
                    /\ BaseOf(names[k], bound) = BaseOf(names[k], other) => q.types[k] = r.types[k]
<1> DEFINE n == Len(names)
<1>1. PICK r : r = TypesOf(types, names, bound)
  OBVIOUS
<1>2. PICK q : q = Interned(later, names, other)
  OBVIOUS
<1>3. n \in Nat /\ DOMAIN names = 1 .. n
  OBVIOUS
<1>4. /\ q[0] = [types |-> later, type |-> Nothing]
      /\ \A k \in 1 .. n : q[k] = ll_typer_get_type_from_typename(q[k - 1].types, names[k], other)
  BY <1>2, InternedIs
<1>5. ASSUME NEW k \in 1 .. n
      PROVE  LET p == ll_typer_get_type_from_typename(later, names[k], other)
             IN /\ p.types = later /\ Like(r.types[k], p.type)
                /\ BaseOf(names[k], bound) = BaseOf(names[k], other) => p.type = r.types[k]
  BY <1>1, <1>3, TypesOfFacts
<1> DEFINE S == {k \in 0 .. n : q[k].types = later}
<1>6. 0 \in S
  BY <1>3, <1>4
<1>7. ASSUME NEW k \in 0 .. n, k \in S, k < n PROVE k + 1 \in S
  <2>1. q[k].types = later /\ k \in Nat /\ k + 1 \in 1 .. n /\ k + 1 \in 0 .. n /\ (k + 1) - 1 = k
    BY <1>3, <1>7
  <2>2. q[k + 1] = ll_typer_get_type_from_typename(later, names[k + 1], other)
    BY <1>4, <2>1
  <2> QED
    BY <1>5, <2>1, <2>2
<1>8. \A k \in 0 .. n : k \in S
  <2> HIDE DEF S, n
  <2>1. \A k \in 0 .. n : k \in S /\ k < n => k + 1 \in S
    BY <1>7
  <2> QED
    BY <1>3, <1>6, <2>1, UpTo
<1>9. \A k \in 1 .. n :
        /\ Like(r.types[k], q[k].type)
        /\ BaseOf(names[k], bound) = BaseOf(names[k], other) => q[k].type = r.types[k]
  <2>1. \A k \in 1 .. n : k - 1 \in 0 .. n
    BY <1>3
  <2>2. \A k \in 1 .. n : q[k - 1].types = later
    BY <1>8, <2>1
  <2> HIDE DEF n, S
  <2> QED
    BY <1>4, <1>5, <2>2
<1>10. q[n].types = later
  <2>1. n \in 0 .. n
    BY <1>3
  <2> QED
    BY <1>8, <2>1
<1>11. /\ TypesOf(later, names, other).known = q[n].types
       /\ TypesOf(later, names, other).types = [k \in 1 .. n |-> q[k].type]
  BY <1>2, <1>3 DEF TypesOf
<1> HIDE DEF n
<1> QED
  BY <1>1, <1>3, <1>9, <1>10, <1>11
-----------------------------------------------------------------------------
LEMMA NamesAreTypes == Names \subseteq Types
<1> SUFFICES ASSUME NEW name \in Names PROVE name \in Types
  OBVIOUS
<1>1. /\ name = [base |-> name.base, wraps |-> name.wraps]
      /\ name.base \in STRING /\ name.wraps \in Seq(STRING)
  BY DEF Names
<1>2. name.wraps \in Seq(Words)
  BY <1>1 DEF Words
<1> QED
  BY <1>1, <1>2 DEF Types, Words

\* What the generics that the arguments name stand for is no NULL.
Closed(call, bound) ==
    \A i \in DOMAIN call.args :
        LET base == BaseOf(call.args[i].type, bound) IN base \in Types /\ base.base # "NULL"

LEMMA ClosedNames ==
    ASSUME NEW call \in Invokes, NEW bound, Closed(call, bound)
    PROVE  LET names == [i \in ArgsOf(call) |-> call.args[i].type]
           IN /\ names \in Seq(Types) /\ DOMAIN names = ArgsOf(call)
              /\ \A i \in DOMAIN names : Sane(names[i], bound) /\ BaseOf(names[i], bound).base # "NULL"
<1>1. call.args \in Seq(Passed)
  BY DEF Invokes
<1>2. \A i \in DOMAIN call.args : call.args[i].type \in Types
  <2>1. \A i \in DOMAIN call.args : call.args[i] \in Passed
    BY <1>1
  <2>2. \A arg \in Passed : arg.type \in Types
    BY NamesAreTypes DEF Passed
  <2> QED
    BY <2>1, <2>2
<1>3. [i \in ArgsOf(call) |-> call.args[i].type] \in Seq(Types)
  BY <1>1, <1>2 DEF ArgsOf
<1> QED
  BY <1>2, <1>3 DEF ArgsOf, Sane, Closed

LEMMA PointerFacts ==
    ASSUME NEW t \in Types
    PROVE  /\ PointerTo(t) \in Types /\ PointerTo(t).base = t.base
           /\ IsPointer(PointerTo(t))
<1>1. "*" \in Words
  BY DEF Words
<1> QED
  BY <1>1, WrappedFacts DEF PointerTo, IsPointer

\* The types of the arguments.
LEMMA ArgumentFacts ==
    ASSUME NEW types, KnownTypes(types), NEW call \in Invokes, NEW bound, Closed(call, bound)
    PROVE  LET r == ArgumentTypes(types, call, bound)
           IN /\ KnownTypes(r.known) /\ types \subseteq r.known
              /\ DOMAIN r.types = ArgsOf(call)
              /\ \A i \in ArgsOf(call) : r.types[i] \in Types /\ r.types[i].base # "NULL"
<1> DEFINE names == [i \in ArgsOf(call) |-> call.args[i].type]
           found == TypesOf(types, names, bound)
<1>1. /\ names \in Seq(Types) /\ DOMAIN names = ArgsOf(call)
      /\ \A i \in DOMAIN names : Sane(names[i], bound) /\ BaseOf(names[i], bound).base # "NULL"
  BY ClosedNames
<1>2. ArgumentTypes(types, call, bound) =
        [known |-> found.known,
         types |-> [i \in ArgsOf(call) |->
                       IF call.args[i].passes = "address" THEN PointerTo(found.types[i]) ELSE found.types[i]]]
  BY DEF ArgumentTypes
<1> HIDE DEF names
<1>3. /\ KnownTypes(found.known) /\ types \subseteq found.known
      /\ found.types \in Seq(Types) /\ DOMAIN found.types = DOMAIN names
      /\ \A i \in DOMAIN names : found.types[i].base # "NULL"
  BY <1>1, TypesOfFacts
<1>4. \A i \in DOMAIN names : found.types[i] \in Types
  BY <1>3
<1> HIDE DEF found
<1> QED
  BY <1>1, <1>2, <1>3, <1>4, PointerFacts

\* ... and that they are the same later on.
LEMMA ArgumentsAgain ==
    ASSUME NEW types, KnownTypes(types), NEW call \in Invokes, NEW bound, Closed(call, bound),
           NEW later, KnownTypes(later), ArgumentTypes(types, call, bound).known \subseteq later,
           NEW other, Closed(call, other),
           \A i \in ArgsOf(call) : Like(BaseOf(call.args[i].type, bound), BaseOf(call.args[i].type, other))
    PROVE  LET r == ArgumentTypes(types, call, bound)
               q == ArgumentTypes(later, call, other)
           IN /\ q.known = later
              /\ \A i \in ArgsOf(call) : Like(r.types[i], q.types[i])
              /\ bound = other => q.types = r.types
<1> DEFINE names == [i \in ArgsOf(call) |-> call.args[i].type]
           found == TypesOf(types, names, bound)
           again == TypesOf(later, names, other)
<1>1. /\ names \in Seq(Types) /\ DOMAIN names = ArgsOf(call)
      /\ \A i \in DOMAIN names : Sane(names[i], bound) /\ Sane(names[i], other)
  BY ClosedNames
<1>2. \A i \in DOMAIN names : Like(BaseOf(names[i], bound), BaseOf(names[i], other))
  BY <1>1
<1>3. /\ ArgumentTypes(types, call, bound) =
           [known |-> found.known,
            types |-> [i \in ArgsOf(call) |->
                          IF call.args[i].passes = "address" THEN PointerTo(found.types[i]) ELSE found.types[i]]]
      /\ ArgumentTypes(later, call, other) =
           [known |-> again.known,
            types |-> [i \in ArgsOf(call) |->
                          IF call.args[i].passes = "address" THEN PointerTo(again.types[i]) ELSE again.types[i]]]
  BY DEF ArgumentTypes
<1>4. found.known \subseteq later
  BY <1>3
<1> HIDE DEF names
<1>5. /\ again.known = later
      /\ \A i \in DOMAIN names :
            /\ Like(found.types[i], again.types[i])
            /\ BaseOf(names[i], bound) = BaseOf(names[i], other) => again.types[i] = found.types[i]
  BY <1>1, <1>2, <1>4, TypesOfAgain
<1>6. \A i \in DOMAIN names : found.types[i] \in Types /\ again.types[i] \in Types
  <2>1. found.types \in Seq(Types) /\ DOMAIN found.types = DOMAIN names
    BY <1>1, TypesOfFacts
  <2>2. again.types \in Seq(Types) /\ DOMAIN again.types = DOMAIN names
    BY <1>1, TypesOfFacts
  <2> HIDE DEF found, again
  <2> QED
    BY <2>1, <2>2
<1>7. bound = other => \A i \in DOMAIN names : again.types[i] = found.types[i]
  BY <1>5
<1> HIDE DEF found, again
<1>8. \A i \in DOMAIN names : Like(PointerTo(found.types[i]), PointerTo(again.types[i]))
  BY <1>5, <1>6, PointerFacts DEF Like
<1> QED
  BY <1>1, <1>3, <1>5, <1>7, <1>8
-----------------------------------------------------------------------------
\* Only a pointer converts to a pointer, and only the same.
LEMMA CastToPointer ==
    ASSUME NEW from, NEW to, IsPointer(to), can_implicitly_cast(from, to)
    PROVE  from = to
BY DEF IsPointer, Outermost, can_implicitly_cast

\* A type that fits is the parameter's with the generic standing for what is under it.
LEMMA FitsIs ==
    ASSUME NEW name \in Types, NEW t \in Types, Fits(name, t)
    PROVE  /\ Under(name, t) \in Types /\ Under(name, t).base = t.base
           /\ Is(name, Under(name, t), t)
           /\ \E n \in 0 .. Len(t.wraps) : Is(name, [t EXCEPT !.wraps = SubSeq(@, 1, n)], t)
<1> DEFINE w == Len(name.wraps)
           m == Len(t.wraps)
<1>1. /\ t.wraps \in Seq(Words) /\ t.base \in Words /\ name.wraps \in Seq(Words)
      /\ w \in Nat /\ m \in Nat /\ w <= m /\ m - w \in 0 .. m /\ DOMAIN t.wraps = 1 .. m
  BY DEF Types, Fits
<1>2. PICK u : u = SubSeq(t.wraps, 1, m - w)
  OBVIOUS
<1>3. u \in Seq(Words) /\ Len(u) = m - w /\ \A k \in 1 .. m - w : u[k] = t.wraps[k]
  <2>1. /\ u \in Seq(Words) /\ Len(u) = IF 1 <= m - w THEN (m - w) - 1 + 1 ELSE 0
        /\ \A k \in 1 .. (m - w) - 1 + 1 : u[k] = t.wraps[1 + k - 1]
    <3>1. m - w \in Int /\ 1 \in Int /\ \A i \in 1 .. m - w : t.wraps[i] \in Words
      BY <1>1
    <3> HIDE DEF m, w
    <3> QED
      BY <1>2, <3>1, SubSeqProperties
  <2>2. (m - w) - 1 + 1 = m - w /\ \A k \in 1 .. m - w : 1 + k - 1 = k
    BY <1>1
  <2> HIDE DEF m, w
  <2> QED
    BY <1>1, <2>1, <2>2
<1>4. t = [base |-> t.base, wraps |-> t.wraps]
  BY DEF Types
<1>5. /\ Under(name, t) = [base |-> t.base, wraps |-> u]
      /\ [t EXCEPT !.wraps = SubSeq(@, 1, m - w)] = [base |-> t.base, wraps |-> u]
  BY <1>2, <1>4 DEF Under
<1>6. Is(name, [base |-> t.base, wraps |-> u], t)
  <2>1. Len(t.wraps) = Len(u) + w
    BY <1>1, <1>3
  <2>2. \A k \in 1 .. w :
           \/ t.wraps[m - w + k] = name.wraps[k]
           \/ name.wraps[k] = Count /\ t.wraps[m - w + k] \in Arrays \ {"[:]"}
    BY DEF Fits
  <2>3. ASSUME NEW k \in 1 .. m, ~(k <= m - w)
        PROVE t.wraps[k] = name.wraps[k - (m - w)] \/ (name.wraps[k - (m - w)] = Count /\ t.wraps[k] \in Arrays \ {"[:]"})
    <3> HIDE DEF m, w
    <3>1. k - (m - w) \in 1 .. w /\ m - w + (k - (m - w)) = k
      BY <1>1, <2>3
    <3> QED
      BY <2>2, <3>1
  <2>4. PICK r : r = [base |-> t.base, wraps |-> u]
    OBVIOUS
  <2>5. r.base = t.base /\ r.wraps = u
    BY <2>4
  <2>6. \A k \in 1 .. m :
           IF k <= m - w THEN t.wraps[k] = u[k]
           ELSE t.wraps[k] = name.wraps[k - (m - w)] \/ (name.wraps[k - (m - w)] = Count /\ t.wraps[k] \in Arrays \ {"[:]"})
    <3>1. \A k \in 1 .. m : k <= m - w => k \in 1 .. m - w
      BY <1>1
    <3> HIDE DEF m, w
    <3> QED
      BY <1>3, <2>3, <3>1
  <2>7. Is(name, r, t)
    BY <1>1, <1>3, <2>1, <2>5, <2>6 DEF Is
  <2> QED
    BY <2>4, <2>7
<1>7. [base |-> t.base, wraps |-> u] \in Types
  BY <1>1, <1>3 DEF Types
<1> QED
  BY <1>1, <1>5, <1>6, <1>7

LEMMA IsFits ==
    ASSUME NEW name \in Types, NEW t \in Types, NEW n \in 0 .. Len(t.wraps),
           Is(name, [t EXCEPT !.wraps = SubSeq(@, 1, n)], t)
    PROVE  Fits(name, t)
<1> DEFINE w == Len(name.wraps)
           m == Len(t.wraps)
<1>1. /\ t.wraps \in Seq(Words) /\ t.base \in Words /\ name.wraps \in Seq(Words)
      /\ w \in Nat /\ m \in Nat /\ DOMAIN t.wraps = 1 .. m /\ n \in Nat
  BY DEF Types
<1>2. PICK u : u = SubSeq(t.wraps, 1, n)
  OBVIOUS
<1>3. Len(u) = n /\ [t EXCEPT !.wraps = SubSeq(@, 1, n)] = [base |-> t.base, wraps |-> u]
  <2>1. Len(u) = IF 1 <= n THEN n - 1 + 1 ELSE 0
    <3>1. n \in Int /\ 1 \in Int /\ \A i \in 1 .. n : t.wraps[i] \in Words
      BY <1>1
    <3> QED
      BY <1>2, <3>1, SubSeqProperties
  <2>2. t = [base |-> t.base, wraps |-> t.wraps]
    BY DEF Types
  <2>3. [t EXCEPT !.wraps = SubSeq(@, 1, n)] = [base |-> t.base, wraps |-> u]
    <3> HIDE DEF m, w
    <3>1. [t EXCEPT !.wraps = SubSeq(@, 1, n)] = [t EXCEPT !.wraps = u]
      BY <1>2
    <3>2. PICK ws : ws = t.wraps
      OBVIOUS
    <3>3. PICK b : b = t.base
      OBVIOUS
    <3>4. t = [base |-> b, wraps |-> ws]
      BY <2>2, <3>2, <3>3
    <3> QED
      BY <3>1, <3>3, <3>4
  <2> QED
    BY <1>1, <2>1, <2>3
<1>4. /\ m = n + w
      /\ \A k \in 1 .. m : ~(k <= n) =>
            t.wraps[k] = name.wraps[k - n] \/ (name.wraps[k - n] = Count /\ t.wraps[k] \in Arrays \ {"[:]"})
  BY <1>1, <1>3 DEF Is
<1>5. ASSUME NEW k \in 1 .. w
      PROVE  \/ t.wraps[m - w + k] = name.wraps[k]
             \/ name.wraps[k] = Count /\ t.wraps[m - w + k] \in Arrays \ {"[:]"}
  <2> HIDE DEF m, w
  <2>0. m - w = n
    BY <1>1, <1>4
  <2>1. m - w + k \in 1 .. m /\ ~(m - w + k <= n) /\ (m - w + k) - n = k
    BY <1>1, <2>0, SMTT(40)
  <2> QED
    BY <1>4, <2>1
<1> QED
  BY <1>1, <1>4, <1>5 DEF Fits

\* What fits a pointer parameter is a pointer.
LEMMA FitsPointer ==
    ASSUME NEW name \in Names, IsPointer(name), NEW t \in Types, Fits(name, t)
    PROVE  IsPointer(t)
<1> DEFINE w == Len(name.wraps)
           m == Len(t.wraps)
<1>1. /\ t.wraps \in Seq(Words) /\ name.wraps \in Seq(Words) /\ name.base # "*"
      /\ w \in Nat /\ m \in Nat /\ w <= m
  <2>1. name \in Types /\ name.base # "*"
    BY NamesAreTypes DEF Names
  <2> QED
    BY <2>1 DEF Types, Fits
<1>2. name.wraps # <<>> /\ w >= 1 /\ name.wraps[w] = "*"
  BY <1>1 DEF IsPointer, Outermost, Last
<1>3. m - w + w = m /\ w \in 1 .. w
  BY <1>1, <1>2
<1>4. t.wraps[m] = name.wraps[w]
  <2>1. Count # "*"
    BY WrapAssumption
  <2>2. \A k \in 1 .. w : t.wraps[m - w + k] = name.wraps[k] \/ name.wraps[k] = Count
    BY DEF Fits
  <2>3. t.wraps[m - w + w] = name.wraps[w] \/ name.wraps[w] = Count
    BY <1>3, <2>2
  <2> HIDE DEF m, w
  <2> QED
    BY <1>2, <1>3, <2>1, <2>3
<1>5. t.wraps # <<>>
  BY <1>1, <1>2
<1> QED
  BY <1>2, <1>4, <1>5 DEF IsPointer, Outermost, Last
-----------------------------------------------------------------------------
\* The recursion over the arguments ends.
LEMMA TargetsIs ==
    ASSUME NEW call \in Invokes
    PROVE  LET t == Targets(call)
           IN \A i \in ArgsOf(call) :
                 /\ call.args[i].key # 0 => t[i] = call.args[i].key
                 /\ call.args[i].key = 0 => t[i] = IF i = 1 THEN 1 ELSE t[i - 1] + 1
<1> DEFINE n == Len(call.args)
           Rule(f, i) == CASE call.args[i].key # 0 -> call.args[i].key
                           [] call.args[i].key = 0 /\ i = 1 -> 1
                           [] OTHER -> f[i - 1] + 1
           Solves(f, m) == f = [i \in 1 .. m |-> Rule(f, i)]
           S == {m \in 0 .. n : \E f : Solves(f, m)}
<1>1. n \in Nat /\ ArgsOf(call) = 1 .. n
  BY DEF Invokes, ArgsOf
<1>2. 0 \in S
  <2>1. Solves([i \in 1 .. 0 |-> 0], 0)
    <3>1. 1 .. 0 = {}
      OBVIOUS
    <3> HIDE DEF Rule
    <3> QED
      BY <3>1
  <2>2. 0 \in 0 .. n
    BY <1>1
  <2> HIDE DEF Solves
  <2> QED
    BY <2>1, <2>2
<1>3. ASSUME NEW m \in 0 .. n, m \in S, m < n PROVE m + 1 \in S
  <2>1. PICK g : Solves(g, m)
    BY <1>3
  <2> DEFINE f == [i \in 1 .. m + 1 |-> IF i = m + 1 THEN Rule(g, m + 1) ELSE g[i]]
  <2>2. ASSUME NEW i \in 1 .. m + 1 PROVE f[i] = Rule(f, i)
    <3>1. i = 1 \/ (i - 1 \in 1 .. m + 1 /\ i - 1 # m + 1)
      BY <1>1
    <3>2. i = 1 \/ f[i - 1] = g[i - 1]
      BY <3>1
    <3>3. Rule(f, i) = Rule(g, i)
      BY <3>2
    <3>4. CASE i = m + 1
      BY <3>3, <3>4
    <3>5. CASE i # m + 1
      <4>1. i \in 1 .. m
        BY <1>1, <3>5
      <4> HIDE DEF Rule
      <4>2. g[i] = Rule(g, i)
        BY <2>1, <4>1
      <4> QED
        BY <3>3, <3>5, <4>2
    <3> QED
      BY <3>4, <3>5
  <2>3. Solves(f, m + 1)
    <3> HIDE DEF Rule
    <3>1. f = [i \in 1 .. m + 1 |-> f[i]]
      OBVIOUS
    <3> HIDE DEF f
    <3> QED
      BY <2>2, <3>1
  <2>4. m + 1 \in 0 .. n
    BY <1>1, <1>3
  <2> HIDE DEF Solves, f
  <2> QED
    BY <2>3, <2>4
<1>4. n \in S
  <2> HIDE DEF S, n
  <2>1. \A k \in 0 .. n : k \in S /\ k < n => k + 1 \in S
    BY <1>3
  <2>2. \A k \in 0 .. n : k \in S
    BY <1>1, <1>2, <2>1, UpTo
  <2> QED
    BY <1>1, <2>2
<1>5. \E f : Solves(f, n)
  BY <1>4
<1>6. Solves(Targets(call), n)
  <2>1. \E f : f = [i \in ArgsOf(call) |-> Rule(f, i)]
    BY <1>1, <1>5
  <2>2. Targets(call) = CHOOSE f : f = [i \in ArgsOf(call) |-> Rule(f, i)]
    BY DEF Targets
  <2>3. Targets(call) = [i \in ArgsOf(call) |-> Rule(Targets(call), i)]
    <3> HIDE DEF Rule
    <3> QED
      BY <2>1, <2>2
  <2> QED
    BY <1>1, <2>3
<1>7. PICK t : t = Targets(call)
  OBVIOUS
<1>8. \A i \in 1 .. n : t[i] = Rule(t, i)
  <2> HIDE DEF Rule, n
  <2> QED
    BY <1>6, <1>7
<1> HIDE DEF n
<1> QED
  BY <1>1, <1>7, <1>8

\* Each argument has a parameter, and the way there is the only one.
LEMMA TargetsFacts ==
    ASSUME NEW call \in Invokes
    PROVE  /\ \A i \in ArgsOf(call) : Targets(call)[i] \in Nat \ {0}
           /\ \A place :
                 (\A i \in ArgsOf(call) :
                     /\ call.args[i].key # 0 => place[i] = call.args[i].key
                     /\ call.args[i].key = 0 => place[i] = IF i = 1 THEN 1 ELSE place[i - 1] + 1)
                 => \A i \in ArgsOf(call) : Targets(call)[i] = place[i]
<1> DEFINE n == Len(call.args)
<1>1. PICK t : t = Targets(call)
  OBVIOUS
<1>2. /\ n \in Nat /\ ArgsOf(call) = 1 .. n
      /\ \A i \in 1 .. n : call.args[i] \in Passed
  BY DEF Invokes, ArgsOf
<1>3. \A i \in 1 .. n : call.args[i].key \in Nat
  BY <1>2 DEF Passed
<1>4. \A i \in 1 .. n :
         /\ call.args[i].key # 0 => t[i] = call.args[i].key
         /\ call.args[i].key = 0 => t[i] = IF i = 1 THEN 1 ELSE t[i - 1] + 1
  BY <1>1, <1>2, TargetsIs
<1>5. \A i \in 1 .. n : t[i] \in Nat \ {0}
  <2> DEFINE S == {m \in 0 .. n : m = 0 \/ t[m] \in Nat \ {0}}
  <2>1. 0 \in S
    BY <1>2
  <2>2. ASSUME NEW m \in 0 .. n, m \in S, m < n PROVE m + 1 \in S
    <3>1. m + 1 \in 1 .. n /\ m + 1 \in 0 .. n /\ (m + 1) - 1 = m /\ (m + 1 = 1 <=> m = 0)
      BY <1>2, <2>2
    <3>2. call.args[m + 1].key = 0 => t[m + 1] = IF m = 0 THEN 1 ELSE t[m] + 1
      BY <1>4, <3>1
    <3>3. t[m + 1] \in Nat \ {0}
      BY <1>3, <1>4, <2>2, <3>1, <3>2
    <3> QED
      BY <3>1, <3>3
  <2>3. \A m \in 0 .. n : m \in S
    <3> HIDE DEF S, n
    <3>1. \A m \in 0 .. n : m \in S /\ m < n => m + 1 \in S
      BY <2>2
    <3> QED
      BY <1>2, <2>1, <3>1, UpTo
  <2> QED
    BY <1>2, <2>3
<1>6. ASSUME NEW place,
             \A i \in 1 .. n :
                /\ call.args[i].key # 0 => place[i] = call.args[i].key
                /\ call.args[i].key = 0 => place[i] = IF i = 1 THEN 1 ELSE place[i - 1] + 1
      PROVE  \A i \in 1 .. n : t[i] = place[i]
  <2> DEFINE S == {m \in 0 .. n : m = 0 \/ t[m] = place[m]}
  <2>1. 0 \in S
    BY <1>2
  <2>2. ASSUME NEW m \in 0 .. n, m \in S, m < n PROVE m + 1 \in S
    <3>1. m + 1 \in 1 .. n /\ m + 1 \in 0 .. n /\ (m + 1) - 1 = m /\ (m + 1 = 1 <=> m = 0)
      BY <1>2, <2>2
    <3>2. t[m + 1] = place[m + 1]
      BY <1>4, <1>6, <2>2, <3>1
    <3> QED
      BY <3>1, <3>2
  <2>3. \A m \in 0 .. n : m \in S
    <3> HIDE DEF S, n
    <3>1. \A m \in 0 .. n : m \in S /\ m < n => m + 1 \in S
      BY <2>2
    <3> QED
      BY <1>2, <2>1, <3>1, UpTo
  <2> QED
    BY <1>2, <2>3
<1> QED
  BY <1>1, <1>2, <1>5, <1>6
=============================================================================
