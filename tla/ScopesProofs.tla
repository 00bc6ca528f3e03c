----------------------------- MODULE ScopesProofs -----------------------------
(***************************************************************************)
(* The scope tree, for every program: the walk over hash buckets finds     *)
(* what block structure says, a construct is left for where it was         *)
(* entered, and a break or return refers to a construct being typed.       *)
(* Three invariants carry it: a scope comes after its parent (Tree), a     *)
(* bucket has the children of its scope, newest first (Hung), and a frame  *)
(* of the typer stands on the one below it (Frames).                       *)
(***************************************************************************)
EXTENDS Scopes, TLAPS, WellFoundedInduction, FiniteSetTheorems

Here(frame) == IF frame.construct = "bare block" THEN frame.saved ELSE frame.scope

ScopeRecord == [kind : Kinds, parent : Nat, ident : Names \union {NoName}]

\* Scopes come after their parents; the package has none.
Tree ==
    /\ scopes \in Seq(ScopeRecord)
    /\ Len(scopes) >= 1 /\ Len(scopes) <= MaxScopes
    /\ Kind(Package) = "PACKAGE" /\ Parent(Package) = NullScope /\ Ident(Package) = NoName
    /\ \A s \in DOMAIN scopes : s # Package =>
        /\ Kind(s) # "PACKAGE" /\ Parent(s) >= 1 /\ Parent(s) < s
        /\ Kind(s) = "MACRO_EXPANSION" => Kind(Parent(s)) = "BLOCK"

\* Scope c hangs in the i-th place of bucket h of scope s.
Hangs(c, s, h) ==
    c \in DOMAIN scopes /\ Parent(c) = s /\ (Ident(c) # NoName => NameBucket[Ident(c)] = h)

Bucketed(c) == \E i \in DOMAIN children[Parent(c)][NameBucket[Ident(c)]] :
    children[Parent(c)][NameBucket[Ident(c)]][i] = c

\* Buckets have the children of their scope, newest first, and every named one.
Hung ==
    /\ children \in Seq([Buckets -> Seq(Nat)]) /\ Len(children) = Len(scopes)
    /\ \A s \in DOMAIN scopes, h \in Buckets :
        /\ \A i, k \in DOMAIN children[s][h] : i < k => children[s][h][i] > children[s][h][k]
        /\ \A i \in DOMAIN children[s][h] : Hangs(children[s][h][i], s, h)
    /\ \A c \in DOMAIN scopes : Ident(c) # NoName => Bucketed(c)

\* The kind of scope a construct is typed in.
Opens(construct, kind) ==
    \/ construct = "initializer" /\ kind \in {"LOCAL", "FIELD"}
    \/ construct = "block" /\ kind = "BLOCK_VALUE"
    \/ construct = "loop" /\ kind = "LOOP"
    \/ construct = "struct" /\ kind = "STRUCT"
    \/ construct \in {"signature", "function"} /\ kind = "FUNCTION"
    \/ construct = "arguments" /\ kind = "BLOCK"
    \/ construct = "expansion" /\ kind = "MACRO_EXPANSION"

Constructs == {"package", "bare block", "initializer", "block", "loop", "struct", "signature",
               "function", "arguments", "expansion"}

Frame == [construct : Constructs, scope : Nat, saved : Nat]

PackageFrame == [construct |-> "package", scope |-> Package, saved |-> Package]

\* A frame in a tree of scopes: its scope is of its kind and, unless it is an
\* instance of a function, inside the scope the frame saved.
Stands(tree, frame) ==
    /\ frame.saved \in DOMAIN tree
    /\ \/ /\ frame.construct = "bare block" /\ frame.scope = NullScope
          /\ tree[frame.saved].kind \in {"LOOP", "PACKAGE"}
       \/ /\ frame.scope \in DOMAIN tree /\ Opens(frame.construct, tree[frame.scope].kind)
          /\ IF frame.construct = "expansion"
             THEN /\ tree[frame.scope].parent \in DOMAIN tree
                  /\ tree[tree[frame.scope].parent].parent = frame.saved
             ELSE \/ tree[frame.scope].parent = frame.saved
                  \/ tree[frame.scope].kind = "FUNCTION" /\ tree[frame.scope].ident = NoName

\* Each frame was entered from where the one below it is.
Nested(tree, frames) ==
    /\ frames \in Seq(Frame) /\ Len(frames) >= 1 /\ frames[1] = PackageFrame
    /\ \A i \in DOMAIN frames : i # 1 =>
        Stands(tree, frames[i]) /\ frames[i].saved = Here(frames[i - 1])

Frames == Nested(scopes, open) /\ current = Here(open[Len(open)])

Inv == Tree /\ Hung /\ Frames
-----------------------------------------------------------------------------
\* A set of natural numbers has a least element.
LEMMA Least ==
    ASSUME NEW S, S \subseteq Nat, S # {}
    PROVE  \E x \in S : \A y \in S : x <= y
<1> DEFINE R == OpToRel(<, Nat)
<1>1. \A x, y \in Nat : <<y, x>> \in R <=> y < x
  BY Zenon DEF OpToRel
<1>2. IsWellFoundedOn(R, Nat)
  BY NatLessThanWellFounded, Zenon
<1> HIDE DEF R
<1>3. PICK x \in S : \A y \in S : ~ (<<y, x>> \in R)
  BY <1>2, WFMin
<1>4. \A y \in S : ~(y < x)
  BY <1>1, <1>3
<1> QED
  BY <1>4

LEMMA MinFacts ==
    ASSUME NEW S, S \subseteq Nat, S # {}
    PROVE  Min(S) \in S /\ \A y \in S : Min(S) <= y
BY Least DEF Min

\* And a greatest one, when it has a bound.
LEMMA MaxFacts ==
    ASSUME NEW S, NEW n \in Nat, S \subseteq 0 .. n, S # {}
    PROVE  Max(S) \in S /\ \A y \in S : y <= Max(S)
<1> DEFINE T == {n - y : y \in S}
<1>1. T \subseteq Nat /\ T # {}
  <2>1. \A y \in S : n - y \in Nat /\ n - y \in T
    OBVIOUS
  <2>2. PICK y \in S : TRUE
    OBVIOUS
  <2>3. T \subseteq Nat
    BY <2>1
  <2>4. n - y \in T
    BY <2>1, <2>2
  <2> QED
    BY <2>3, <2>4
<1>2. PICK t \in T : \A u \in T : t <= u
  BY <1>1, Least
<1>3. PICK x \in S : t = n - x
  OBVIOUS
<1>4. \A y \in S : n - y \in T
  OBVIOUS
<1>5. \A y \in S : x >= y
  BY <1>2, <1>3, <1>4
<1>6. \A m \in S : (\A y \in S : m >= y) => (\A y \in S : y <= m)
  OBVIOUS
<1> QED
  BY <1>5, <1>6 DEF Max
-----------------------------------------------------------------------------
\* The types of what the scopes are read for.
LEMMA TreeFacts ==
    ASSUME Tree
    PROVE  /\ DOMAIN scopes = 1 .. Len(scopes) /\ Len(scopes) \in Nat
           /\ Package \in DOMAIN scopes /\ MaxScopes \in Nat
           /\ \A s \in DOMAIN scopes :
                /\ s \in Nat /\ Kind(s) \in Kinds /\ Parent(s) \in Nat /\ Ident(s) \in Names \union {NoName}
                /\ s # Package => Parent(s) \in DOMAIN scopes /\ Parent(s) < s
                /\ Kind(s) = "PACKAGE" => s = Package
                /\ s # Crash
<1>1. scopes \in Seq(ScopeRecord) /\ Len(scopes) >= 1 /\ Len(scopes) <= MaxScopes
  BY DEF Tree
<1>2. DOMAIN scopes = 1 .. Len(scopes) /\ Len(scopes) \in Nat
  BY <1>1
<1>3. Package \in DOMAIN scopes /\ MaxScopes \in Nat
  BY <1>1, <1>2, BoundAssumption DEF Package
<1>4. ASSUME NEW s \in DOMAIN scopes
      PROVE  /\ s \in Nat /\ Kind(s) \in Kinds /\ Parent(s) \in Nat /\ Ident(s) \in Names \union {NoName}
             /\ s # Package => Parent(s) \in DOMAIN scopes /\ Parent(s) < s
             /\ Kind(s) = "PACKAGE" => s = Package
             /\ s # Crash
  <2>1. scopes[s] \in ScopeRecord
    BY <1>1, <1>2
  <2>2. Kind(s) \in Kinds /\ Parent(s) \in Nat /\ Ident(s) \in Names \union {NoName}
    BY <2>1 DEF ScopeRecord, Kind, Parent, Ident
  <2>3. s # Package => Parent(s) >= 1 /\ Parent(s) < s /\ Kind(s) # "PACKAGE"
    BY DEF Tree
  <2>4. s # Crash
    BY <1>1, <1>2, <1>3 DEF Crash
  <2> QED
    BY <1>2, <2>2, <2>3, <2>4
<1> QED
  BY <1>2, <1>3, <1>4

ChainUpTo(f, n) == f = [s \in 0 .. n |-> IF s = NullScope THEN <<>> ELSE <<s>> \o f[Parent(s)]]

\* The recursion that walks up from a scope ends, so Chain is what it says it is.
LEMMA ChainIs ==
    ASSUME Tree
    PROVE  /\ Chain[NullScope] = <<>>
           /\ \A s \in DOMAIN scopes : Chain[s] = <<s>> \o Chain[Parent(s)]
<1>t. /\ DOMAIN scopes = 1 .. Len(scopes) /\ Len(scopes) \in Nat
      /\ \A s \in DOMAIN scopes : Parent(s) \in Nat /\ Parent(s) < s
  BY TreeFacts DEF Tree, NullScope
<1> DEFINE Missing == {n \in 0 .. Len(scopes) : ~ \E f : ChainUpTo(f, n)}
<1>1. Missing = {}
  <2> SUFFICES ASSUME Missing # {} PROVE FALSE
    OBVIOUS
  <2>1. PICK n \in Missing : \A m \in Missing : n <= m
    <3>1. Missing \subseteq Nat
      BY <1>t
    <3> HIDE DEF Missing
    <3> QED
      BY <3>1, Least
  <2>2. n \in Nat /\ n <= Len(scopes) /\ ~ \E f : ChainUpTo(f, n)
    BY <1>t
  <2>3. CASE n = 0
    <3>1. ChainUpTo([s \in 0 .. 0 |-> <<>>], 0)
      BY DEF ChainUpTo, NullScope
    <3> QED
      BY <2>2, <2>3, <3>1
  <2>4. CASE n # 0
    <3>1. n - 1 \notin Missing /\ n - 1 \in 0 .. Len(scopes)
      BY <1>t, <2>1, <2>2, <2>4
    <3>2. PICK g : ChainUpTo(g, n - 1)
      BY <3>1
    <3> DEFINE f == [s \in 0 .. n |-> IF s = n THEN <<n>> \o g[Parent(n)] ELSE g[s]]
    <3>3. ASSUME NEW s \in 0 .. n
          PROVE  f[s] = IF s = NullScope THEN <<>> ELSE <<s>> \o f[Parent(s)]
      <4>1. CASE s = n
        <5>1. n \in DOMAIN scopes
          BY <1>t, <2>2, <2>4
        <5>2. Parent(n) \in 0 .. n /\ Parent(n) # n
          BY <1>t, <2>2, <5>1
        <5>3. f[Parent(n)] = g[Parent(n)]
          BY <5>2
        <5>4. f[n] = <<n>> \o g[Parent(n)]
          BY <2>2
        <5> QED
          BY <2>4, <4>1, <5>3, <5>4 DEF NullScope
      <4>2. CASE s # n
        <5>1. s \in 0 .. n - 1 /\ f[s] = g[s]
          BY <2>2, <4>2
        <5>2. g[s] = IF s = NullScope THEN <<>> ELSE <<s>> \o g[Parent(s)]
          BY <3>2, <5>1 DEF ChainUpTo
        <5>3. CASE s = NullScope
          BY <5>1, <5>2, <5>3
        <5>4. CASE s # NullScope
          <6>1. s \in DOMAIN scopes
            BY <1>t, <2>2, <5>1, <5>4 DEF NullScope
          <6>2. Parent(s) \in 0 .. n /\ Parent(s) # n
            BY <1>t, <2>2, <5>1, <6>1
          <6>3. f[Parent(s)] = g[Parent(s)]
            BY <6>2
          <6> QED
            BY <5>1, <5>2, <5>4, <6>3
        <5> QED
          BY <5>3, <5>4
      <4> QED
        BY <4>1, <4>2
    <3>4. f = [s \in 0 .. n |-> f[s]]
      OBVIOUS
    <3> HIDE DEF f
    <3>5. ChainUpTo(f, n)
      BY <3>3, <3>4 DEF ChainUpTo
    <3> QED
      BY <2>2, <3>5
  <2> QED
    BY <2>3, <2>4
<1>2. \E f : ChainUpTo(f, Len(scopes))
  BY <1>1, <1>t
<1>3. ChainUpTo(Chain, Len(scopes))
  BY <1>2 DEF ChainUpTo, Chain
<1>4. \A s \in 0 .. Len(scopes) : Chain[s] = IF s = NullScope THEN <<>> ELSE <<s>> \o Chain[Parent(s)]
  BY <1>3 DEF ChainUpTo
<1>5. Chain[NullScope] = <<>>
  <2>1. NullScope \in 0 .. Len(scopes)
    BY <1>t DEF NullScope
  <2> QED
    BY <1>4, <2>1
<1>6. ASSUME NEW s \in DOMAIN scopes
      PROVE  Chain[s] = <<s>> \o Chain[Parent(s)]
  <2>1. s \in 0 .. Len(scopes) /\ s # NullScope
    BY <1>t DEF NullScope
  <2> QED
    BY <1>4, <2>1
<1> QED
  BY <1>5, <1>6

\* A chain goes from a scope to its parent and ends in the package.
Climbs(chain, s) ==
    /\ chain \in Seq(DOMAIN scopes) /\ Len(chain) >= 1
    /\ chain[1] = s /\ chain[Len(chain)] = Package
    /\ \A i \in DOMAIN chain : i + 1 \in DOMAIN chain => chain[i + 1] = Parent(chain[i])

LEMMA ChainClimbs ==
    ASSUME Tree, NEW s \in DOMAIN scopes
    PROVE  Climbs(Chain[s], s)
<1>t. /\ DOMAIN scopes = 1 .. Len(scopes) /\ Len(scopes) \in Nat /\ Package \in DOMAIN scopes
      /\ \A c \in DOMAIN scopes : c \in Nat /\ (c # Package => Parent(c) \in DOMAIN scopes /\ Parent(c) < c)
  BY TreeFacts
<1> DEFINE Bad == {c \in DOMAIN scopes : ~Climbs(Chain[c], c)}
<1>1. Bad = {}
  <2> SUFFICES ASSUME Bad # {} PROVE FALSE
    OBVIOUS
  <2>1. PICK c \in Bad : \A d \in Bad : c <= d
    <3>1. Bad \subseteq Nat
      BY <1>t
    <3> QED
      BY <3>1, Least
  <2>2. c \in DOMAIN scopes /\ ~Climbs(Chain[c], c)
    OBVIOUS
  <2>3. CASE c = Package
    <3>1. Chain[c] = <<c>> \o <<>>
      BY <2>2, <2>3, ChainIs DEF Tree
    <3>2. Chain[c] = <<c>>
      BY <3>1
    <3>3. Climbs(<<c>>, c)
      BY <2>2, <2>3 DEF Climbs
    <3> QED
      BY <2>2, <3>2, <3>3
  <2>4. CASE c # Package
    <3>1. PICK p \in DOMAIN scopes : p = Parent(c) /\ p < c
      BY <1>t, <2>2, <2>4
    <3>2. Climbs(Chain[p], p)
      BY <1>t, <2>1, <3>1
    <3>3. PICK t : t = Chain[p]
      OBVIOUS
    <3>4. Chain[c] = <<c>> \o t
      BY <2>2, <3>1, <3>3, ChainIs
    <3>5. /\ t \in Seq(DOMAIN scopes) /\ Len(t) >= 1 /\ t[1] = p /\ t[Len(t)] = Package
          /\ \A i \in DOMAIN t : i + 1 \in DOMAIN t => t[i + 1] = Parent(t[i])
      BY <3>2, <3>3 DEF Climbs
    <3>6. PICK u : u = <<c>> \o t
      OBVIOUS
    <3>7. /\ u \in Seq(DOMAIN scopes) /\ Len(u) = Len(t) + 1 /\ Len(t) \in Nat /\ u[1] = c
          /\ \A i \in 1 .. Len(t) : u[i + 1] = t[i]
          /\ DOMAIN u = 1 .. Len(u) /\ DOMAIN t = 1 .. Len(t)
      BY <2>2, <3>5, <3>6
    <3>8. ASSUME NEW i \in DOMAIN u, i + 1 \in DOMAIN u PROVE u[i + 1] = Parent(u[i])
      <4>1. CASE i = 1
        BY <3>1, <3>5, <3>7, <4>1
      <4>2. CASE i # 1
        <5>1. PICK k \in 1 .. Len(t) : k + 1 = i /\ k + 1 \in 1 .. Len(t)
          <6>1. i - 1 \in 1 .. Len(t) /\ i \in 1 .. Len(t) /\ (i - 1) + 1 = i
            BY <3>7, <3>8, <4>2
          <6> QED
            BY <6>1
        <5>2. u[i] = t[k] /\ u[i + 1] = t[k + 1]
          BY <3>7, <5>1
        <5> QED
          BY <3>5, <3>7, <5>1, <5>2
      <4> QED
        BY <4>1, <4>2
    <3>9. u[Len(u)] = Package
      BY <3>5, <3>7
    <3>10. Climbs(u, c)
      BY <3>7, <3>8, <3>9 DEF Climbs
    <3> QED
      BY <2>2, <3>4, <3>6, <3>10
  <2> QED
    BY <2>3, <2>4
<1> QED
  BY <1>1
-----------------------------------------------------------------------------
\* The scopes a step starts with are the same after it.
Keeps == \A s \in DOMAIN scopes : s \in DOMAIN scopes' /\ scopes'[s] = scopes[s]

\* A declaration: the tree and the buckets stay what they are.
LEMMA Puts ==
    ASSUME Tree, Hung, NEW parent \in DOMAIN scopes, NEW kind \in Kinds \ {"PACKAGE"},
           NEW ident \in Names \union {NoName}, kind = "MACRO_EXPANSION" => Kind(parent) = "BLOCK",
           PutUnder(parent, kind, ident)
    PROVE  /\ Tree' /\ Hung' /\ Keeps /\ NewScope \in DOMAIN scopes'
           /\ scopes'[NewScope] = [kind |-> kind, parent |-> parent, ident |-> ident]
<1>t. /\ DOMAIN scopes = 1 .. Len(scopes) /\ Len(scopes) \in Nat /\ MaxScopes \in Nat /\ Package \in DOMAIN scopes
      /\ \A c \in DOMAIN scopes : c \in Nat /\ (c # Package => Parent(c) \in DOMAIN scopes)
  BY TreeFacts
<1> DEFINE r == [kind |-> kind, parent |-> parent, ident |-> ident]
<1>1. scopes' = Append(scopes, r) /\ Len(scopes) < MaxScopes
  BY DEF PutUnder
<1>2. r \in ScopeRecord
  BY <1>t DEF ScopeRecord
<1>r. r.kind = kind /\ r.parent = parent /\ r.ident = ident
  OBVIOUS
<1> HIDE DEF r
<1>3. /\ scopes' \in Seq(ScopeRecord) /\ Len(scopes') = Len(scopes) + 1
      /\ DOMAIN scopes' = 1 .. Len(scopes) + 1 /\ scopes'[Len(scopes) + 1] = r
      /\ \A s \in 1 .. Len(scopes) : scopes'[s] = scopes[s]
  BY <1>1, <1>2 DEF Tree
<1>4. Keeps
  BY <1>t, <1>3 DEF Keeps
<1>5. NewScope = Len(scopes) + 1 /\ NewScope \in DOMAIN scopes'
  BY <1>t, <1>3 DEF NewScope
<1>6. Tree'
  <2>1. (Kind(Package) = "PACKAGE" /\ Parent(Package) = NullScope /\ Ident(Package) = NoName)'
    BY <1>t, <1>3 DEF Tree, Kind, Parent, Ident, Package
  <2>2. ASSUME NEW s \in DOMAIN scopes', s # Package
        PROVE  (/\ Kind(s) # "PACKAGE" /\ Parent(s) >= 1 /\ Parent(s) < s
                /\ Kind(s) = "MACRO_EXPANSION" => Kind(Parent(s)) = "BLOCK")'
    <3>1. CASE s \in DOMAIN scopes
      <4>1. /\ Kind(s) # "PACKAGE" /\ Parent(s) >= 1 /\ Parent(s) < s
            /\ Kind(s) = "MACRO_EXPANSION" => Kind(Parent(s)) = "BLOCK"
        BY <2>2, <3>1 DEF Tree
      <4>2. Parent(s) \in DOMAIN scopes
        BY <1>t, <2>2, <3>1
      <4> QED
        BY <1>3, <1>t, <3>1, <4>1, <4>2 DEF Kind, Parent
    <3>2. CASE s = Len(scopes) + 1
      <4>1. scopes'[s] = r /\ scopes'[parent] = scopes[parent]
        BY <1>3, <1>t, <3>2
      <4>2. parent >= 1 /\ parent < s
        BY <1>t, <3>2
      <4> QED
        BY <1>r, <4>1, <4>2 DEF Kind, Parent
    <3> QED
      BY <1>3, <1>t, <3>1, <3>2
  <2>3. Len(scopes') >= 1 /\ Len(scopes') <= MaxScopes
    BY <1>t, <1>1, <1>3
  <2> QED
    BY <1>3, <2>1, <2>2, <2>3 DEF Tree, Package
<1>7. Hung'
  <2> DEFINE empty == [b \in Buckets |-> <<>>]
  <2>1. PICK h : children' = Append([children EXCEPT ![parent][h] = Linked(@, NewScope)], empty)
                 /\ (ident # NoName => h = NameBucket[ident])
    BY DEF PutUnder
  <2>2. children \in Seq([Buckets -> Seq(Nat)]) /\ Len(children) = Len(scopes)
        /\ DOMAIN children = 1 .. Len(scopes)
    BY <1>t DEF Hung
  <2>3. PICK linked : linked = [children EXCEPT ![parent][h] = Linked(@, NewScope)]
    OBVIOUS
  <2>4. children[parent] \in [Buckets -> Seq(Nat)]
    BY <1>t, <2>2
  <2>5. [children[parent] EXCEPT ![h] = Linked(@, NewScope)] \in [Buckets -> Seq(Nat)]
    <3>1. h \in Buckets => children[parent][h] \in Seq(Nat)
      BY <2>4
    <3>2. h \in Buckets => Linked(children[parent][h], NewScope) \in Seq(Nat)
      BY <1>t, <1>5, <3>1 DEF Linked
    <3> QED
      BY <2>4, <3>2
  <2>6. linked \in Seq([Buckets -> Seq(Nat)]) /\ Len(linked) = Len(scopes)
    BY <2>2, <2>3, <2>5
  <2>7. empty \in [Buckets -> Seq(Nat)]
    OBVIOUS
  <2>8. /\ children' \in Seq([Buckets -> Seq(Nat)]) /\ Len(children') = Len(scopes')
        /\ children'[Len(scopes) + 1] = empty
        /\ \A s \in DOMAIN scopes : children'[s] = linked[s]
    BY <1>t, <1>3, <2>1, <2>3, <2>6, <2>7
  <2>9. ASSUME NEW s \in DOMAIN scopes, NEW b \in Buckets
        PROVE  /\ children[s][b] \in Seq(Nat)
               /\ s = parent /\ b = h => children'[s][b] = <<NewScope>> \o children[s][b]
               /\ ~(s = parent /\ b = h) => children'[s][b] = children[s][b]
    <3>1. children[s] \in [Buckets -> Seq(Nat)]
      BY <1>t, <2>2
    <3>2. CASE s = parent
      <4>1. linked[s] = [children[s] EXCEPT ![h] = Linked(@, NewScope)]
        BY <1>t, <2>2, <2>3, <3>2
      <4>2. children'[s] = [children[s] EXCEPT ![h] = Linked(@, NewScope)]
        BY <2>8, <4>1
      <4>3. b = h => children'[s][b] = Linked(children[s][b], NewScope)
        BY <3>1, <4>2
      <4>4. b # h => children'[s][b] = children[s][b]
        BY <3>1, <4>2
      <4> QED
        BY <3>1, <3>2, <4>3, <4>4 DEF Linked
    <3>3. CASE s # parent
      <4>1. children'[s] = children[s]
        BY <1>t, <2>2, <2>3, <2>8, <3>3
      <4> QED
        BY <3>1, <3>3, <4>1
    <3> QED
      BY <3>2, <3>3
  <2>10. ASSUME NEW s \in DOMAIN scopes', NEW b \in Buckets
         PROVE  /\ \A i, k \in DOMAIN children'[s][b] : i < k => children'[s][b][i] > children'[s][b][k]
                /\ \A i \in DOMAIN children'[s][b] :
                     /\ children'[s][b][i] \in DOMAIN scopes' /\ scopes'[children'[s][b][i]].parent = s
                     /\ scopes'[children'[s][b][i]].ident # NoName => NameBucket[scopes'[children'[s][b][i]].ident] = b
    <3>1. CASE s = Len(scopes) + 1
      <4>1. children'[s][b] = <<>>
        BY <2>8, <3>1
      <4> QED
        BY <4>1
    <3>2. CASE s \in DOMAIN scopes
      <4>1. PICK old \in Seq(Nat) : old = children[s][b]
        BY <2>9, <3>2
      <4>2. /\ \A i, k \in DOMAIN old : i < k => old[i] > old[k]
            /\ \A i \in DOMAIN old : Hangs(old[i], s, b)
        BY <3>2, <4>1 DEF Hung
      <4>3. \A i \in DOMAIN old : /\ old[i] \in DOMAIN scopes' /\ old[i] < NewScope /\ scopes'[old[i]].parent = s
                                  /\ scopes'[old[i]].ident # NoName => NameBucket[scopes'[old[i]].ident] = b
        BY <1>t, <1>3, <1>5, <4>2 DEF Hangs, Parent, Ident
      <4>4. CASE s = parent /\ b = h
        <5>1. PICK new : new = <<NewScope>> \o old
          OBVIOUS
        <5>2. children'[s][b] = new
          BY <2>9, <3>2, <4>1, <4>4, <5>1
        <5>3. /\ DOMAIN new = 1 .. Len(old) + 1 /\ new[1] = NewScope /\ Len(old) \in Nat /\ DOMAIN old = 1 .. Len(old)
              /\ \A i \in DOMAIN new : i # 1 => (i - 1 \in DOMAIN old /\ new[i] = old[i - 1])
          BY <5>1
        <5>4. ASSUME NEW i \in DOMAIN new, NEW k \in DOMAIN new, i < k PROVE new[i] > new[k]
          <6>1. k # 1 /\ k - 1 \in DOMAIN old /\ new[k] = old[k - 1]
            BY <5>3, <5>4
          <6>2. CASE i = 1
            <7>1. old[k - 1] < NewScope /\ old[k - 1] \in Nat
              BY <4>1, <4>3, <6>1
            <7> QED
              BY <1>t, <1>5, <5>3, <6>1, <6>2, <7>1
          <6>3. CASE i # 1
            <7>1. i - 1 \in DOMAIN old /\ new[i] = old[i - 1] /\ i - 1 < k - 1
              BY <5>3, <5>4, <6>3
            <7> QED
              BY <4>2, <6>1, <7>1
          <6> QED
            BY <6>2, <6>3
        <5>5. ASSUME NEW i \in DOMAIN new
              PROVE  /\ new[i] \in DOMAIN scopes' /\ scopes'[new[i]].parent = s
                     /\ scopes'[new[i]].ident # NoName => NameBucket[scopes'[new[i]].ident] = b
          <6>1. CASE i = 1
            BY <1>3, <1>5, <1>r, <2>1, <4>4, <5>3, <6>1
          <6>2. CASE i # 1
            BY <4>3, <5>3, <6>2
          <6> QED
            BY <6>1, <6>2
        <5> QED
          BY <5>2, <5>4, <5>5
      <4>5. CASE ~(s = parent /\ b = h)
        BY <2>9, <3>2, <4>1, <4>2, <4>3, <4>5
      <4> QED
        BY <4>4, <4>5
    <3> QED
      BY <1>t, <1>3, <3>1, <3>2
  <2>11. ASSUME NEW c \in DOMAIN scopes', scopes'[c].ident # NoName
         PROVE  \E i \in DOMAIN children'[scopes'[c].parent][NameBucket[scopes'[c].ident]] :
                    children'[scopes'[c].parent][NameBucket[scopes'[c].ident]][i] = c
    <3>1. CASE c \in DOMAIN scopes
      <4>1. scopes'[c] = scopes[c]
        BY <1>4, <3>1 DEF Keeps
      <4>2. PICK s : s = Parent(c)
        OBVIOUS
      <4>3. PICK b : b = NameBucket[Ident(c)]
        OBVIOUS
      <4>4. \E i \in DOMAIN children[s][b] : children[s][b][i] = c
        BY <2>11, <3>1, <4>1, <4>2, <4>3 DEF Hung, Bucketed, Ident
      <4>5. s \in DOMAIN scopes
        BY <1>t, <2>11, <3>1, <4>1, <4>2 DEF Tree, Ident
      <4>6. b \in Buckets
        <5>1. Ident(c) \in Names
          BY <2>11, <3>1, <4>1, TreeFacts DEF Ident
        <5> QED
          BY <4>3, <5>1 DEF Buckets
      <4>7. PICK i \in DOMAIN children[s][b] : children[s][b][i] = c
        BY <4>4
      <4>8. \E j \in DOMAIN children'[s][b] : children'[s][b][j] = c
        <5>1. CASE s = parent /\ b = h
          <6>1. children[s][b] \in Seq(Nat) /\ children'[s][b] = <<NewScope>> \o children[s][b]
            BY <2>9, <4>5, <4>6, <5>1
          <6>2. i + 1 \in DOMAIN children'[s][b] /\ children'[s][b][i + 1] = children[s][b][i]
            <7>1. PICK old \in Seq(Nat) : old = children[s][b]
              BY <6>1
            <7>2. i \in 1 .. Len(old) /\ Len(old) \in Nat
              BY <4>7, <7>1
            <7>3. PICK new : new = <<NewScope>> \o old
              OBVIOUS
            <7>4. i + 1 \in DOMAIN new /\ new[i + 1] = old[i]
              BY <7>2, <7>3
            <7> QED
              BY <6>1, <7>1, <7>3, <7>4
          <6> QED
            BY <4>7, <6>2
        <5>2. CASE ~(s = parent /\ b = h)
          BY <2>9, <4>5, <4>6, <4>7, <5>2
        <5> QED
          BY <5>1, <5>2
      <4> QED
        BY <4>1, <4>2, <4>3, <4>8 DEF Parent, Ident
    <3>2. CASE c = Len(scopes) + 1
      <4>1. scopes'[c].parent = parent /\ scopes'[c].ident = ident /\ ident # NoName /\ c = NewScope
        BY <1>3, <1>5, <1>r, <2>11, <3>2
      <4>2. h = NameBucket[ident] /\ h \in Buckets
        BY <2>1, <4>1 DEF Buckets
      <4>3. children[parent][h] \in Seq(Nat) /\ children'[parent][h] = <<NewScope>> \o children[parent][h]
        BY <2>9, <4>2
      <4>4. 1 \in DOMAIN children'[parent][h] /\ children'[parent][h][1] = NewScope
        BY <4>3
      <4> QED
        BY <4>1, <4>2, <4>4
    <3> QED
      BY <1>t, <1>3, <3>1, <3>2
  <2> QED
    BY <2>8, <2>10, <2>11 DEF Hung, Hangs, Bucketed, Parent, Ident
<1> QED
  BY <1>1, <1>3, <1>4, <1>5, <1>6, <1>7 DEF r
-----------------------------------------------------------------------------
\* What a scope's own buckets say of a name: its newest declaration there.
LEMMA Gets ==
    ASSUME Tree, Hung, NEW s \in DOMAIN scopes, NEW name \in Names
    PROVE  /\ ll_scope_get(s, name) = NullScope => Declared(s, name) = {}
           /\ ll_scope_get(s, name) = Crash => AnonymousInBucket(s, name)
           /\ ll_scope_get(s, name) \notin {NullScope, Crash} =>
                /\ ll_scope_get(s, name) \in Declared(s, name)
                /\ \A d \in Declared(s, name) : d <= ll_scope_get(s, name)
<1>t. /\ DOMAIN scopes = 1 .. Len(scopes) /\ Len(scopes) \in Nat
      /\ \A c \in DOMAIN scopes : c \in Nat /\ c # Crash /\ c # NullScope
  BY TreeFacts DEF NullScope
<1>1. PICK h : h = NameBucket[name] /\ h \in Buckets
  BY DEF Buckets
<1>2. PICK bucket \in Seq(Nat) : bucket = children[s][h]
  BY <1>t, <1>1 DEF Hung
<1>3. /\ \A i, k \in DOMAIN bucket : i < k => bucket[i] > bucket[k]
      /\ \A i \in DOMAIN bucket : Hangs(bucket[i], s, h)
  BY <1>1, <1>2 DEF Hung
<1> DEFINE I == {i \in 1 .. Len(bucket) : Ident(bucket[i]) = NoName \/ string_eql(Ident(bucket[i]), name)}
<1>4. PICK stop : stop = IF I # {} THEN Min(I) ELSE 0
  OBVIOUS
<1>5. ll_scope_get(s, name) = IF stop = 0 THEN NullScope
                              ELSE IF Ident(bucket[stop]) = NoName THEN Crash ELSE bucket[stop]
  BY <1>1, <1>2, <1>4 DEF ll_scope_get, SelectInSeq
<1>6. ASSUME NEW d \in Declared(s, name)
      PROVE  \E i \in I : bucket[i] = d
  <2>1. d \in DOMAIN scopes /\ Parent(d) = s /\ Ident(d) # NoName /\ NameBucket[Ident(d)] = h
        /\ string_eql(Ident(d), name)
    BY <1>1 DEF Declared, SameSymbol
  <2>2. \E i \in DOMAIN children[Parent(d)][NameBucket[Ident(d)]] : children[Parent(d)][NameBucket[Ident(d)]][i] = d
    BY <2>1 DEF Hung, Bucketed
  <2>3. PICK i \in DOMAIN bucket : bucket[i] = d
    BY <1>2, <2>1, <2>2
  <2>4. i \in I
    BY <1>2, <2>1, <2>3
  <2> QED
    BY <2>3, <2>4
<1>7. CASE I = {}
  <2>1. stop = 0 /\ Declared(s, name) = {}
    BY <1>4, <1>6, <1>7
  <2> QED
    BY <1>5, <2>1, <1>t, BoundAssumption DEF NullScope, Crash
<1>8. CASE I # {}
  <2>1. stop \in I /\ \A i \in I : stop <= i
    <3>1. I \subseteq Nat
      OBVIOUS
    <3>2. stop = Min(I)
      BY <1>4, <1>8
    <3> HIDE DEF I
    <3> QED
      BY <1>8, <3>1, <3>2, MinFacts
  <2>2. stop \in DOMAIN bucket /\ stop \in Nat /\ stop # 0
    BY <1>2, <2>1
  <2>3. PICK c \in DOMAIN scopes : c = bucket[stop] /\ Parent(c) = s /\ (Ident(c) # NoName => NameBucket[Ident(c)] = h)
    BY <1>3, <2>2 DEF Hangs
  <2>4. CASE Ident(c) = NoName
    <3>1. ll_scope_get(s, name) = Crash
      BY <1>5, <2>2, <2>3, <2>4
    <3>2. c \in ToSet(children[s][NameBucket[name]])
      BY <1>1, <1>2, <2>2, <2>3 DEF ToSet
    <3>3. AnonymousInBucket(s, name)
      BY <2>3, <2>4, <3>2 DEF AnonymousInBucket
    <3>4. NullScope # Crash
      BY BoundAssumption DEF NullScope, Crash
    <3> QED
      BY <3>1, <3>3, <3>4
  <2>5. CASE Ident(c) # NoName
    <3>1. ll_scope_get(s, name) = c
      BY <1>5, <2>2, <2>3, <2>5
    <3>2. name # NoName /\ string_eql(Ident(c), name)
      BY <2>1, <2>3, <2>5, NameAssumption
    <3>3. c \in Declared(s, name)
      BY <1>1, <2>3, <2>5, <3>2 DEF Declared, SameSymbol
    <3>4. ASSUME NEW d \in Declared(s, name) PROVE d <= c
      <4>1. PICK i \in I : bucket[i] = d
        BY <1>6
      <4>2. stop = i \/ bucket[stop] > bucket[i]
        BY <1>2, <1>3, <2>1, <2>2, <4>1
      <4>3. d \in Nat /\ c \in Nat
        BY <1>t, <2>3, <4>1, <1>2
      <4> QED
        BY <2>3, <4>1, <4>2, <4>3
    <3> QED
      BY <1>t, <2>3, <3>1, <3>3, <3>4
  <2> QED
    BY <2>4, <2>5
<1> QED
  BY <1>7, <1>8

\* What a walk along a chain comes to: what the first of the scopes it searches
\* has of the name.
Walked(chain, name, expansion, found) ==
    \/ /\ found = NullScope
       /\ \A i \in DOMAIN chain : Searches(chain, i, expansion) => ll_scope_get(chain[i], name) = NullScope
    \/ \E i \in DOMAIN chain :
         /\ Searches(chain, i, expansion)
         /\ found = ll_scope_get(chain[i], name) /\ found # NullScope
         /\ \A j \in 1 .. i - 1 : Searches(chain, j, expansion) => ll_scope_get(chain[j], name) = NullScope

LEMMA Finds ==
    ASSUME NEW from, NEW name, NEW expansion, NEW chain, chain = Chain[from],
           chain \in Seq(DOMAIN scopes)
    PROVE  Walked(chain, name, expansion, FindFrom(from, name, expansion))
<1> DEFINE Result(i) == IF Searches(chain, i, expansion) THEN ll_scope_get(chain[i], name) ELSE NullScope
<1>1. PICK results : results = [i \in DOMAIN chain |-> Result(i)]
  OBVIOUS
<1>2. DOMAIN chain = 1 .. Len(chain) /\ Len(chain) \in Nat
  OBVIOUS
<1>3. Len(results) = Len(chain) /\ \A i \in DOMAIN chain : results[i] = Result(i)
  <2>1. \A i \in DOMAIN chain : results[i] = Result(i)
    BY <1>1
  <2>2. DOMAIN results = 1 .. Len(chain)
    BY <1>1, <1>2
  <2>3. results \in Seq({Result(i) : i \in DOMAIN chain})
    <3> HIDE DEF Result
    <3> QED
      BY <1>1, <1>2, <2>1, <2>2
  <2> QED
    BY <1>2, <2>1, <2>2, <2>3
<1> DEFINE I == {i \in 1 .. Len(results) : results[i] # NullScope}
<1>4. PICK hit : hit = IF I # {} THEN Min(I) ELSE 0
  OBVIOUS
<1>5. FindFrom(from, name, expansion) = IF hit = 0 THEN NullScope ELSE results[hit]
  BY <1>1, <1>4 DEF FindFrom, SelectInSeq
<1>6. CASE I = {}
  <2>1. hit = 0 /\ \A i \in DOMAIN chain : Result(i) = NullScope
    BY <1>2, <1>3, <1>4, <1>6
  <2> QED
    BY <1>5, <2>1 DEF Walked
<1>7. CASE I # {}
  <2>1. hit \in I /\ \A i \in I : hit <= i
    <3>1. I \subseteq Nat
      BY <1>2, <1>3
    <3>2. hit = Min(I)
      BY <1>4, <1>7
    <3> HIDE DEF I
    <3> QED
      BY <1>7, <3>1, <3>2, MinFacts
  <2>2. hit \in DOMAIN chain /\ hit # 0 /\ hit \in Nat /\ results[hit] # NullScope
    BY <1>2, <1>3, <2>1
  <2>3. Searches(chain, hit, expansion) /\ results[hit] = ll_scope_get(chain[hit], name)
    BY <1>3, <2>2
  <2>4. ASSUME NEW j \in 1 .. hit - 1, Searches(chain, j, expansion) PROVE ll_scope_get(chain[j], name) = NullScope
    <3>1. j \in DOMAIN chain /\ j < hit /\ j \in Nat
      BY <1>2, <2>2
    <3>2. j \notin I
      BY <2>1, <2>2, <3>1
    <3>3. results[j] = NullScope
      BY <1>2, <1>3, <3>1, <3>2
    <3> QED
      BY <1>3, <2>4, <3>1, <3>3
  <2> QED
    BY <1>5, <2>2, <2>3, <2>4 DEF Walked
<1> QED
  BY <1>6, <1>7
-----------------------------------------------------------------------------
\* Where a frame is, it is in the tree.
LEMMA StandsHere ==
    ASSUME NEW frame, Stands(scopes, frame)
    PROVE  Here(frame) \in DOMAIN scopes /\ frame.saved \in DOMAIN scopes
BY DEF Stands, Here

LEMMA NestedFacts ==
    ASSUME Inv
    PROVE  /\ current \in DOMAIN scopes /\ Top = open[Len(open)] /\ Top \in Frame
           /\ Len(open) \in Nat /\ DOMAIN open = 1 .. Len(open) /\ open \in Seq(Frame)
           /\ Top.construct # "package" =>
                 Len(open) > 1 /\ Stands(scopes, Top) /\ Top.saved = Here(open[Len(open) - 1])
           /\ Len(open) > 1 => Stands(scopes, Top) /\ Top.saved = Here(open[Len(open) - 1])
           /\ \A i \in DOMAIN open : Here(open[i]) \in DOMAIN scopes /\ open[i].saved \in DOMAIN scopes
<1>1. /\ open \in Seq(Frame) /\ Len(open) >= 1 /\ open[1] = PackageFrame
      /\ \A i \in DOMAIN open : i # 1 => Stands(scopes, open[i]) /\ open[i].saved = Here(open[i - 1])
      /\ current = Here(open[Len(open)])
  BY DEF Inv, Frames, Nested
<1>2. Top = open[Len(open)] /\ Len(open) \in Nat /\ DOMAIN open = 1 .. Len(open) /\ Top \in Frame
  BY <1>1 DEF Top, Last
<1>3. Package \in DOMAIN scopes
  BY TreeFacts DEF Inv
<1>4. ASSUME NEW i \in DOMAIN open
      PROVE  Here(open[i]) \in DOMAIN scopes /\ open[i].saved \in DOMAIN scopes
  <2>1. CASE i = 1
    <3>1. open[i] = PackageFrame
      BY <1>1, <2>1
    <3>2. Here(PackageFrame) = Package /\ PackageFrame.saved = Package
      BY DEF PackageFrame, Here
    <3> QED
      BY <1>3, <3>1, <3>2
  <2>2. CASE i # 1
    <3>1. Stands(scopes, open[i])
      BY <1>1, <2>2
    <3> QED
      BY <3>1, StandsHere
  <2> QED
    BY <2>1, <2>2
<1>5. Top.construct # "package" => Len(open) > 1
  BY <1>1, <1>2 DEF PackageFrame
<1> QED
  BY <1>1, <1>2, <1>4, <1>5

\* What is known of a frame stays so while scopes are added.
LEMMA StandsStill ==
    ASSUME Tree, Keeps, NEW frame \in Frame, Stands(scopes, frame)
    PROVE  Stands(scopes', frame)
<1>1. \A s \in DOMAIN scopes : s \in DOMAIN scopes' /\ scopes'[s] = scopes[s]
  BY DEF Keeps
<1> QED
  BY <1>1 DEF Stands

LEMMA NestedStill ==
    ASSUME Tree, Keeps, Nested(scopes, open)
    PROVE  Nested(scopes', open)
<1>1. \A i \in DOMAIN open : open[i] \in Frame
  BY DEF Nested
<1>2. \A i \in DOMAIN open : i # 1 => Stands(scopes', open[i])
  BY <1>1, StandsStill DEF Nested
<1> QED
  BY <1>2 DEF Nested

\* Entering a construct, whatever the tree.
LEMMA Pushed ==
    ASSUME NEW tree, NEW frames, Nested(tree, frames), NEW frame \in Frame, Stands(tree, frame),
           frame.saved = Here(frames[Len(frames)])
    PROVE  /\ Nested(tree, Append(frames, frame))
           /\ Append(frames, frame)[Len(Append(frames, frame))] = frame
<1>1. /\ frames \in Seq(Frame) /\ Len(frames) >= 1 /\ frames[1] = PackageFrame
      /\ \A i \in DOMAIN frames : i # 1 => Stands(tree, frames[i]) /\ frames[i].saved = Here(frames[i - 1])
  BY DEF Nested
<1>2. PICK new : new = Append(frames, frame)
  OBVIOUS
<1>3. /\ new \in Seq(Frame) /\ Len(new) = Len(frames) + 1 /\ new[Len(frames) + 1] = frame
      /\ DOMAIN new = 1 .. Len(frames) + 1 /\ DOMAIN frames = 1 .. Len(frames) /\ Len(frames) \in Nat
      /\ \A i \in DOMAIN frames : new[i] = frames[i]
  BY <1>1, <1>2
<1>4. ASSUME NEW i \in DOMAIN new, i # 1
      PROVE  Stands(tree, new[i]) /\ new[i].saved = Here(new[i - 1])
  <2>1. i - 1 \in DOMAIN frames /\ new[i - 1] = frames[i - 1]
    BY <1>3, <1>4
  <2>2. CASE i \in DOMAIN frames
    BY <1>1, <1>3, <1>4, <2>1, <2>2
  <2>3. CASE i = Len(frames) + 1
    BY <1>3, <2>1, <2>3
  <2> QED
    BY <1>3, <2>2, <2>3
<1>5. new[1] = PackageFrame
  BY <1>1, <1>3
<1> QED
  BY <1>1, <1>2, <1>3, <1>4, <1>5 DEF Nested

\* Changing the innermost frame for another that stands in the same place.
LEMMA Replaced ==
    ASSUME NEW tree, NEW frames, Nested(tree, frames), Len(frames) > 1,
           NEW frame \in Frame, Stands(tree, frame), frame.saved = frames[Len(frames)].saved
    PROVE  /\ Nested(tree, [frames EXCEPT ![Len(frames)] = frame])
           /\ Len([frames EXCEPT ![Len(frames)] = frame]) = Len(frames)
           /\ [frames EXCEPT ![Len(frames)] = frame][Len(frames)] = frame
<1>1. /\ frames \in Seq(Frame) /\ Len(frames) >= 1 /\ frames[1] = PackageFrame
      /\ \A i \in DOMAIN frames : i # 1 => Stands(tree, frames[i]) /\ frames[i].saved = Here(frames[i - 1])
  BY DEF Nested
<1>2. PICK new : new = [frames EXCEPT ![Len(frames)] = frame]
  OBVIOUS
<1>3. /\ new \in Seq(Frame) /\ Len(new) = Len(frames) /\ new[Len(frames)] = frame
      /\ DOMAIN new = 1 .. Len(frames) /\ DOMAIN frames = 1 .. Len(frames) /\ Len(frames) \in Nat
      /\ \A i \in DOMAIN frames : i # Len(frames) => new[i] = frames[i]
  BY <1>1, <1>2
<1>4. ASSUME NEW i \in DOMAIN new, i # 1
      PROVE  Stands(tree, new[i]) /\ new[i].saved = Here(new[i - 1])
  <2>1. i - 1 \in DOMAIN frames /\ new[i - 1] = frames[i - 1]
    BY <1>3, <1>4
  <2>2. CASE i # Len(frames)
    BY <1>1, <1>3, <1>4, <2>1, <2>2
  <2>3. CASE i = Len(frames)
    BY <1>1, <1>3, <1>4, <2>1, <2>3
  <2> QED
    BY <2>2, <2>3
<1>5. new[1] = PackageFrame
  BY <1>1, <1>3
<1> QED
  BY <1>1, <1>2, <1>3, <1>4, <1>5 DEF Nested

\* Leaving a construct.
LEMMA Popped ==
    ASSUME NEW tree, NEW frames, Nested(tree, frames), Len(frames) > 1
    PROVE  /\ Nested(tree, Front(frames)) /\ Len(Front(frames)) = Len(frames) - 1
           /\ Front(frames)[Len(frames) - 1] = frames[Len(frames) - 1]
<1>1. /\ frames \in Seq(Frame) /\ Len(frames) >= 1 /\ frames[1] = PackageFrame
      /\ \A i \in DOMAIN frames : i # 1 => Stands(tree, frames[i]) /\ frames[i].saved = Here(frames[i - 1])
  BY DEF Nested
<1>2. PICK new : new = Front(frames)
  OBVIOUS
<1>3. /\ new \in Seq(Frame) /\ Len(new) = Len(frames) - 1 /\ Len(frames) \in Nat
      /\ DOMAIN new = 1 .. Len(frames) - 1 /\ DOMAIN frames = 1 .. Len(frames)
      /\ \A i \in DOMAIN new : new[i] = frames[i]
  BY <1>1, <1>2 DEF Front
<1>4. ASSUME NEW i \in DOMAIN new, i # 1
      PROVE  Stands(tree, new[i]) /\ new[i].saved = Here(new[i - 1])
  <2>1. i \in DOMAIN frames /\ i - 1 \in DOMAIN new
    BY <1>3, <1>4
  <2> QED
    BY <1>1, <1>3, <1>4, <2>1
<1>5. new[1] = PackageFrame /\ new[Len(frames) - 1] = frames[Len(frames) - 1]
  BY <1>1, <1>3
<1> QED
  BY <1>1, <1>2, <1>3, <1>4, <1>5 DEF Nested
-----------------------------------------------------------------------------
\* A construct entered in a scope of its own, put where the typer is, or as an
\* instance of a function where the function is.
LEMMA Enters ==
    ASSUME Inv, NEW parent \in DOMAIN scopes, NEW kind \in Kinds \ {"PACKAGE"},
           NEW ident \in Names \union {NoName}, NEW construct \in Constructs,
           PutUnder(parent, kind, ident), Enter(construct), Opens(construct, kind),
           construct # "expansion",
           parent = current \/ (kind = "FUNCTION" /\ ident = NoName)
    PROVE  Inv'
<1>t. current \in DOMAIN scopes /\ DOMAIN scopes = 1 .. Len(scopes) /\ Len(scopes) \in Nat
  BY NestedFacts, TreeFacts DEF Inv
<1>1. /\ Tree' /\ Hung' /\ Keeps /\ NewScope \in DOMAIN scopes'
      /\ scopes'[NewScope] = [kind |-> kind, parent |-> parent, ident |-> ident]
  <2>1. kind # "MACRO_EXPANSION"
    BY DEF Opens
  <2> QED
    BY <2>1, Puts DEF Inv
<1>2. Nested(scopes', open)
  BY <1>1, NestedStill DEF Inv, Frames
<1>3. PICK frame : frame = [construct |-> construct, scope |-> NewScope, saved |-> current]
  OBVIOUS
<1>4. frame \in Frame /\ frame.construct = construct /\ frame.scope = NewScope /\ frame.saved = current
  BY <1>3, <1>t DEF Frame, NewScope
<1>5. Stands(scopes', frame)
  <2>1. current \in DOMAIN scopes'
    BY <1>1, <1>t DEF Keeps
  <2>2. scopes'[NewScope].kind = kind /\ scopes'[NewScope].parent = parent /\ scopes'[NewScope].ident = ident
    BY <1>1
  <2> QED
    BY <1>1, <1>4, <2>1, <2>2 DEF Stands
<1>6. open' = Append(open, frame) /\ current' = NewScope
  BY <1>3 DEF Enter
<1>7. frame.saved = Here(open[Len(open)])
  BY <1>4 DEF Inv, Frames
<1>8. Nested(scopes', open') /\ open'[Len(open')] = frame
  BY <1>2, <1>4, <1>5, <1>6, <1>7, Pushed
<1>9. current' = Here(open'[Len(open')])
  BY <1>4, <1>6, <1>8 DEF Here, Opens
<1> QED
  BY <1>1, <1>8, <1>9 DEF Inv, Frames

\* A declaration that enters nothing.
LEMMA Declares ==
    ASSUME Inv, NEW parent \in DOMAIN scopes, NEW kind \in Kinds \ {"PACKAGE", "MACRO_EXPANSION"},
           NEW ident \in Names \union {NoName},
           PutUnder(parent, kind, ident), UNCHANGED <<current, open>>
    PROVE  Inv'
<1>1. Tree' /\ Hung' /\ Keeps
  BY Puts DEF Inv
<1>2. Nested(scopes', open)
  BY <1>1, NestedStill DEF Inv, Frames
<1> QED
  BY <1>1, <1>2 DEF Inv, Frames

LEMMA MainInit == Init => Inv
<1> SUFFICES ASSUME Init PROVE Inv
  OBVIOUS
<1>1. scopes = <<[kind |-> "PACKAGE", parent |-> NullScope, ident |-> NoName]>>
  BY DEF Init
<1>2. /\ Len(scopes) = 1 /\ DOMAIN scopes = {1} /\ scopes[1].kind = "PACKAGE"
      /\ scopes[1].parent = NullScope /\ scopes[1].ident = NoName
  BY <1>1
<1>3. scopes \in Seq(ScopeRecord)
  <2>1. [kind |-> "PACKAGE", parent |-> NullScope, ident |-> NoName] \in ScopeRecord
    BY DEF ScopeRecord, Kinds, NullScope
  <2> QED
    BY <1>1, <2>1
<1>4. Tree
  BY <1>2, <1>3, BoundAssumption DEF Tree, Kind, Parent, Ident, Package
<1>5. Hung
  <2>1. children = <<[h \in Buckets |-> <<>>]>>
    BY DEF Init
  <2>2. children \in Seq([Buckets -> Seq(Nat)]) /\ Len(children) = 1
    <3>1. [h \in Buckets |-> <<>>] \in [Buckets -> Seq(Nat)]
      OBVIOUS
    <3> QED
      BY <2>1, <3>1
  <2>3. \A h \in Buckets : children[1][h] = <<>>
    BY <2>1
  <2>4. \A s \in DOMAIN scopes, h \in Buckets : DOMAIN children[s][h] = {}
    BY <1>2, <2>3
  <2>5. \A c \in DOMAIN scopes : Ident(c) = NoName
    BY <1>2 DEF Ident
  <2> QED
    BY <1>2, <2>2, <2>4, <2>5 DEF Hung
<1>6. Frames
  <2>1. open = <<PackageFrame>> /\ current = Package
    BY DEF Init, PackageFrame
  <2>2. PackageFrame \in Frame /\ Here(PackageFrame) = Package
    BY DEF PackageFrame, Frame, Constructs, Package, Here
  <2>3. Len(open) = 1 /\ open[1] = PackageFrame /\ open \in Seq(Frame) /\ DOMAIN open = {1}
    BY <2>1, <2>2
  <2> QED
    BY <2>1, <2>2, <2>3 DEF Frames, Nested
<1> QED
  BY <1>4, <1>5, <1>6 DEF Inv

\* A variable whose initializer is typed inside of it, or that is put two scopes up.
LEMMA StepDeclareVariable ==
    ASSUME Inv, NEW name \in Names, NEW expand \in BOOLEAN, NEW initializer \in BOOLEAN,
           DeclareVariable(name, expand, initializer)
    PROVE  Inv'
<1>t. /\ current \in DOMAIN scopes
      /\ \A s \in DOMAIN scopes : s # Package => Parent(s) \in DOMAIN scopes
      /\ Parent(Package) = NullScope
  BY NestedFacts, TreeFacts DEF Inv, Tree
<1>1. PICK kind : kind = (IF Kind(current) = "STRUCT" THEN "FIELD" ELSE "LOCAL")
  OBVIOUS
<1>2. /\ kind \in Kinds \ {"PACKAGE", "MACRO_EXPANSION"} /\ Opens("initializer", kind)
      /\ "initializer" \in Constructs
  BY <1>1 DEF Kinds, Opens, Constructs
<1>3. PutUnder(PutParent(expand), kind, name) /\ PutParent(expand) \in DOMAIN scopes
  <2>1. ll_typer_scope_put(kind, name, expand)
    BY <1>1 DEF DeclareVariable
  <2>2. PutUnder(PutParent(expand), kind, name) /\ (expand => current # Package /\ PutParent(TRUE) # NullScope)
    BY <2>1 DEF ll_typer_scope_put
  <2>3. CASE expand
    BY <1>t, <2>2, <2>3 DEF PutParent
  <2>4. CASE ~expand
    BY <1>t, <2>2, <2>4 DEF PutParent
  <2> QED
    BY <2>3, <2>4
<1>4. CASE initializer /\ ~expand
  <2>1. Enter("initializer") /\ PutParent(expand) = current
    BY <1>4 DEF DeclareVariable, PutParent
  <2> QED
    BY <1>2, <1>3, <2>1, Enters
<1>5. CASE ~(initializer /\ ~expand)
  <2>1. UNCHANGED <<current, open>>
    BY <1>5 DEF DeclareVariable
  <2> QED
    BY <1>2, <1>3, <2>1, Declares
<1> QED
  BY <1>4, <1>5

\* The constructs that open a scope where the typer is.
LEMMA StepEnter ==
    ASSUME Inv, \/ EnterBlock \/ EnterLoop \/ ExpandMacro
                \/ \E n \in Names : EnterStruct(n) \/ EnterFunction(n)
    PROVE  Inv'
<1>t. current \in DOMAIN scopes
  BY NestedFacts
<1>1. PICK kind \in {"BLOCK_VALUE", "LOOP", "BLOCK", "STRUCT", "FUNCTION"},
          ident \in Names \union {NoName}, construct \in {"block", "loop", "arguments", "struct", "signature"} :
        PutUnder(current, kind, ident) /\ Enter(construct) /\ Opens(construct, kind)
  <2>1. CASE EnterBlock
    BY <2>1 DEF EnterBlock, ll_typer_scope_put, PutParent, Opens
  <2>2. CASE EnterLoop
    BY <2>2 DEF EnterLoop, ll_typer_scope_put, PutParent, Opens
  <2>3. CASE ExpandMacro
    BY <2>3 DEF ExpandMacro, ll_typer_scope_put, PutParent, Opens
  <2>4. ASSUME NEW n \in Names, EnterStruct(n)
        PROVE  PutUnder(current, "STRUCT", n) /\ Enter("struct") /\ Opens("struct", "STRUCT")
    BY <2>4 DEF EnterStruct, ll_typer_scope_put, PutParent, Opens
  <2>5. ASSUME NEW n \in Names, EnterFunction(n)
        PROVE  PutUnder(current, "FUNCTION", n) /\ Enter("signature") /\ Opens("signature", "FUNCTION")
    BY <2>5 DEF EnterFunction, ll_typer_scope_put, PutParent, Opens
  <2> QED
    BY <2>1, <2>2, <2>3, <2>4, <2>5
<1>2. kind \in Kinds \ {"PACKAGE"} /\ construct \in Constructs /\ construct # "expansion"
  BY DEF Kinds, Constructs
<1> QED
  BY <1>t, <1>1, <1>2, Enters

\* A block without a scope.
LEMMA StepEnterBareBlock ==
    ASSUME Inv, EnterBareBlock
    PROVE  Inv'
<1>t. current \in DOMAIN scopes /\ current \in Nat
  BY NestedFacts, TreeFacts DEF Inv
<1>1. PICK frame : frame = [construct |-> "bare block", scope |-> NullScope, saved |-> current]
  OBVIOUS
<1>2. frame \in Frame /\ frame.construct = "bare block" /\ frame.scope = NullScope /\ frame.saved = current
  BY <1>1, <1>t DEF Frame, Constructs, NullScope
<1>3. Stands(scopes, frame)
  <2>1. Kind(current) \in {"LOOP", "PACKAGE"}
    BY DEF EnterBareBlock
  <2> QED
    BY <1>t, <1>2, <2>1 DEF Stands, Kind
<1>4. open' = Append(open, frame) /\ UNCHANGED <<scopes, children, current>>
  BY <1>1 DEF EnterBareBlock
<1>5. Nested(scopes, open') /\ open'[Len(open')] = frame
  <2>1. Nested(scopes, open) /\ frame.saved = Here(open[Len(open)])
    BY <1>2 DEF Inv, Frames
  <2> QED
    BY <1>2, <1>3, <1>4, <2>1, Pushed
<1>6. Here(frame) = current
  BY <1>2 DEF Here
<1>7. Nested(scopes', open') /\ current' = Here(open'[Len(open')])
  BY <1>4, <1>5, <1>6
<1>8. Tree' /\ Hung'
  BY <1>4 DEF Inv, Tree, Hung, Hangs, Bucketed, Kind, Parent, Ident
<1> QED
  BY <1>7, <1>8 DEF Inv, Frames

LEMMA StepDeclareParameter ==
    ASSUME Inv, NEW n \in Names, DeclareParameter(n) \/ DeclareMacroParameter(n)
    PROVE  Inv'
<1>t. current \in DOMAIN scopes
  BY NestedFacts
<1>1. UNCHANGED <<current, open>>
  BY DEF DeclareParameter, DeclareMacroParameter
<1>2. PICK kind \in {"PARAMETER", "STRUCT", "MACRO_PARAMETER"} : PutUnder(current, kind, n)
  BY DEF DeclareParameter, DeclareMacroParameter, ll_typer_scope_put, PutParent
<1>3. kind \in Kinds \ {"PACKAGE", "MACRO_EXPANSION"}
  BY DEF Kinds
<1> QED
  BY <1>t, <1>1, <1>2, <1>3, Declares

\* The body of a function: its frame becomes one whose body is being typed, and
\* the block of the body is entered.
LEMMA StepEnterBody ==
    ASSUME Inv, EnterBody
    PROVE  Inv'
<1>t. /\ current \in DOMAIN scopes /\ DOMAIN scopes = 1 .. Len(scopes) /\ Len(scopes) \in Nat
      /\ open \in Seq(Frame) /\ Len(open) \in Nat /\ DOMAIN open = 1 .. Len(open) /\ Top = open[Len(open)] /\ Top \in Frame
      /\ Len(open) > 1 /\ Stands(scopes, Top)
  <2>1. Top.construct = "signature"
    BY DEF EnterBody
  <2> QED
    BY <2>1, NestedFacts, TreeFacts DEF Inv
<1>1. PutUnder(current, "BLOCK_VALUE", NoName)
  BY DEF EnterBody, ll_typer_scope_put, PutParent
<1>2. /\ Tree' /\ Hung' /\ Keeps /\ NewScope \in DOMAIN scopes'
      /\ scopes'[NewScope] = [kind |-> "BLOCK_VALUE", parent |-> current, ident |-> NoName]
  <2>1. "BLOCK_VALUE" \in Kinds \ {"PACKAGE"} /\ NoName \in Names \union {NoName}
    BY DEF Kinds
  <2>2. Tree /\ Hung
    BY DEF Inv
  <2> HIDE DEF Inv
  <2> QED
    BY <1>t, <1>1, <2>1, <2>2, Puts
<1>3. PICK top : top = [Top EXCEPT !.construct = "function"]
  OBVIOUS
<1>4. top \in Frame /\ top.construct = "function" /\ top.scope = Top.scope /\ top.saved = Top.saved
  BY <1>t, <1>3 DEF Frame, Constructs
<1>5. Stands(scopes', top)
  <2>1. Stands(scopes, top)
    <3>1. Top.construct = "signature"
      BY DEF EnterBody
    <3> QED
      BY <1>t, <1>4, <3>1 DEF Stands, Opens
  <2> QED
    BY <1>2, <1>4, <2>1, StandsStill DEF Inv
<1>6. PICK under : under = [open EXCEPT ![Len(open)] = top]
  OBVIOUS
<1>7. Nested(scopes', under) /\ Len(under) = Len(open) /\ under[Len(under)] = top
  <2>1. Nested(scopes', open)
    BY <1>2, NestedStill DEF Inv, Frames
  <2> QED
    BY <1>t, <1>4, <1>5, <1>6, <2>1, Replaced
<1>8. PICK frame : frame = [construct |-> "block", scope |-> NewScope, saved |-> current]
  OBVIOUS
<1>9. frame \in Frame /\ frame.construct = "block" /\ frame.scope = NewScope /\ frame.saved = current
  <2>1. NewScope \in Nat /\ current \in Nat /\ "block" \in Constructs
    BY <1>t DEF NewScope, Constructs
  <2> QED
    BY <1>8, <2>1 DEF Frame
<1>10. Stands(scopes', frame)
  <2>1. current \in DOMAIN scopes'
    BY <1>2, <1>t DEF Keeps
  <2> QED
    BY <1>2, <1>9, <2>1 DEF Stands, Opens
<1>11. frame.saved = Here(under[Len(under)])
  <2>1. current = Here(Top) /\ Top.construct = "signature"
    BY <1>t DEF Inv, Frames, EnterBody
  <2> QED
    BY <1>4, <1>7, <1>9, <2>1 DEF Here
<1>12. open' = Append(under, frame) /\ current' = NewScope
  <2>1. under = [open EXCEPT ![Len(open)].construct = "function"]
    BY <1>t, <1>3, <1>6
  <2> QED
    BY <1>8, <2>1 DEF EnterBody
<1>13. Nested(scopes', open') /\ open'[Len(open')] = frame
  BY <1>7, <1>9, <1>10, <1>11, <1>12, Pushed
<1>14. current' = Here(open'[Len(open')])
  BY <1>9, <1>12, <1>13 DEF Here
<1> QED
  BY <1>2, <1>13, <1>14 DEF Inv, Frames

\* An instance is put beside the function, wherever that is.
LEMMA StepInstantiateFunction ==
    ASSUME Inv, NEW name \in Names, NEW expand \in BOOLEAN, InstantiateFunction(name, expand)
    PROVE  Inv'
<1>t. /\ current \in DOMAIN scopes /\ Tree /\ Hung
      /\ \A s \in DOMAIN scopes : s # Package => Parent(s) \in DOMAIN scopes
  BY NestedFacts, TreeFacts DEF Inv
<1>1. PICK fn : /\ fn = FindFrom(current, name, expand) /\ fn \notin {NullScope, Crash}
                /\ Kind(fn) = "FUNCTION" /\ PutUnder(Parent(fn), "FUNCTION", NoName)
  BY DEF InstantiateFunction, ll_typer_find_symbol_up_scope
<1>2. Enter("signature")
  BY DEF InstantiateFunction
<1>3. PICK chain : chain = Chain[current] /\ chain \in Seq(DOMAIN scopes)
  BY <1>t, ChainClimbs DEF Climbs
<1>4. PICK i \in DOMAIN chain : fn = ll_scope_get(chain[i], name)
  <2>1. Walked(chain, name, expand, fn)
    BY <1>1, <1>3, Finds
  <2> QED
    BY <1>1, <2>1 DEF Walked
<1>5. fn \in DOMAIN scopes
  <2>1. chain[i] \in DOMAIN scopes
    BY <1>3
  <2> QED
    BY <1>t, <1>1, <1>4, <2>1, Gets DEF Declared
<1>6. fn # Package
  BY <1>t, <1>1 DEF Tree
<1>7. Parent(fn) \in DOMAIN scopes
  BY <1>t, <1>5, <1>6
<1>8. /\ "FUNCTION" \in Kinds \ {"PACKAGE"} /\ NoName \in Names \union {NoName} /\ "signature" \in Constructs
      /\ Opens("signature", "FUNCTION") /\ "signature" # "expansion"
  BY DEF Kinds, Constructs, Opens
<1> QED
  BY <1>1, <1>2, <1>7, <1>8, Enters

\* The clone of the macro's body: the frame goes on in a scope inside that of
\* the parameters, and still remembers the caller's.
LEMMA StepEnterExpansion ==
    ASSUME Inv, EnterExpansion
    PROVE  Inv'
<1>t. /\ current \in DOMAIN scopes /\ DOMAIN scopes = 1 .. Len(scopes) /\ Len(scopes) \in Nat
      /\ open \in Seq(Frame) /\ Len(open) \in Nat /\ DOMAIN open = 1 .. Len(open) /\ Top = open[Len(open)] /\ Top \in Frame
      /\ Len(open) > 1 /\ Stands(scopes, Top)
  <2>1. Top.construct = "arguments"
    BY DEF EnterExpansion
  <2> QED
    BY <2>1, NestedFacts, TreeFacts DEF Inv
<1>1. PutUnder(current, "MACRO_EXPANSION", NoName) /\ Top.construct = "arguments"
  BY DEF EnterExpansion, ll_typer_scope_put, PutParent
<1>2. /\ current = Top.scope /\ Kind(current) = "BLOCK" /\ Parent(current) = Top.saved
      /\ Top.saved \in DOMAIN scopes
  <2>1. current = Top.scope
    BY <1>t, <1>1 DEF Inv, Frames, Here
  <2> QED
    BY <1>t, <1>1, <2>1 DEF Stands, Opens, Kind, Parent
<1>3. /\ Tree' /\ Hung' /\ Keeps /\ NewScope \in DOMAIN scopes'
      /\ scopes'[NewScope] = [kind |-> "MACRO_EXPANSION", parent |-> current, ident |-> NoName]
  <2>1. "MACRO_EXPANSION" \in Kinds \ {"PACKAGE"} /\ NoName \in Names \union {NoName}
    BY DEF Kinds
  <2>2. Tree /\ Hung
    BY DEF Inv
  <2> QED
    BY <1>t, <1>1, <1>2, <2>1, <2>2, Puts
<1>4. PICK frame : frame = [[Top EXCEPT !.construct = "expansion"] EXCEPT !.scope = NewScope]
  OBVIOUS
<1>5. frame \in Frame /\ frame.construct = "expansion" /\ frame.scope = NewScope /\ frame.saved = Top.saved
  <2>1. NewScope \in Nat /\ "expansion" \in Constructs
    BY <1>t DEF NewScope, Constructs
  <2> QED
    BY <1>t, <1>4, <2>1 DEF Frame
<1>6. Stands(scopes', frame)
  <2>1. scopes'[NewScope].parent = current /\ scopes'[NewScope].kind = "MACRO_EXPANSION"
    BY <1>3
  <2>2. current \in DOMAIN scopes' /\ scopes'[current] = scopes[current] /\ Top.saved \in DOMAIN scopes'
    BY <1>2, <1>3, <1>t DEF Keeps
  <2> QED
    BY <1>2, <1>3, <1>5, <2>1, <2>2 DEF Stands, Opens, Parent
<1>7. open' = [open EXCEPT ![Len(open)] = frame] /\ current' = NewScope
  BY <1>t, <1>4 DEF EnterExpansion
<1>8. Nested(scopes', open)
  BY <1>3, NestedStill DEF Inv, Frames
<1>9. Nested(scopes', open') /\ Len(open') = Len(open) /\ open'[Len(open)] = frame
  BY <1>t, <1>5, <1>6, <1>7, <1>8, Replaced
<1>10. current' = Here(open'[Len(open')])
  BY <1>5, <1>7, <1>9 DEF Here
<1> QED
  BY <1>3, <1>9, <1>10 DEF Inv, Frames

\* A construct is left for the scope it was entered from.
LEMMA Restored ==
    ASSUME Inv, Len(open) > 1, Top.construct # "arguments"
    PROVE  ScopeAfter(Top) = Top.saved
<1>1. Stands(scopes, Top) /\ Top = open[Len(open)]
  BY NestedFacts
<1>2. current = Here(Top)
  BY <1>1 DEF Inv, Frames
<1>3. CASE Top.construct = "bare block"
  BY <1>2, <1>3 DEF ScopeAfter, Here
<1>4. CASE Top.construct = "expansion"
  BY <1>4 DEF ScopeAfter
<1>5. CASE Top.construct \notin {"bare block", "expansion"}
  <2>1. \/ Parent(Top.scope) = Top.saved
        \/ Kind(Top.scope) = "FUNCTION" /\ Ident(Top.scope) = NoName
    BY <1>1, <1>5 DEF Stands, Parent, Kind, Ident
  <2> QED
    BY <1>5, <2>1 DEF ScopeAfter
<1> QED
  BY <1>3, <1>4, <1>5

LEMMA StepLeave ==
    ASSUME Inv, Leave
    PROVE  Inv' /\ current' = Top.saved
<1>1. Len(open) > 1 /\ current' = ScopeAfter(Top) /\ open' = Front(open) /\ UNCHANGED <<scopes, children>>
  BY DEF Leave
<1>2. current' = Top.saved /\ Top.saved = Here(open[Len(open) - 1])
  BY <1>1, Restored, NestedFacts DEF Leave
<1>3. Nested(scopes, open') /\ Len(open') = Len(open) - 1 /\ open'[Len(open) - 1] = open[Len(open) - 1]
  BY <1>1, Popped DEF Inv, Frames
<1>4. Nested(scopes', open') /\ current' = Here(open'[Len(open')])
  BY <1>1, <1>2, <1>3
<1>5. Tree' /\ Hung'
  BY <1>1 DEF Inv, Tree, Hung, Hangs, Bucketed, Kind, Parent, Ident
<1> QED
  BY <1>2, <1>4, <1>5 DEF Inv, Frames

LEMMA Stutters == Inv /\ UNCHANGED vars => Inv'
<1> SUFFICES ASSUME Inv, UNCHANGED vars PROVE Inv'
  OBVIOUS
<1>1. scopes' = scopes /\ children' = children /\ current' = current /\ open' = open
  BY DEF vars
<1>2. Tree' /\ Hung'
  BY <1>1 DEF Inv, Tree, Hung, Hangs, Bucketed, Kind, Parent, Ident
<1>3. Frames'
  BY <1>1 DEF Inv, Frames
<1> QED
  BY <1>2, <1>3 DEF Inv

LEMMA MainStep == Inv /\ [Next]_vars => Inv'
<1> SUFFICES ASSUME Inv, [Next]_vars PROVE Inv'
  OBVIOUS
<1>1. ASSUME NEW n \in Names, NEW expand \in BOOLEAN, NEW initializer \in BOOLEAN,
             DeclareVariable(n, expand, initializer)
      PROVE  Inv'
  BY <1>1, StepDeclareVariable
<1>2. CASE EnterBlock \/ EnterLoop \/ ExpandMacro \/ \E n \in Names : EnterStruct(n) \/ EnterFunction(n)
  BY <1>2, StepEnter
<1>3. CASE EnterBareBlock
  BY <1>3, StepEnterBareBlock
<1>4. ASSUME NEW n \in Names, DeclareParameter(n) \/ DeclareMacroParameter(n) PROVE Inv'
  BY <1>4, StepDeclareParameter
<1>5. CASE EnterBody
  BY <1>5, StepEnterBody
<1>6. ASSUME NEW n \in Names, NEW expand \in BOOLEAN, InstantiateFunction(n, expand) PROVE Inv'
  BY <1>6, StepInstantiateFunction
<1>7. CASE EnterExpansion
  BY <1>7, StepEnterExpansion
<1>8. CASE Leave
  BY <1>8, StepLeave
<1>9. CASE UNCHANGED vars
  BY <1>9, Stutters
<1> QED
  BY <1>1, <1>2, <1>3, <1>4, <1>5, <1>6, <1>7, <1>8, <1>9 DEF Next

\* The tree of scopes, the buckets and the frames are in order in every state.
THEOREM ScopesInvariant == Spec => []Inv
<1> QED
  BY MainInit, MainStep, PTL DEF Spec
-----------------------------------------------------------------------------
(***************************************************************************)
(* The properties.                                                         *)
(***************************************************************************)
\* The variables have their types in every state.
THEOREM ScopesTypeOK == Spec => []TypeOK
<1>1. Inv => TypeOK
  <2> SUFFICES ASSUME Inv PROVE TypeOK
    OBVIOUS
  <2>1. scopes \in Seq([kind : Kinds, parent : Nat, ident : Names \union {NoName}])
    BY DEF Inv, Tree, ScopeRecord
  <2>2. children \in Seq([Buckets -> Seq(Nat)]) /\ Len(children) = Len(scopes)
    BY DEF Inv, Hung
  <2>3. DOMAIN scopes = 1 .. Len(scopes) /\ Len(scopes) \in Nat /\ Package \in DOMAIN scopes
    BY TreeFacts DEF Inv
  <2>4. ASSUME NEW s \in DOMAIN children
        PROVE  children[s] \in [Buckets -> Seq(DOMAIN scopes)]
    <3>1. s \in DOMAIN scopes /\ children[s] \in [Buckets -> Seq(Nat)]
      BY <2>2, <2>3
    <3>2. ASSUME NEW h \in Buckets PROVE children[s][h] \in Seq(DOMAIN scopes)
      <4>1. PICK bucket \in Seq(Nat) : bucket = children[s][h]
        BY <3>1
      <4>2. \A i \in DOMAIN bucket : bucket[i] \in DOMAIN scopes
        BY <3>1, <4>1 DEF Inv, Hung, Hangs
      <4>3. bucket \in Seq(DOMAIN scopes)
        BY <4>2
      <4> QED
        BY <4>1, <4>3
    <3> QED
      BY <3>1, <3>2
  <2>5. ASSUME NEW i \in DOMAIN open
        PROVE  open[i].saved \in DOMAIN scopes /\ open[i].scope \in 0 .. Len(scopes)
    <3>1. open[i].saved \in DOMAIN scopes
      BY NestedFacts
    <3>2. CASE i = 1
      <4>1. open[i].scope = Package
        BY <3>2 DEF Inv, Frames, Nested, PackageFrame
      <4> QED
        BY <2>3, <3>1, <4>1
    <3>3. CASE i # 1
      <4>1. Stands(scopes, open[i])
        BY <3>3 DEF Inv, Frames, Nested
      <4>2. open[i].scope = NullScope \/ open[i].scope \in DOMAIN scopes
        BY <4>1 DEF Stands
      <4> QED
        BY <2>3, <3>1, <4>2 DEF NullScope
    <3> QED
      BY <3>2, <3>3
  <2> QED
    BY <2>1, <2>2, <2>4, <2>5, NestedFacts DEF TypeOK
<1> QED
  BY <1>1, ScopesInvariant, PTL

\* Which scopes the walk searches when it does not have to care about macros.
LEMMA SearchesOwners ==
    ASSUME NEW chain, NEW expansion \in BOOLEAN, NEW i \in DOMAIN chain, DOMAIN chain = 1 .. Len(chain),
           Len(chain) \in Nat,
           expansion \/ \A j \in DOMAIN chain : Kind(chain[j]) # "MACRO_EXPANSION"
    PROVE  Searches(chain, i, expansion) <=>
           Kind(chain[i]) \in {"PACKAGE", "BLOCK", "FUNCTION", "BLOCK_VALUE", "LOOP", "MACRO_EXPANSION"}
<1>1. expansion \/ \A j \in 1 .. i - 1 : Kind(chain[j]) # "MACRO_EXPANSION"
  OBVIOUS
<1>2. PICK kind : kind = Kind(chain[i])
  OBVIOUS
<1>3. expansion \/ ~ \E j \in 1 .. i - 1 : Kind(chain[j]) = "MACRO_EXPANSION"
  BY <1>1
<1> QED
  BY <1>2, <1>3 DEF Searches

\* Outside of macro expansions, and for expanded names everywhere, the walk over
\* the hash buckets finds the newest declaration of the innermost scope that has
\* one; it crashes only where an anonymous scope shares the bucket of the name.
THEOREM ScopesLookup == Spec => []LookupIsLexical
<1>1. Inv => LookupIsLexical
  <2> SUFFICES ASSUME Inv PROVE LookupIsLexical
    OBVIOUS
  <2>1. current \in DOMAIN scopes /\ Tree /\ Hung /\ NullScope # Crash
    BY NestedFacts, BoundAssumption DEF Inv, NullScope, Crash
  <2>2. PICK chain : chain = Chain[current] /\ chain \in Seq(DOMAIN scopes)
    BY <2>1, ChainClimbs DEF Climbs
  <2>3. DOMAIN chain = 1 .. Len(chain) /\ Len(chain) \in Nat /\ \A i \in DOMAIN chain : chain[i] \in DOMAIN scopes
    BY <2>2
  <2> SUFFICES ASSUME NEW name \in Names, NEW expansion \in BOOLEAN,
                      expansion \/ \A i \in DOMAIN chain : Kind(chain[i]) # "MACRO_EXPANSION"
               PROVE  IF FindFrom(current, name, expansion) = Crash
                      THEN \E i \in DOMAIN chain : AnonymousInBucket(chain[i], name)
                      ELSE FindFrom(current, name, expansion) = Lexical(current, name)
    BY <2>2 DEF LookupIsLexical, ll_typer_find_symbol_up_scope
  <2>4. PICK found : found = FindFrom(current, name, expansion)
    OBVIOUS
  <2> DEFINE Owns(i) == Searches(chain, i, expansion) /\ Declared(chain[i], name) # {}
             I == {i \in 1 .. Len(chain) :
                      /\ Kind(chain[i]) \in {"PACKAGE", "BLOCK", "FUNCTION", "BLOCK_VALUE", "LOOP", "MACRO_EXPANSION"}
                      /\ Declared(chain[i], name) # {}}
  <2>5. \A i \in DOMAIN chain : i \in I <=> Owns(i)
    <3>1. \A i \in DOMAIN chain : Searches(chain, i, expansion) <=>
              Kind(chain[i]) \in {"PACKAGE", "BLOCK", "FUNCTION", "BLOCK_VALUE", "LOOP", "MACRO_EXPANSION"}
      BY <2>3, SearchesOwners
    <3> QED
      BY <2>3, <3>1
  <2>6. PICK owner : owner = IF I # {} THEN Min(I) ELSE 0
    OBVIOUS
  <2>7. Lexical(current, name) = IF owner = 0 THEN NullScope ELSE Max(Declared(chain[owner], name))
    BY <2>2, <2>6 DEF Lexical, SelectInSeq
  <2>8. CASE /\ found = NullScope
             /\ \A i \in DOMAIN chain : Searches(chain, i, expansion) => ll_scope_get(chain[i], name) = NullScope
    <3>1. \A i \in DOMAIN chain : ~Owns(i)
      BY <2>1, <2>3, <2>8, Gets
    <3>2. I = {}
      BY <2>3, <2>5, <3>1
    <3> QED
      BY <2>1, <2>4, <2>6, <2>7, <2>8, <3>2
  <2>9. CASE \E i \in DOMAIN chain :
                /\ Searches(chain, i, expansion)
                /\ found = ll_scope_get(chain[i], name) /\ found # NullScope
                /\ \A j \in 1 .. i - 1 : Searches(chain, j, expansion) => ll_scope_get(chain[j], name) = NullScope
    <3>1. PICK i \in DOMAIN chain :
                /\ Searches(chain, i, expansion)
                /\ found = ll_scope_get(chain[i], name) /\ found # NullScope
                /\ \A j \in 1 .. i - 1 : Searches(chain, j, expansion) => ll_scope_get(chain[j], name) = NullScope
      BY <2>9
    <3>2. CASE found = Crash
      <4>1. AnonymousInBucket(chain[i], name)
        BY <2>1, <2>3, <3>1, <3>2, Gets
      <4> QED
        BY <2>4, <3>2, <4>1
    <3>3. CASE found # Crash
      <4>1. found \in Declared(chain[i], name) /\ \A d \in Declared(chain[i], name) : d <= found
        BY <2>1, <2>3, <3>1, <3>3, Gets
      <4>2. i \in I
        BY <2>5, <3>1, <4>1
      <4>3. ASSUME NEW j \in I PROVE i <= j
        <5>1. j \in DOMAIN chain /\ Searches(chain, j, expansion) /\ Declared(chain[j], name) # {}
          BY <2>3, <2>5
        <5>2. ll_scope_get(chain[j], name) # NullScope
          BY <2>1, <2>3, <5>1, Gets
        <5>3. j \notin 1 .. i - 1
          BY <3>1, <5>1, <5>2
        <5> QED
          BY <2>3, <5>1, <5>3
      <4>4. owner = i
        <5>1. I \subseteq Nat /\ I # {}
          <6>1. I \subseteq Nat
            BY <2>3
          <6> HIDE DEF I
          <6> QED
            BY <4>2, <6>1
        <5>2. Min(I) \in I /\ \A y \in I : Min(I) <= y
          <6> HIDE DEF I
          <6> QED
            BY <5>1, MinFacts
        <5>3. Min(I) <= i /\ i <= Min(I) /\ Min(I) \in Nat /\ i \in Nat
          BY <4>2, <4>3, <5>1, <5>2
        <5> QED
          BY <2>6, <5>1, <5>3
      <4>5. Max(Declared(chain[i], name)) = found
        <5>1. Declared(chain[i], name) \subseteq 0 .. Len(scopes) /\ Len(scopes) \in Nat
          BY TreeFacts, <2>1 DEF Declared
        <5>2. /\ Max(Declared(chain[i], name)) \in Declared(chain[i], name)
              /\ \A d \in Declared(chain[i], name) : d <= Max(Declared(chain[i], name))
          BY <4>1, <5>1, MaxFacts
        <5>3. found \in 0 .. Len(scopes) /\ Max(Declared(chain[i], name)) \in 0 .. Len(scopes)
          BY <4>1, <5>1, <5>2
        <5>4. found <= Max(Declared(chain[i], name)) /\ Max(Declared(chain[i], name)) <= found
          BY <4>1, <5>2
        <5> QED
          BY <5>1, <5>3, <5>4
      <4>6. owner # 0
        BY <2>3, <4>4
      <4> QED
        BY <2>4, <2>7, <3>3, <4>4, <4>5, <4>6
    <3> QED
      BY <3>2, <3>3
  <2> HIDE DEF I, Owns
  <2>10. Walked(chain, name, expansion, found)
    BY <2>2, <2>4, Finds
  <2> QED
    BY <2>8, <2>9, <2>10 DEF Walked
<1> QED
  BY <1>1, ScopesInvariant, PTL

\* One position of a chain only is that of a macro's parameters.
LEMMA OnlyOne ==
    ASSUME NEW n \in Nat, NEW S, S \subseteq 1 .. n, Cardinality(S) = 1
    PROVE  \A x, y \in S : x = y
<1>1. IsFiniteSet(S)
  <2>1. IsFiniteSet(1 .. n)
    BY FS_Interval
  <2> QED
    BY <2>1, FS_Subset
<1>2. \E x : S = {x}
  BY <1>1, FS_Singleton
<1> QED
  BY <1>2

\* A plain name in the body of a macro whose call is in no other macro means
\* something of the macro or of the package, never of the place it is called from.
THEOREM ScopesHygiene == Spec => []MacroHygiene
<1>1. Inv => MacroHygiene
  <2> SUFFICES ASSUME Inv PROVE MacroHygiene
    OBVIOUS
  <2>1. current \in DOMAIN scopes /\ Tree /\ Hung
    BY NestedFacts DEF Inv
  <2>2. PICK chain : chain = Chain[current] /\ Climbs(chain, current)
    BY <2>1, ChainClimbs
  <2>3. /\ chain \in Seq(DOMAIN scopes) /\ Len(chain) >= 1 /\ chain[1] = current /\ chain[Len(chain)] = Package
        /\ \A i \in DOMAIN chain : i + 1 \in DOMAIN chain => chain[i + 1] = Parent(chain[i])
        /\ DOMAIN chain = 1 .. Len(chain) /\ Len(chain) \in Nat /\ \A i \in DOMAIN chain : chain[i] \in DOMAIN scopes
    BY <2>2 DEF Climbs
  <2> DEFINE Parameters == {i \in DOMAIN chain : Kind(chain[i]) = "BLOCK"}
  <2> SUFFICES ASSUME Expansions(chain) # {}, Cardinality(Parameters) = 1, NEW name \in Names
               PROVE  \/ FindFrom(current, name, FALSE) \in {NullScope, Crash}
                      \/ Parent(FindFrom(current, name, FALSE)) \in OwnOfExpansion(chain) \union {Package}
    <3>1. Head(chain) = current
      BY <2>3
    <3> QED
      BY <2>2, <3>1 DEF MacroHygiene, HygienicIn
  <2>4. \A i, k \in DOMAIN chain : Kind(chain[i]) = "BLOCK" /\ Kind(chain[k]) = "BLOCK" => i = k
    <3>1. Parameters \subseteq 1 .. Len(chain)
      BY <2>3
    <3>2. \A i, k \in Parameters : i = k
      BY <2>3, <3>1, OnlyOne
    <3> QED
      BY <3>2
  <2>5. ASSUME NEW i \in DOMAIN chain, Kind(chain[i]) = "MACRO_EXPANSION"
        PROVE  i + 1 \in DOMAIN chain /\ Kind(chain[i + 1]) = "BLOCK"
    <3>1. chain[i] # Package /\ chain[i] \in DOMAIN scopes
      BY <2>1, <2>3, <2>5 DEF Tree
    <3>2. i + 1 \in DOMAIN chain
      BY <2>3, <3>1
    <3>3. Kind(Parent(chain[i])) = "BLOCK"
      BY <2>1, <2>5, <3>1 DEF Tree
    <3> QED
      BY <2>3, <3>2, <3>3
  <2>6. PICK m \in Expansions(chain) : m = Min(Expansions(chain)) /\ \A i \in Expansions(chain) : m <= i
    <3>1. Expansions(chain) \subseteq Nat
      BY <2>3 DEF Expansions
    <3> QED
      BY <3>1, MinFacts
  <2>7. m \in DOMAIN chain /\ Kind(chain[m]) = "MACRO_EXPANSION" /\ m \in Nat
        /\ m + 1 \in DOMAIN chain /\ Kind(chain[m + 1]) = "BLOCK"
    BY <2>3, <2>5 DEF Expansions
  <2>8. PICK found : found = FindFrom(current, name, FALSE)
    OBVIOUS
  <2>9. SUFFICES ASSUME found \notin {NullScope, Crash}
                 PROVE  Parent(found) \in OwnOfExpansion(chain) \union {Package}
    BY <2>8
  <2>10. PICK i \in DOMAIN chain : Searches(chain, i, FALSE) /\ found = ll_scope_get(chain[i], name)
    <3>1. Walked(chain, name, FALSE, found)
      BY <2>2, <2>3, <2>8, Finds
    <3> QED
      BY <2>9, <3>1 DEF Walked
  <2>11. Parent(found) = chain[i]
    BY <2>1, <2>3, <2>9, <2>10, Gets DEF Declared
  <2>12. CASE i <= m + 1
    <3>1. i \in 1 .. Min(Expansions(chain)) + 1
      BY <2>3, <2>6, <2>7, <2>12
    <3> QED
      BY <2>11, <3>1 DEF OwnOfExpansion
  <2>13. CASE i > m + 1
    <3>1. m \in 1 .. i - 1 /\ i \in Nat
      BY <2>3, <2>7, <2>13
    <3>2. Kind(chain[i]) \in {"MACRO_EXPANSION", "PACKAGE", "BLOCK"}
      BY <2>7, <2>10, <3>1 DEF Searches
    <3>3. Kind(chain[i]) # "BLOCK"
      BY <2>4, <2>7, <2>13, <3>1
    <3>4. Kind(chain[i]) # "MACRO_EXPANSION"
      <4>1. ASSUME Kind(chain[i]) = "MACRO_EXPANSION" PROVE FALSE
        <5>1. i + 1 \in DOMAIN chain /\ Kind(chain[i + 1]) = "BLOCK"
          BY <2>5, <4>1
        <5>2. i + 1 = m + 1
          BY <2>4, <2>7, <5>1
        <5> QED
          BY <2>7, <2>13, <3>1, <5>2
      <4> QED
        BY <4>1
    <3>5. chain[i] = Package
      BY <2>3, <2>1, <3>2, <3>3, <3>4, TreeFacts
    <3> QED
      BY <2>11, <3>5
  <2> QED
    BY <2>3, <2>7, <2>12, <2>13
<1> QED
  BY <1>1, ScopesInvariant, PTL
-----------------------------------------------------------------------------
\* Only the end of a construct takes a frame away.
LEMMA OnlyLeaveShrinks ==
    ASSUME Inv, Next, ~Leave
    PROVE  Len(open') >= Len(open)
<1>t. open \in Seq(Frame) /\ Len(open) \in Nat /\ Len(open) >= 1
  BY DEF Inv, Frames, Nested
<1>1. \A x : Len(Append(open, x)) = Len(open) + 1
  BY <1>t
<1>2. ASSUME NEW construct, Enter(construct) PROVE Len(open') >= Len(open)
  BY <1>t, <1>1, <1>2 DEF Enter
<1>3. ASSUME open' = open PROVE Len(open') >= Len(open)
  BY <1>t, <1>3
<1>4. CASE EnterBody
  <2>1. PICK under : under = [open EXCEPT ![Len(open)].construct = "function"]
    OBVIOUS
  <2>2. Len(under) = Len(open) /\ DOMAIN under = 1 .. Len(open)
    BY <1>t, <2>1
  <2>3. \E x : open' = Append(under, x)
    BY <1>4, <2>1 DEF EnterBody
  <2>4. under \in Seq(Frame)
    <3>1. PICK top : top = [open[Len(open)] EXCEPT !.construct = "function"]
      OBVIOUS
    <3>2. open[Len(open)] \in Frame
      BY <1>t
    <3>3. top \in Frame
      BY <3>1, <3>2 DEF Frame, Constructs
    <3>4. under = [open EXCEPT ![Len(open)] = top]
      BY <2>1, <3>1
    <3> QED
      BY <1>t, <3>3, <3>4
  <2>5. \A x : Len(Append(under, x)) = Len(under) + 1
    BY <2>4
  <2> QED
    BY <1>t, <2>2, <2>3, <2>5
<1>5. CASE EnterExpansion
  <2>1. PICK x : open' = [open EXCEPT ![Len(open)] = x]
    BY <1>5 DEF EnterExpansion
  <2>2. Len([open EXCEPT ![Len(open)] = x]) = Len(open)
    BY <1>t
  <2> QED
    BY <1>t, <2>1, <2>2
<1>6. CASE EnterBareBlock
  <2>1. \E x : open' = Append(open, x)
    BY <1>6 DEF EnterBareBlock
  <2> QED
    BY <1>t, <1>1, <2>1
<1>7. ASSUME NEW n, NEW expand, NEW initializer, DeclareVariable(n, expand, initializer) PROVE Len(open') >= Len(open)
  BY <1>2, <1>3, <1>7 DEF DeclareVariable
<1>8. CASE EnterBlock \/ EnterLoop \/ ExpandMacro
  BY <1>2, <1>8 DEF EnterBlock, EnterLoop, ExpandMacro
<1>9. ASSUME NEW n, EnterStruct(n) \/ EnterFunction(n) \/ (\E expand : InstantiateFunction(n, expand))
      PROVE  Len(open') >= Len(open)
  BY <1>2, <1>9 DEF EnterStruct, EnterFunction, InstantiateFunction
<1>10. ASSUME NEW n, DeclareParameter(n) \/ DeclareMacroParameter(n) PROVE Len(open') >= Len(open)
  BY <1>3, <1>10 DEF DeclareParameter, DeclareMacroParameter
<1> QED
  BY <1>4, <1>5, <1>6, <1>7, <1>8, <1>9, <1>10 DEF Next

\* Leaving a construct makes current the scope that was current when it was
\* entered, whichever of the two ways back the code takes.
THEOREM ScopesComeBack == Spec => ScopesRestored
<1>1. Inv /\ [Next]_vars => [Len(open') < Len(open) => current' = Top.saved]_vars
  <2> SUFFICES ASSUME Inv, Next, Len(open') < Len(open) PROVE current' = Top.saved
    OBVIOUS
  <2>1. Len(open) \in Nat
    BY NestedFacts
  <2>2. CASE Leave
    BY <2>2, StepLeave
  <2>3. CASE ~Leave
    <3>1. Len(open') >= Len(open)
      BY <2>3, OnlyLeaveShrinks
    <3>2. Len(open') \in Nat
      <4>1. Inv'
        BY MainStep
      <4> QED
        BY <4>1 DEF Inv, Frames, Nested
    <3> QED
      BY <2>1, <3>1, <3>2
  <2> QED
    BY <2>2, <2>3
<1> QED
  BY <1>1, ScopesInvariant, PTL DEF Spec, ScopesRestored

\* A `$name' a statement of the macro's body declares is put in the scope the
\* macro was called in.
THEOREM ScopesHoist == Spec => HoistFromBody
<1>1. Inv /\ [Next]_vars
        => [Hoists /\ Kind(current) = "MACRO_EXPANSION" => scopes'[Len(scopes')].parent = CallerScope]_vars
  <2> SUFFICES ASSUME Inv, Next, Hoists, Kind(current) = "MACRO_EXPANSION"
               PROVE  scopes'[Len(scopes')].parent = CallerScope
    OBVIOUS
  <2>t. /\ current \in DOMAIN scopes /\ DOMAIN scopes = 1 .. Len(scopes) /\ Len(scopes) \in Nat
        /\ scopes \in Seq(ScopeRecord)
    BY NestedFacts, TreeFacts DEF Inv, Tree
  <2>1. Parent(Parent(current)) = CallerScope
    <3>1. /\ Len(open) \in Nat /\ DOMAIN open = 1 .. Len(open) /\ Top = open[Len(open)] /\ Len(open) >= 1
      BY NestedFacts DEF Inv, Frames, Nested
    <3>2. current = Here(Top)
      BY <3>1 DEF Inv, Frames
    <3>3. Len(open) > 1
      <4>1. Len(open) # 1
        <5>1. ASSUME Len(open) = 1 PROVE FALSE
          <6>1. Top = PackageFrame
            BY <3>1, <5>1 DEF Inv, Frames, Nested
          <6>2. current = Package
            BY <3>2, <6>1 DEF Here, PackageFrame
          <6> QED
            BY <6>2 DEF Inv, Tree
        <5> QED
          BY <5>1
      <4> QED
        BY <3>1, <4>1
    <3>4. Stands(scopes, Top)
      BY <3>3, NestedFacts
    <3>5. Top.construct = "expansion" /\ Top.scope = current
      BY <3>2, <3>4 DEF Stands, Here, Opens, Kind
    <3>6. Parent(Parent(current)) = Top.saved
      BY <3>4, <3>5 DEF Stands, Parent
    <3>7. Len(open) \in ExpansionFrames /\ ExpansionFrames \subseteq 0 .. Len(open)
      BY <3>1, <3>5 DEF ExpansionFrames
    <3>8. Max(ExpansionFrames) \in 0 .. Len(open) /\ Len(open) <= Max(ExpansionFrames)
      BY <3>1, <3>7, MaxFacts
    <3>9. Max(ExpansionFrames) = Len(open)
      BY <3>1, <3>8
    <3> QED
      BY <3>1, <3>6, <3>9 DEF CallerScope
  <2>2. ASSUME NEW parent, NEW kind, NEW ident, PutUnder(parent, kind, ident)
        PROVE  /\ scopes'[Len(scopes')].kind = kind /\ scopes'[Len(scopes')].parent = parent
               /\ NewScope # current
    <3>1. scopes' = Append(scopes, [kind |-> kind, parent |-> parent, ident |-> ident])
      BY <2>2 DEF PutUnder
    <3>2. scopes'[Len(scopes')] = [kind |-> kind, parent |-> parent, ident |-> ident] /\ NewScope # current
      BY <2>t, <3>1 DEF NewScope
    <3> QED
      BY <3>2
  <2>3. /\ scopes' # scopes /\ current' = current
        /\ scopes'[Len(scopes')].kind \in {"LOCAL", "FIELD"}
        /\ scopes'[Len(scopes')].parent # current
    BY DEF Hoists
  <2>4. ASSUME NEW parent, NEW kind, NEW ident, NEW construct, PutUnder(parent, kind, ident), Enter(construct)
        PROVE  FALSE
    BY <2>2, <2>3, <2>4 DEF Enter
  <2>5. ASSUME NEW n \in Names, NEW expand \in BOOLEAN, NEW initializer, DeclareVariable(n, expand, initializer)
        PROVE  scopes'[Len(scopes')].parent = CallerScope
    <3>1. PICK kind : ll_typer_scope_put(kind, n, expand)
      BY <2>5 DEF DeclareVariable
    <3>2. scopes'[Len(scopes')].parent = PutParent(expand)
      BY <2>2, <3>1 DEF ll_typer_scope_put
    <3> QED
      BY <2>1, <2>3, <3>2 DEF PutParent
  <2>6. CASE EnterBlock \/ EnterLoop \/ ExpandMacro \/ \E n \in Names : EnterStruct(n) \/ EnterFunction(n)
    BY <2>4, <2>6 DEF EnterBlock, EnterLoop, ExpandMacro, EnterStruct, EnterFunction, ll_typer_scope_put
  <2>7. CASE EnterBareBlock \/ Leave
    BY <2>3, <2>7 DEF EnterBareBlock, Leave
  <2>8. ASSUME NEW n \in Names, DeclareParameter(n) \/ DeclareMacroParameter(n)
        PROVE  FALSE
    <3>1. PICK kind \in {"PARAMETER", "STRUCT", "MACRO_PARAMETER"} : PutUnder(PutParent(FALSE), kind, n)
      BY <2>8 DEF DeclareParameter, DeclareMacroParameter, ll_typer_scope_put
    <3>2. scopes'[Len(scopes')].kind = kind
      BY <2>2, <3>1
    <3> QED
      BY <2>3, <3>2
  <2>9. CASE EnterBody \/ EnterExpansion
    <3>1. current' = NewScope
      BY <2>9 DEF EnterBody, EnterExpansion
    <3>2. PICK kind, parent : PutUnder(parent, kind, NoName)
      BY <2>9 DEF EnterBody, EnterExpansion, ll_typer_scope_put
    <3> QED
      BY <2>2, <2>3, <3>1, <3>2
  <2>10. ASSUME NEW n \in Names, NEW expand \in BOOLEAN, InstantiateFunction(n, expand) PROVE FALSE
    BY <2>4, <2>10 DEF InstantiateFunction
  <2> QED
    BY <2>5, <2>6, <2>7, <2>8, <2>9, <2>10 DEF Next
<1> QED
  BY <1>1, ScopesInvariant, PTL DEF Spec, HoistFromBody
-----------------------------------------------------------------------------
\* A frame of the function being typed whose scope the typer is in or was in.
Stood(s) ==
    \E i \in FunctionFrames :
        /\ open[i].construct # "bare block"
        /\ \/ open[i].scope = s
           \/ open[i].construct = "expansion" /\ Parent(open[i].scope) = s

\* The frames of a function, from its own one to the innermost.
LEMMA FramesOfFunction ==
    ASSUME Inv
    PROVE  /\ Len(open) \in FunctionFrames /\ FunctionFrames \subseteq 1 .. Len(open)
           /\ \A i \in FunctionFrames : i # 1 /\ open[i].construct \notin {"signature", "function"}
                => i - 1 \in FunctionFrames
<1>t. Len(open) \in Nat /\ DOMAIN open = 1 .. Len(open) /\ Len(open) >= 1
  BY NestedFacts DEF Inv, Frames, Nested
<1> DEFINE starts == {i \in DOMAIN open : open[i].construct \in {"signature", "function"}}
<1>1. CASE starts = {}
  <2>1. FunctionFrames = DOMAIN open
    BY <1>1 DEF FunctionFrames
  <2> QED
    BY <1>t, <2>1
<1>2. CASE starts # {}
  <2>1. FunctionFrames = Max(starts) .. Len(open)
    BY <1>2 DEF FunctionFrames
  <2>2. Max(starts) \in starts
    <3>1. starts \subseteq 0 .. Len(open)
      BY <1>t
    <3> HIDE DEF starts
    <3> QED
      BY <1>t, <1>2, <3>1, MaxFacts
  <2>3. Max(starts) \in 1 .. Len(open) /\ open[Max(starts)].construct \in {"signature", "function"}
    BY <1>t, <2>2
  <2> HIDE DEF starts
  <2> QED
    BY <1>t, <2>1, <2>3
<1> QED
  BY <1>1, <1>2

\* Where a frame is, is the scope of a frame of the same function.
LEMMA HereStood ==
    ASSUME Inv, NEW n \in FunctionFrames
    PROVE  Stood(Here(open[n]))
<1>t. /\ FunctionFrames \subseteq 1 .. Len(open) /\ Len(open) \in Nat /\ DOMAIN open = 1 .. Len(open)
      /\ \A i \in FunctionFrames : i # 1 /\ open[i].construct \notin {"signature", "function"}
           => i - 1 \in FunctionFrames
      /\ open[1] = PackageFrame
      /\ \A i \in DOMAIN open : i # 1 => open[i].saved = Here(open[i - 1])
  BY FramesOfFunction, NestedFacts DEF Inv, Frames, Nested
<1> DEFINE Bad == {i \in FunctionFrames : ~Stood(Here(open[i]))}
<1>1. Bad = {}
  <2> SUFFICES ASSUME Bad # {} PROVE FALSE
    OBVIOUS
  <2>1. PICK i \in Bad : \A k \in Bad : i <= k
    <3>1. Bad \subseteq Nat
      <4>1. FunctionFrames \subseteq Nat
        BY <1>t
      <4> QED
        BY <4>1
    <3> HIDE DEF Bad
    <3> QED
      BY <3>1, Least
  <2>2. i \in FunctionFrames /\ ~Stood(Here(open[i])) /\ i \in Nat
    BY <1>t
  <2>3. open[i].construct = "bare block"
    <3>1. ASSUME open[i].construct # "bare block" PROVE FALSE
      <4>1. Here(open[i]) = open[i].scope
        BY <3>1 DEF Here
      <4> QED
        BY <2>2, <3>1, <4>1 DEF Stood
    <3> QED
      BY <3>1
  <2>4. i # 1
    <3>1. open[1].construct = "package"
      BY <1>t DEF PackageFrame
    <3> QED
      BY <2>3, <3>1
  <2>5. i - 1 \in FunctionFrames
    BY <1>t, <2>2, <2>3, <2>4
  <2>6. Here(open[i]) = Here(open[i - 1])
    BY <1>t, <2>2, <2>3, <2>4 DEF Here
  <2>7. i - 1 \in Bad
    BY <2>2, <2>5, <2>6
  <2> QED
    BY <2>1, <2>2, <2>7
<1> QED
  BY <1>1

\* Going up from a scope of the function, short of the function itself, comes to
\* a scope of the function.
LEMMA StoodAbove ==
    ASSUME Inv, NEW s \in DOMAIN scopes, Stood(s), Kind(s) \notin {"FUNCTION", "STRUCT", "PACKAGE"}
    PROVE  Stood(Parent(s))
<1>1. PICK i \in FunctionFrames :
        /\ open[i].construct # "bare block"
        /\ open[i].scope = s \/ (open[i].construct = "expansion" /\ Parent(open[i].scope) = s)
  BY DEF Stood
<1>t. /\ FunctionFrames \subseteq 1 .. Len(open) /\ DOMAIN open = 1 .. Len(open)
      /\ i # 1 /\ open[i].construct \notin {"signature", "function"} => i - 1 \in FunctionFrames
  BY FramesOfFunction, NestedFacts
<1>2. i # 1
  <2>1. ASSUME i = 1 PROVE FALSE
    <3>1. open[i] = PackageFrame
      BY <2>1 DEF Inv, Frames, Nested
    <3>2. s = Package
      BY <1>1, <3>1 DEF PackageFrame
    <3> QED
      BY <3>2 DEF Inv, Tree
  <2> QED
    BY <2>1
<1>3. Stands(scopes, open[i]) /\ open[i].saved = Here(open[i - 1])
  BY <1>t, <1>2 DEF Inv, Frames, Nested
<1>4. CASE open[i].construct = "expansion"
  <2>1. Parent(Parent(open[i].scope)) = open[i].saved
    BY <1>3, <1>4 DEF Stands, Parent
  <2>2. i - 1 \in FunctionFrames
    BY <1>t, <1>2, <1>4
  <2>3. CASE open[i].scope = s
    BY <1>1, <1>4, <2>3 DEF Stood
  <2>4. CASE Parent(open[i].scope) = s
    BY <1>3, <2>1, <2>2, <2>4, HereStood
  <2> QED
    BY <1>1, <2>3, <2>4
<1>5. CASE open[i].construct # "expansion"
  <2>1. open[i].scope = s
    BY <1>1, <1>5
  <2>2. Opens(open[i].construct, Kind(s)) /\ Parent(s) = open[i].saved
    BY <1>1, <1>3, <1>5, <2>1 DEF Stands, Kind, Parent
  <2>3. open[i].construct \notin {"signature", "function"}
    BY <2>2 DEF Opens
  <2>4. i - 1 \in FunctionFrames
    BY <1>t, <1>2, <2>3
  <2> QED
    BY <1>3, <2>2, <2>4, HereStood
<1> QED
  BY <1>4, <1>5

\* So the scopes up to the function's own are scopes of it.
LEMMA ChainStood ==
    ASSUME Inv, NEW chain, Climbs(chain, current), NEW n \in DOMAIN chain,
           \A k \in 1 .. n - 1 : Kind(chain[k]) \notin {"FUNCTION", "STRUCT", "PACKAGE"}
    PROVE  Stood(chain[n])
<1>t. /\ DOMAIN chain = 1 .. Len(chain) /\ Len(chain) \in Nat /\ chain[1] = current
      /\ \A i \in DOMAIN chain : chain[i] \in DOMAIN scopes
      /\ \A i \in DOMAIN chain : i + 1 \in DOMAIN chain => chain[i + 1] = Parent(chain[i])
  BY DEF Climbs
<1> DEFINE Bad == {i \in 1 .. n : ~Stood(chain[i])}
<1>1. Bad = {}
  <2> SUFFICES ASSUME Bad # {} PROVE FALSE
    OBVIOUS
  <2>1. PICK i \in Bad : \A k \in Bad : i <= k
    <3>1. Bad \subseteq Nat
      BY <1>t
    <3> HIDE DEF Bad
    <3> QED
      BY <3>1, Least
  <2>2. i \in 1 .. n /\ ~Stood(chain[i]) /\ i \in Nat /\ n \in Nat
    BY <1>t
  <2>3. CASE i = 1
    <3>1. Stood(Here(open[Len(open)]))
      BY FramesOfFunction, HereStood
    <3>2. current = Here(open[Len(open)])
      BY DEF Inv, Frames
    <3> QED
      BY <1>t, <2>2, <2>3, <3>1, <3>2
  <2>4. CASE i # 1
    <3>1. PICK k \in 1 .. n - 1 : k + 1 = i /\ k \in DOMAIN chain /\ k + 1 \in DOMAIN chain
      <4>1. i - 1 \in 1 .. n - 1 /\ (i - 1) + 1 = i /\ i - 1 \in DOMAIN chain /\ i \in DOMAIN chain
        BY <1>t, <2>2, <2>4
      <4> QED
        BY <4>1
    <3>2. Stood(chain[k])
      BY <2>1, <2>2, <3>1
    <3>3. Stood(Parent(chain[k]))
      BY <1>t, <3>1, <3>2, StoodAbove
    <3> QED
      BY <1>t, <2>2, <3>1, <3>3
  <2> QED
    BY <2>3, <2>4
<1>2. n \in 1 .. n
  BY <1>t
<1> QED
  BY <1>1, <1>2

\* A break or a return refers to a construct that is being typed and that is in
\* the innermost function.
THEOREM ScopesTargets == Spec => []ControlTargetsOpen
<1>1. Inv => ControlTargetsOpen
  <2> SUFFICES ASSUME Inv PROVE ControlTargetsOpen
    OBVIOUS
  <2>1. current \in DOMAIN scopes /\ Tree
    BY NestedFacts DEF Inv
  <2>2. PICK chain : chain = Chain[current] /\ Climbs(chain, current)
    BY <2>1, ChainClimbs
  <2>3. /\ DOMAIN chain = 1 .. Len(chain) /\ Len(chain) \in Nat /\ Len(chain) \in DOMAIN chain
        /\ \A i \in DOMAIN chain : chain[i] \in DOMAIN scopes
        /\ Kind(chain[Len(chain)]) = "PACKAGE"
    BY <2>1, <2>2 DEF Climbs, Tree
  <2> DEFINE mine == {open[i].scope : i \in FunctionFrames}
  <2>4. ASSUME NEW n \in DOMAIN chain,
               \A k \in 1 .. n - 1 : Kind(chain[k]) \notin {"FUNCTION", "STRUCT", "PACKAGE"},
               Kind(chain[n]) # "BLOCK"
        PROVE  chain[n] \in mine
    <3>1. Stood(chain[n])
      BY <2>2, <2>4, ChainStood
    <3>2. PICK i \in FunctionFrames :
            /\ open[i].construct # "bare block"
            /\ open[i].scope = chain[n] \/ (open[i].construct = "expansion" /\ Parent(open[i].scope) = chain[n])
      BY <3>1 DEF Stood
    <3>3. CASE open[i].construct = "expansion" /\ Parent(open[i].scope) = chain[n]
      <4>1. i \in DOMAIN open /\ i # 1
        <5>1. i \in DOMAIN open
          BY FramesOfFunction, NestedFacts
        <5>2. open[1].construct = "package"
          BY DEF Inv, Frames, Nested, PackageFrame
        <5> QED
          BY <3>3, <5>1, <5>2
      <4>2. Stands(scopes, open[i])
        BY <4>1 DEF Inv, Frames, Nested
      <4>3. open[i].scope \in DOMAIN scopes /\ Kind(open[i].scope) = "MACRO_EXPANSION"
        BY <3>3, <4>2 DEF Stands, Opens, Kind
      <4>4. Kind(Parent(open[i].scope)) = "BLOCK"
        BY <2>1, <4>3 DEF Tree
      <4> QED
        BY <2>4, <3>3, <4>4
    <3>4. CASE open[i].scope = chain[n]
      BY <3>4
    <3> QED
      BY <3>2, <3>3, <3>4
  <2>5. ASSUME NEW target \in {"any", "do", "for"}
        PROVE  BreakTarget(target) \in mine \union {NullScope, Crash}
    <3> DEFINE I == {i \in 1 .. Len(chain) : StopsBreak(chain[i], target)}
    <3>1. Len(chain) \in I
      BY <2>3 DEF StopsBreak
    <3>2. PICK n \in I : n = Min(I) /\ \A i \in I : n <= i
      <4>1. I \subseteq Nat
        BY <2>3
      <4> HIDE DEF I
      <4> QED
        BY <3>1, <4>1, MinFacts
    <3>3. BreakTarget(target) = CASE Kind(chain[n]) = "BLOCK" -> Crash
                                  [] Kind(chain[n]) \in {"LOOP", "BLOCK_VALUE"} -> chain[n]
                                  [] OTHER -> NullScope
      <4>1. I # {}
        BY <3>1
      <4> QED
        BY <2>2, <3>2, <4>1 DEF BreakTarget, SelectInSeq
    <3>4. ASSUME NEW k \in 1 .. n - 1 PROVE Kind(chain[k]) \notin {"FUNCTION", "STRUCT", "PACKAGE"}
      <4>1. k \in 1 .. Len(chain) /\ k < n
        BY <2>3
      <4>2. ~StopsBreak(chain[k], target)
        BY <2>3, <3>2, <4>1
      <4> QED
        BY <4>2 DEF StopsBreak
    <3>5. n \in DOMAIN chain
      BY <2>3
    <3>6. Kind(chain[n]) # "BLOCK" => chain[n] \in mine
      BY <2>4, <3>4, <3>5
    <3> HIDE DEF mine
    <3>7. PICK kind : kind = Kind(chain[n])
      OBVIOUS
    <3> QED
      BY <3>3, <3>6, <3>7
  <2>6. ReturnTarget \in mine \union {NullScope}
    <3> DEFINE I == {i \in 1 .. Len(chain) : Kind(chain[i]) \in {"FUNCTION", "STRUCT", "PACKAGE"}}
    <3>1. Len(chain) \in I
      BY <2>3
    <3>2. PICK n \in I : n = Min(I) /\ \A i \in I : n <= i
      <4>1. I \subseteq Nat
        BY <2>3
      <4> HIDE DEF I
      <4> QED
        BY <3>1, <4>1, MinFacts
    <3>3. ReturnTarget = IF Kind(chain[n]) = "FUNCTION" THEN chain[n] ELSE NullScope
      <4>1. I # {}
        BY <3>1
      <4> QED
        BY <2>2, <3>2, <4>1 DEF ReturnTarget, SelectInSeq
    <3>4. ASSUME NEW k \in 1 .. n - 1 PROVE Kind(chain[k]) \notin {"FUNCTION", "STRUCT", "PACKAGE"}
      <4>1. k \in 1 .. Len(chain) /\ k < n
        BY <2>3
      <4> QED
        BY <2>3, <3>2, <4>1
    <3>5. n \in DOMAIN chain
      BY <2>3
    <3>6. Kind(chain[n]) # "BLOCK" => chain[n] \in mine
      BY <2>4, <3>4, <3>5
    <3> HIDE DEF mine
    <3> QED
      BY <3>3, <3>6
  <2> QED
    BY <2>5, <2>6 DEF ControlTargetsOpen
<1> QED
  BY <1>1, ScopesInvariant, PTL
=============================================================================
