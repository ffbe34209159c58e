--------------------------- MODULE ScanDiskProofs ---------------------------
(***************************************************************************)
(* Theorems about the device scan, for every set of devices, partitions    *)
(* and paths, and however many of them come and go, and calls fail, while  *)
(* it runs.                                                                *)
(***************************************************************************)
EXTENDS ScanDisk, SequenceTheorems, WellFoundedInduction, TLAPS

-----------------------------------------------------------------------------
(* Sequences.                                                              *)

\* A set of numbers has a least one.
LEMMA LeastIndex ==
    ASSUME NEW T \in SUBSET Nat, T # {}
    PROVE  \E x \in T : \A y \in T : x <= y
<1> DEFINE R == OpToRel(<, Nat)
<1>1. IsWellFoundedOn(R, Nat)
  BY NatLessThanWellFounded
<1> HIDE DEF R
<1>2. PICK x \in T : \A y \in T : ~ (<<y, x>> \in R)
  BY <1>1, WFMin
<1>3. \A y \in T : <<y, x>> \in R \/ ~ (y < x)
  BY DEF R, OpToRel
<1>4. \A y \in T : ~ (y < x)
  BY <1>2, <1>3
<1>. QED BY <1>4

\* The element of s at index i joins r if it is in S.
Join(r, s, S, i) == IF s[i] \in S THEN Append(r, s[i]) ELSE r

\* f computes the first m prefixes of Those(s, S).
Stages(f, s, S, m) ==
    /\ f = [i \in 0 .. Len(s) |-> f[i]]
    /\ f[0] = <<>>
    /\ \A i \in 1 .. m : f[i] = Join(f[i - 1], s, S, i)

\* Some function computes all of them.
LEMMA StagesExist ==
    ASSUME NEW T, NEW s \in Seq(T), NEW S
    PROVE  \E f : Stages(f, s, S, Len(s))
<1> DEFINE N == Len(s)
           Bad == {m \in 0 .. N : ~ \E f : Stages(f, s, S, m)}
<1>1. N \in Nat
  OBVIOUS
<1>2. SUFFICES ASSUME Bad # {} PROVE FALSE
  BY <1>1
<1>3. PICK m \in Bad : \A y \in Bad : m <= y
  <2>1. Bad \in SUBSET Nat
    BY <1>1
  <2> HIDE DEF Bad
  <2>. QED BY <1>2, <2>1, LeastIndex
<1>4. m \in 0 .. N /\ m \in Nat /\ ~ \E f : Stages(f, s, S, m)
  BY <1>1
<1>5. m # 0
  <2> DEFINE f == [i \in 0 .. N |-> <<>>]
  <2>1. Stages(f, s, S, 0)
    BY <1>1 DEF Stages
  <2>. QED BY <1>4, <2>1
<1>6. PICK f : Stages(f, s, S, m - 1)
  <2>1. m - 1 \in 0 .. N /\ ~ (m <= m - 1)
    BY <1>1, <1>4, <1>5
  <2>2. m - 1 \notin Bad
    <3> HIDE DEF Bad
    <3>. QED BY <1>3, <2>1
  <2>. QED BY <2>1, <2>2
<1> DEFINE g == [i \in 0 .. Len(s) |-> IF i = m THEN Join(f[m - 1], s, S, m) ELSE f[i]]
<1>7. Stages(g, s, S, m)
  <2>0. DOMAIN f = 0 .. Len(s)
    BY <1>6 DEF Stages
  <2>1. /\ g = [i \in 0 .. Len(s) |-> g[i]]
        /\ g[0] = <<>> /\ g[m] = Join(f[m - 1], s, S, m)
    BY <1>1, <1>4, <1>5, <1>6, <2>0 DEF Stages
  <2>2. \A i \in 0 .. m - 1 : g[i] = f[i]
    BY <1>1, <1>4, <1>5, <1>6, <2>0 DEF Stages
  <2>3. \A i \in 1 .. m - 1 : f[i] = Join(f[i - 1], s, S, i)
    BY <1>6 DEF Stages
  <2> HIDE DEF g
  <2>4. ASSUME NEW i \in 1 .. m PROVE g[i] = Join(g[i - 1], s, S, i)
    <3>1. i - 1 \in 0 .. m - 1
      BY <1>4
    <3>2. g[i - 1] = f[i - 1]
      BY <2>2, <3>1
    <3>3. CASE i = m
      BY <2>1, <3>2, <3>3
    <3>4. CASE i # m
      <4>1. i \in 1 .. m - 1 /\ i \in 0 .. m - 1
        BY <1>4, <3>4
      <4>. QED BY <2>2, <2>3, <3>2, <4>1
    <3>. QED BY <3>3, <3>4
  <2>. QED BY <2>1, <2>4 DEF Stages
<1>. QED BY <1>4, <1>7

\* The sequence r has the elements that are among the first i of s and in S.
Picks(r, s, S, T, i) ==
    /\ r \in Seq(T)
    /\ \A x : x \in ToSet(r) <=> (x \in S /\ \E j \in 1 .. i : s[j] = x)
    /\ IsInjective(s) => IsInjective(r)

\* One element more.
LEMMA PicksOne ==
    ASSUME NEW T, NEW s \in Seq(T), NEW S, NEW i \in 1 .. Len(s), NEW r,
           Picks(r, s, S, T, i - 1)
    PROVE  Picks(Join(r, s, S, i), s, S, T, i)
<1>1. r \in Seq(T) /\ s[i] \in T /\ i \in Nat
  BY DEF Picks
<1>2. \A x : (\E j \in 1 .. i : s[j] = x) <=> (s[i] = x \/ \E j \in 1 .. i - 1 : s[j] = x)
  BY <1>1
<1>3. CASE s[i] \notin S
  BY <1>2, <1>3 DEF Picks, Join
<1>4. CASE s[i] \in S
  <2> DEFINE q == Append(r, s[i])
  <2>1. q \in Seq(T) /\ Len(q) = Len(r) + 1 /\ q[Len(q)] = s[i]
        /\ \A j \in 1 .. Len(r) : q[j] = r[j]
    BY <1>1
  <2>2. DOMAIN q = 1 .. Len(r) + 1 /\ DOMAIN r = 1 .. Len(r) /\ Len(r) \in Nat
    BY <1>1
  <2> HIDE DEF q
  <2>3. \A x : x \in ToSet(q) <=> (x \in ToSet(r) \/ x = s[i])
    BY <2>1, <2>2 DEF ToSet
  <2>4. ASSUME IsInjective(s) PROVE IsInjective(q)
    <3>1. IsInjective(r) /\ \A j \in 1 .. Len(r) : r[j] \in ToSet(r)
      BY <2>2, <2>4 DEF Picks, ToSet
    <3>2. s[i] \notin ToSet(r)
      <4>1. \A j \in 1 .. i - 1 : s[j] # s[i]
        BY <1>1, <2>4 DEF IsInjective
      <4>. QED BY <4>1 DEF Picks
    <3>. QED BY <2>1, <2>2, <3>1, <3>2 DEF IsInjective
  <2>5. Join(r, s, S, i) = q
    BY <1>4 DEF Join, q
  <2>6. \A x : x \in ToSet(r) <=> (x \in S /\ \E j \in 1 .. i - 1 : s[j] = x)
    BY DEF Picks
  <2>7. \A x : x \in ToSet(q) <=> (x \in S /\ \E j \in 1 .. i : s[j] = x)
    BY <1>2, <1>4, <2>3, <2>6, Zenon
  <2>. QED BY <2>1, <2>4, <2>5, <2>7 DEF Picks
<1>. QED BY <1>3, <1>4

\* Those(s, S) is a sequence of the elements of s that are in S, and repeats
\* none if s does not: what scandir and the loops over a list rely on.
LEMMA ThoseAre ==
    ASSUME NEW T, NEW s \in Seq(T), NEW S
    PROVE  /\ Those(s, S) \in Seq(T)
           /\ ToSet(Those(s, S)) = ToSet(s) \cap S
           /\ IsInjective(s) => IsInjective(Those(s, S))
<1> DEFINE N == Len(s)
           body(f) == [i \in 0 .. N |-> IF i = 0 THEN <<>>
                                       ELSE IF s[i] \in S THEN Append(f[i - 1], s[i])
                                                          ELSE f[i - 1]]
           g == CHOOSE f : f = body(f)
<1>1. N \in Nat
  OBVIOUS
<1>2. Those(s, S) = g[N]
  BY DEF Those
<1>3. \E f : f = body(f)
  <2>1. PICK f : Stages(f, s, S, N)
    BY StagesExist
  <2> DEFINE e(i) == IF i = 0 THEN <<>>
                    ELSE IF s[i] \in S THEN Append(f[i - 1], s[i]) ELSE f[i - 1]
  <2>2. \A i \in 0 .. N : f[i] = e(i)
    <3>1. f[0] = <<>> /\ \A i \in 1 .. N : f[i] = Join(f[i - 1], s, S, i)
      BY <2>1, Zenon DEF Stages
    <3>2. \A i \in 0 .. N : i = 0 \/ (i # 0 /\ i \in 1 .. N)
      BY <1>1
    <3>. QED BY <3>1, <3>2 DEF Join
  <2>3. f = [i \in 0 .. N |-> f[i]]
    BY <2>1 DEF Stages
  <2>4. f = [i \in 0 .. N |-> e(i)]
    <3> HIDE DEF e, N
    <3>1. [i \in 0 .. N |-> f[i]] = [i \in 0 .. N |-> e(i)]
      BY <2>2
    <3>. QED BY <2>3, <3>1, Zenon
  <2>. QED BY <2>4
<1>4. g = body(g)
  <2> HIDE DEF body
  <2>. QED BY <1>3
<1>5. g[0] = <<>> /\ \A i \in 1 .. N : g[i] = Join(g[i - 1], s, S, i)
  <2> DEFINE b == body(g)
  <2>1. b[0] = <<>> /\ \A i \in 1 .. N : b[i] = Join(g[i - 1], s, S, i)
    BY <1>1 DEF Join
  <2> HIDE DEF b, g
  <2>2. g = b
    BY <1>4 DEF b
  <2>. QED BY <2>1, <2>2
<1> HIDE DEF g
<1> DEFINE Bad == {i \in 0 .. N : ~ Picks(g[i], s, S, T, i)}
<1>6. Bad = {}
  <2> SUFFICES ASSUME Bad # {} PROVE FALSE
    OBVIOUS
  <2>1. PICK m \in Bad : \A y \in Bad : m <= y
    <3>1. Bad \in SUBSET Nat
      BY <1>1
    <3> HIDE DEF Bad
    <3>. QED BY <3>1, LeastIndex
  <2>2. m \in 0 .. N /\ m \in Nat /\ ~ Picks(g[m], s, S, T, m)
    BY <1>1
  <2>3. CASE m = 0
    <3>1. Picks(<<>>, s, S, T, 0)
      BY DEF Picks, ToSet, IsInjective
    <3>. QED BY <1>5, <2>2, <2>3, <3>1
  <2>4. CASE m # 0
    <3>1. m - 1 \in 0 .. N /\ ~ (m <= m - 1) /\ m \in 1 .. N
      BY <1>1, <2>2, <2>4
    <3>2. m - 1 \notin Bad
      <4> HIDE DEF Bad
      <4>. QED BY <2>1, <3>1
    <3>3. Picks(g[m - 1], s, S, T, m - 1)
      BY <3>1, <3>2
    <3>. QED BY <1>5, <2>2, <3>1, <3>3, PicksOne
  <2>. QED BY <2>3, <2>4
<1>7. Picks(g[N], s, S, T, N)
  <2>1. N \in 0 .. N
    BY <1>1
  <2>. QED BY <1>6, <2>1
<1>8. DOMAIN s = 1 .. N
  OBVIOUS
<1>9. \A x : x \in ToSet(g[N]) <=> x \in ToSet(s) /\ x \in S
  BY <1>7, <1>8 DEF Picks, ToSet
<1>. QED BY <1>2, <1>7, <1>9 DEF Picks

\* The first element of a sequence and the others.
LEMMA HeadTail ==
    ASSUME NEW T, NEW s \in Seq(T), s # <<>>
    PROVE  /\ Head(s) \in ToSet(s) /\ Head(s) \in T /\ Tail(s) \in Seq(T)
           /\ \A x : x \in ToSet(s) <=> (x = Head(s) \/ x \in ToSet(Tail(s)))
           /\ IsInjective(s) => Head(s) \notin ToSet(Tail(s)) /\ IsInjective(Tail(s))
<1>1. Len(s) \in Nat \ {0} /\ Head(s) = s[1] /\ DOMAIN s = 1 .. Len(s)
  OBVIOUS
<1>2. /\ Tail(s) \in Seq(T) /\ Len(Tail(s)) = Len(s) - 1
      /\ \A i \in 1 .. Len(s) - 1 : Tail(s)[i] = s[i + 1]
  OBVIOUS
<1>3. DOMAIN Tail(s) = 1 .. Len(s) - 1
  BY <1>1, <1>2
<1> DEFINE t == Tail(s)
<1> HIDE DEF t
<1>4. \A x : x \in ToSet(s) <=> (x = Head(s) \/ x \in ToSet(t))
  <2>1. ASSUME NEW i \in 1 .. Len(s) PROVE s[i] = s[1] \/ s[i] \in ToSet(t)
    <3>1. CASE i # 1
      <4>1. i - 1 \in 1 .. Len(s) - 1 /\ t[i - 1] = s[i]
        BY <1>1, <1>2, <3>1 DEF t
      <4>. QED BY <1>3, <4>1 DEF ToSet, t
    <3>. QED BY <3>1
  <2>2. ASSUME NEW i \in 1 .. Len(s) - 1 PROVE t[i] \in ToSet(s)
    <3>1. i + 1 \in 1 .. Len(s) /\ t[i] = s[i + 1]
      BY <1>1, <1>2 DEF t
    <3>. QED BY <1>1, <3>1 DEF ToSet
  <2>3. 1 \in 1 .. Len(s)
    BY <1>1
  <2>4. \A x \in ToSet(s) : x = Head(s) \/ x \in ToSet(t)
    BY <1>1, <2>1 DEF ToSet
  <2>5. \A x \in ToSet(t) : x \in ToSet(s)
    <3>1. DOMAIN t = 1 .. Len(s) - 1
      BY <1>3 DEF t
    <3>. QED BY <2>2, <3>1 DEF ToSet
  <2>6. Head(s) \in ToSet(s)
    BY <1>1, <2>3 DEF ToSet
  <2>. QED BY <2>4, <2>5, <2>6
<1>5. ASSUME IsInjective(s) PROVE Head(s) \notin ToSet(t) /\ IsInjective(t)
  <2>1. \A i \in 1 .. Len(s) - 1 : i + 1 \in 1 .. Len(s) /\ i + 1 # 1 /\ t[i] = s[i + 1]
    BY <1>1, <1>2 DEF t
  <2>2. 1 \in 1 .. Len(s) /\ \A i, j \in 1 .. Len(s) : s[i] = s[j] => i = j
    BY <1>1, <1>5 DEF IsInjective
  <2>3. \A i, j \in 1 .. Len(s) - 1 : i + 1 = j + 1 => i = j
    OBVIOUS
  <2>4. DOMAIN t = 1 .. Len(s) - 1
    BY <1>3 DEF t
  <2>5. IsInjective(t)
    <3>1. SUFFICES ASSUME NEW i \in 1 .. Len(s) - 1, NEW j \in 1 .. Len(s) - 1, t[i] = t[j]
                   PROVE  i = j
      BY <2>4, Zenon DEF IsInjective
    <3>2. i + 1 = j + 1
      BY <2>1, <2>2, <3>1, Zenon
    <3>. QED BY <3>2
  <2>6. Head(s) \notin ToSet(t)
    <3>1. \A i \in 1 .. Len(s) - 1 : t[i] # s[1]
      BY <2>1, <2>2, Zenon
    <3>. QED BY <1>1, <2>4, <3>1 DEF ToSet
  <2>. QED BY <2>5, <2>6
<1>. QED BY <1>1, <1>2, <1>4, <1>5 DEF t, ToSet

\* The elements of sequences that are joined, and of the empty one.
LEMMA JoinedSets ==
    ASSUME NEW T, NEW s \in Seq(T), NEW t \in Seq(T)
    PROVE  /\ s \o t \in Seq(T)
           /\ \A x : x \in ToSet(s \o t) <=> (x \in ToSet(s) \/ x \in ToSet(t))
<1> DEFINE u == s \o t
<1>1. /\ u \in Seq(T) /\ Len(u) = Len(s) + Len(t) /\ Len(s) \in Nat /\ Len(t) \in Nat
      /\ \A i \in 1 .. Len(s) : u[i] = s[i]
      /\ \A i \in 1 .. Len(t) : u[Len(s) + i] = t[i]
  OBVIOUS
<1>2. DOMAIN u = 1 .. Len(s) + Len(t) /\ DOMAIN s = 1 .. Len(s) /\ DOMAIN t = 1 .. Len(t)
  BY <1>1
<1> HIDE DEF u
<1>3. ASSUME NEW i \in 1 .. Len(s) + Len(t) PROVE u[i] \in ToSet(s) \/ u[i] \in ToSet(t)
  <2>1. CASE i <= Len(s)
    <3>1. i \in DOMAIN s /\ u[i] = s[i]
      BY <1>1, <1>2, <2>1
    <3>. QED BY <3>1 DEF ToSet
  <2>2. CASE ~ (i <= Len(s))
    <3>1. i - Len(s) \in 1 .. Len(t) /\ Len(s) + (i - Len(s)) = i
      BY <1>1, <2>2
    <3>2. u[i] = t[i - Len(s)]
      BY <1>1, <3>1
    <3>. QED BY <1>2, <3>1, <3>2 DEF ToSet
  <2>. QED BY <2>1, <2>2
<1>4. ASSUME NEW i \in 1 .. Len(s) PROVE s[i] \in ToSet(u)
  <2>1. i \in DOMAIN u /\ u[i] = s[i]
    BY <1>1, <1>2
  <2>. QED BY <2>1 DEF ToSet
<1>5. ASSUME NEW i \in 1 .. Len(t) PROVE t[i] \in ToSet(u)
  <2>1. Len(s) + i \in DOMAIN u /\ u[Len(s) + i] = t[i]
    BY <1>1, <1>2
  <2>. QED BY <2>1 DEF ToSet
<1>6. \A x : x \in ToSet(u) <=> (x \in ToSet(s) \/ x \in ToSet(t))
  <2>1. \A x \in ToSet(u) : x \in ToSet(s) \/ x \in ToSet(t)
    BY <1>2, <1>3 DEF ToSet
  <2>2. \A x \in ToSet(s) : x \in ToSet(u)
    <3>1. \A x \in ToSet(s) : \E i \in 1 .. Len(s) : x = s[i]
      BY <1>2 DEF ToSet
    <3>. QED BY <1>4, <3>1
  <2>3. \A x \in ToSet(t) : x \in ToSet(u)
    <3>1. \A x \in ToSet(t) : \E i \in 1 .. Len(t) : x = t[i]
      BY <1>2 DEF ToSet
    <3>. QED BY <1>5, <3>1
  <2>. QED BY <2>1, <2>2, <2>3
<1>. QED BY <1>1, <1>6 DEF u

\* A sequence with another element at one place.
LEMMA OneChanged ==
    ASSUME NEW T, NEW s \in Seq(T), NEW i \in 1 .. Len(s), NEW e \in T
    PROVE  /\ [s EXCEPT ![i] = e] \in Seq(T) /\ Len([s EXCEPT ![i] = e]) = Len(s)
           /\ [s EXCEPT ![i] = e][i] = e
           /\ \A j \in 1 .. Len(s) : j # i => [s EXCEPT ![i] = e][j] = s[j]
OBVIOUS

-----------------------------------------------------------------------------
(* The list.                                                               *)

\* find_dev_by_majmin finds the first node of a device, if there is one.
LEMMA FindDevIs ==
    ASSUME NEW T, NEW l \in Seq(T), NEW d
    PROVE  \/ /\ FindDev(l, d) = 0
              /\ \A i \in 1 .. Len(l) : l[i].dev # d
           \/ /\ FindDev(l, d) \in 1 .. Len(l)
              /\ l[FindDev(l, d)].dev = d
              /\ \A i \in 1 .. Len(l) : i < FindDev(l, d) => l[i].dev # d
<1> DEFINE I == {i \in 1 .. Len(l) : l[i].dev = d}
<1>1. FindDev(l, d) = IF I # {} THEN Min(I) ELSE 0
  BY DEF FindDev, SelectInSeq
<1>2. CASE I = {}
  BY <1>1, <1>2
<1>3. CASE I # {}
  <2>1. I \in SUBSET Nat
    OBVIOUS
  <2> HIDE DEF I
  <2>2. \E x \in I : \A y \in I : x <= y
    BY <1>3, <2>1, LeastIndex
  <2>3. Min(I) \in I /\ \A y \in I : Min(I) <= y
    BY <2>2 DEF Min
  <2> DEFINE a == Min(I)
  <2> HIDE DEF a
  <2>4. \A i \in 1 .. Len(l) : i < a => i \notin I
    <3>1. a \in Nat /\ \A y \in I : a <= y
      BY <2>1, <2>3 DEF a
    <3>. QED BY <3>1
  <2>. QED BY <1>1, <1>3, <2>3, <2>4 DEF I, a
<1>. QED BY <1>2, <1>3

\* The list grows: nodes keep their place, device and attributes, and their
\* paths.
SameNode(n, m) ==
    /\ m.dev = n.dev /\ m.sysfs = n.sysfs /\ m.disk = n.disk /\ m.holders = n.holders
    /\ \A p \in ToSet(n.paths) : p \in ToSet(m.paths)
Grows(l, m) ==
    /\ l \in Seq(NodeSet) /\ m \in Seq(NodeSet) /\ Len(l) <= Len(m)
    /\ \A i \in 1 .. Len(l) : SameNode(l[i], m[i])
\* The nodes that are added did not come from sysfs and are the only ones of
\* their devices.
Adds(l, m) ==
    \A i \in 1 .. Len(m) : i > Len(l) =>
        ~ m[i].sysfs /\ \A j \in 1 .. Len(m) : m[j].dev = m[i].dev => j = i

\* A node that is found in a list is found in the longer one.
LEMMA GrowsFind ==
    ASSUME NEW l, NEW m, Grows(l, m), NEW d, FindDev(l, d) # 0
    PROVE  FindDev(m, d) = FindDev(l, d)
<1>1. l \in Seq(NodeSet) /\ m \in Seq(NodeSet) /\ Len(l) \in Nat /\ Len(m) \in Nat
  BY DEF Grows
<1>2. /\ FindDev(l, d) \in 1 .. Len(l) /\ l[FindDev(l, d)].dev = d
      /\ \A i \in 1 .. Len(l) : i < FindDev(l, d) => l[i].dev # d
  BY <1>1, FindDevIs
<1>3. /\ Len(l) <= Len(m) /\ \A i \in 1 .. Len(l) : m[i].dev = l[i].dev
  BY DEF Grows, SameNode
<1>4. \/ /\ FindDev(m, d) = 0
         /\ \A i \in 1 .. Len(m) : m[i].dev # d
      \/ /\ FindDev(m, d) \in 1 .. Len(m)
         /\ m[FindDev(m, d)].dev = d
         /\ \A i \in 1 .. Len(m) : i < FindDev(m, d) => m[i].dev # d
  BY <1>1, FindDevIs
<1>5. FindDev(l, d) \in 1 .. Len(m) /\ m[FindDev(l, d)].dev = d
  BY <1>1, <1>2, <1>3
<1>6. FindDev(m, d) \in 1 .. Len(m) /\ m[FindDev(m, d)].dev = d /\ FindDev(m, d) <= FindDev(l, d)
  BY <1>1, <1>4, <1>5
<1>7. FindDev(m, d) \in 1 .. Len(l)
  BY <1>1, <1>2, <1>6
<1>. QED BY <1>1, <1>2, <1>3, <1>6, <1>7

\* A node of a device is well formed.
LEMMA NodeTypes ==
    ASSUME NEW d \in Devs
    PROVE  /\ Node(d) \in NodeSet /\ Node(d).dev = d /\ ~ Node(d).sysfs
           /\ Node(d).paths = <<>>
BY DEF Node, NodeSet

\* alloc_list_obj leaves the nodes that are there.
LEMMA AllocGrows ==
    ASSUME NEW l \in Seq(NodeSet), NEW n \in NodeSet
    PROVE  /\ Grows(l, Alloc(l, n)) /\ Len(Alloc(l, n)) = Len(l) + 1
           /\ Alloc(l, n)[Len(l) + 1] = n
           /\ \A i \in 1 .. Len(l) : Alloc(l, n)[i] = l[i]
<1>1. /\ Append(l, n) \in Seq(NodeSet) /\ Len(Append(l, n)) = Len(l) + 1 /\ Len(l) \in Nat
      /\ Append(l, n)[Len(l) + 1] = n
      /\ \A i \in 1 .. Len(l) : Append(l, n)[i] = l[i]
  OBVIOUS
<1>. QED BY <1>1 DEF Alloc, Grows, SameNode

\* A device has a node, and only one if it had none.
LEMMA WithDevGrows ==
    ASSUME NEW l \in Seq(NodeSet), NEW d \in Devs
    PROVE  /\ Grows(l, WithDev(l, d)) /\ Adds(l, WithDev(l, d))
           /\ FindDev(WithDev(l, d), d) \in 1 .. Len(WithDev(l, d))
           /\ WithDev(l, d)[FindDev(WithDev(l, d), d)].dev = d
           /\ \A i \in 1 .. Len(WithDev(l, d)) : i > Len(l) => WithDev(l, d)[i].dev = d
<1>1. Len(l) \in Nat
  OBVIOUS
<1>2. CASE FindDev(l, d) # 0
  <2>1. WithDev(l, d) = l
    BY <1>2 DEF WithDev
  <2>2. Grows(l, l) /\ Adds(l, l)
    BY <1>1 DEF Grows, SameNode, Adds
  <2>3. FindDev(l, d) \in 1 .. Len(l) /\ l[FindDev(l, d)].dev = d
    BY <1>2, FindDevIs
  <2>. QED BY <1>1, <2>1, <2>2, <2>3
<1>3. CASE FindDev(l, d) = 0
  <2> DEFINE w == Alloc(l, Node(d))
  <2>1. WithDev(l, d) = w
    BY <1>3 DEF WithDev
  <2>2. Node(d) \in NodeSet /\ Node(d).dev = d /\ ~ Node(d).sysfs
    BY NodeTypes
  <2>3. /\ Grows(l, w) /\ Len(w) = Len(l) + 1 /\ w[Len(l) + 1] = Node(d)
        /\ \A i \in 1 .. Len(l) : w[i] = l[i]
    BY <2>2, AllocGrows
  <2>4. \A i \in 1 .. Len(l) : l[i].dev # d
    BY <1>1, <1>3, FindDevIs
  <2>5. w \in Seq(NodeSet)
    BY <2>3 DEF Grows
  <2> HIDE DEF w
  <2>6. Adds(l, w)
    BY <1>1, <2>2, <2>3, <2>4 DEF Adds
  <2>7. FindDev(w, d) \in 1 .. Len(w) /\ w[FindDev(w, d)].dev = d
    <3>1. Len(l) + 1 \in 1 .. Len(w) /\ w[Len(l) + 1].dev = d
      BY <1>1, <2>2, <2>3
    <3>. QED BY <2>5, <3>1, FindDevIs
  <2>. QED BY <1>1, <2>1, <2>2, <2>3, <2>6, <2>7
<1>. QED BY <1>2, <1>3

\* add_lsdev_block attaches the path to the node that is found for its device.
LEMMA AddPathGrows ==
    ASSUME NEW l \in Seq(NodeSet), NEW p \in Paths
    PROVE  /\ Grows(l, AddPath(l, p)) /\ Adds(l, AddPath(l, p))
           /\ FindDev(AddPath(l, p), PathDev[p]) # 0
           /\ p \in ToSet(AddPath(l, p)[FindDev(AddPath(l, p), PathDev[p])].paths)
<1> DEFINE d == PathDev[p]
           w == WithDev(l, d)
           k == FindDev(w, d)
           m == AddPath(l, p)
           q == Append(w[k].paths, p)
<1>1. d \in Devs
  BY PathsAssumption
<1>2. m = [w EXCEPT ![k].paths = Append(@, p)]
  BY DEF AddPath
<1> HIDE DEF m, d
<1>3. /\ Grows(l, w) /\ Adds(l, w) /\ k \in 1 .. Len(w) /\ w[k].dev = d
  BY <1>1, WithDevGrows
<1>4. w \in Seq(NodeSet) /\ Len(w) \in Nat /\ Len(l) \in Nat
  BY <1>3 DEF Grows
<1> HIDE DEF w, k
<1>5. w[k] \in NodeSet /\ w[k].paths \in Seq(Paths)
  <2>1. w[k] \in NodeSet
    BY <1>3, <1>4
  <2>. QED BY <2>1 DEF NodeSet
<1>6. q \in Seq(Paths) /\ p \in ToSet(q) /\ \A x \in ToSet(w[k].paths) : x \in ToSet(q)
  <2>1. /\ q \in Seq(Paths) /\ Len(q) = Len(w[k].paths) + 1 /\ q[Len(q)] = p
        /\ Len(w[k].paths) \in Nat
        /\ \A i \in 1 .. Len(w[k].paths) : q[i] = w[k].paths[i]
    BY <1>5
  <2>2. DOMAIN q = 1 .. Len(q) /\ DOMAIN (w[k].paths) = 1 .. Len(w[k].paths)
    BY <1>5, <2>1
  <2> DEFINE r == w[k].paths
  <2> HIDE DEF q, r
  <2>3. Len(q) \in DOMAIN q /\ \A i \in DOMAIN r : i \in DOMAIN q /\ q[i] = r[i]
    BY <2>1, <2>2 DEF r
  <2>. QED BY <2>1, <2>3 DEF ToSet, r
<1>7. /\ m \in Seq(NodeSet) /\ Len(m) = Len(w)
      /\ \A i \in 1 .. Len(w) : i # k => m[i] = w[i]
      /\ m[k] = [w[k] EXCEPT !.paths = q]
  <2>1. m = [w EXCEPT ![k] = [w[k] EXCEPT !.paths = q]]
    BY <1>2
  <2>2. [w[k] EXCEPT !.paths = q] \in NodeSet
    BY <1>5, <1>6 DEF NodeSet
  <2> DEFINE e == [w[k] EXCEPT !.paths = q]
  <2> HIDE DEF e
  <2>3. m = [w EXCEPT ![k] = e] /\ e \in NodeSet
    BY <2>1, <2>2 DEF e
  <2>4. /\ m \in Seq(NodeSet) /\ Len(m) = Len(w) /\ m[k] = e
        /\ \A i \in 1 .. Len(w) : i # k => m[i] = w[i]
    BY <1>3, <1>4, <2>3, OneChanged
  <2>. QED BY <2>4 DEF e
<1> HIDE DEF q
<1>8. /\ m[k].dev = w[k].dev /\ m[k].sysfs = w[k].sysfs /\ m[k].disk = w[k].disk
      /\ m[k].holders = w[k].holders /\ m[k].paths = q
  BY <1>5, <1>7 DEF NodeSet
<1>9. \A i \in 1 .. Len(w) : SameNode(w[i], m[i])
  <2>1. ASSUME NEW i \in 1 .. Len(w) PROVE SameNode(w[i], m[i])
    <3>1. CASE i = k
      BY <1>6, <1>8, <3>1 DEF SameNode
    <3>2. CASE i # k
      BY <1>7, <3>2 DEF SameNode
    <3>. QED BY <3>1, <3>2
  <2>. QED BY <2>1
<1>10. Grows(l, m)
  <2>1. ASSUME NEW i \in 1 .. Len(l) PROVE SameNode(l[i], m[i])
    <3>1. i \in 1 .. Len(w) /\ SameNode(l[i], w[i])
      BY <1>3, <1>4 DEF Grows
    <3>. QED BY <1>9, <3>1 DEF SameNode
  <2>. QED BY <1>3, <1>7, <2>1 DEF Grows
<1>11. Adds(l, m)
  <2>1. \A i \in 1 .. Len(w) : m[i].sysfs = w[i].sysfs /\ m[i].dev = w[i].dev
    BY <1>9 DEF SameNode
  <2>. QED BY <1>3, <1>7, <2>1 DEF Adds
<1>12. FindDev(m, d) = k /\ k # 0
  <2>1. Grows(w, m)
    BY <1>4, <1>7, <1>9 DEF Grows
  <2>2. FindDev(w, d) # 0
    BY <1>3, <1>4 DEF k
  <2>. QED BY <2>1, <2>2, GrowsFind DEF k
<1>. QED BY <1>6, <1>8, <1>10, <1>11, <1>12 DEF m, d

\* A list whose nodes are changed one by one, in the fields that sysfs did
\* not fill.
LEMMA MapGrows ==
    ASSUME NEW l \in Seq(NodeSet), NEW m, DOMAIN m = DOMAIN l, m = [i \in DOMAIN l |-> m[i]],
           \A i \in DOMAIN l : m[i] \in NodeSet /\ SameNode(l[i], m[i])
    PROVE  m \in Seq(NodeSet) /\ Len(m) = Len(l) /\ Grows(l, m)
<1>1. Len(l) \in Nat /\ DOMAIN l = 1 .. Len(l)
  OBVIOUS
<1>2. m \in [1 .. Len(l) -> NodeSet]
  BY <1>1
<1>3. m \in Seq(NodeSet)
  BY <1>1, <1>2
<1>4. Len(m) = Len(l)
  BY <1>1, <1>2, <1>3
<1>. QED BY <1>1, <1>3, <1>4 DEF Grows

\* The nodes scanprocpart adds: one for each device in the lines that
\* has none.
New(lines) == [i \in DOMAIN Those(ProcOrder, Missing(lines)) |->
                  Node(Those(ProcOrder, Missing(lines))[i])]
Marked(l, lines) == [i \in DOMAIN l |-> IF l[i].dev \in lines /\ FindDev(l, l[i].dev) = i
                                        THEN [l[i] EXCEPT !.proc = TRUE] ELSE l[i]]
ProcList(lines) == Marked(list \o New(lines), lines)

\* After scanprocpart every device in the lines has a node.
LEMMA ProcGrows ==
    ASSUME list \in Seq(NodeSet), NEW lines, lines \subseteq Devs
    PROVE  /\ Grows(list, ProcList(lines)) /\ Adds(list, ProcList(lines))
           /\ \A d \in lines : FindDev(ProcList(lines), d) # 0
<1> DEFINE M == Missing(lines)
           new == Those(ProcOrder, M)
           a == New(lines)
           l == list \o a
           m == Marked(l, lines)
<1>1. /\ new \in Seq(Devs) /\ IsInjective(new) /\ \A x : x \in ToSet(new) <=> x \in M
  <2>1. ProcOrder \in Seq(Devs) /\ IsInjective(ProcOrder) /\ ToSet(ProcOrder) = Devs
    BY DevicesAssumption
  <2>2. /\ new \in Seq(Devs) /\ ToSet(new) = ToSet(ProcOrder) \cap M /\ IsInjective(new)
    BY <2>1, ThoseAre
  <2>3. \A x \in M : x \in Devs
    BY DEF Missing
  <2> HIDE DEF M, new
  <2>. QED BY <2>1, <2>2, <2>3
<1>2. a = [i \in DOMAIN new |-> Node(new[i])]
  BY DEF New
<1> HIDE DEF new, a
<1>3. Len(new) \in Nat /\ DOMAIN new = 1 .. Len(new)
  BY <1>1
<1>4. \A i \in 1 .. Len(new) : new[i] \in Devs /\ new[i] \in M
  BY <1>1, <1>3 DEF ToSet
<1>5. /\ a \in Seq(NodeSet) /\ Len(a) = Len(new)
      /\ \A i \in 1 .. Len(new) : a[i].dev = new[i] /\ ~ a[i].sysfs
  <2>1. \A i \in 1 .. Len(new) : a[i] = Node(new[i])
    BY <1>2, <1>3
  <2>2. \A i \in 1 .. Len(new) : a[i] \in NodeSet /\ a[i].dev = new[i] /\ ~ a[i].sysfs
    BY <1>4, <2>1, NodeTypes
  <2>3. a \in [1 .. Len(new) -> NodeSet]
    BY <1>2, <1>3, <2>2
  <2>. QED BY <1>3, <2>2, <2>3
<1>6. /\ l \in Seq(NodeSet) /\ Len(l) = Len(list) + Len(new) /\ Len(list) \in Nat
      /\ \A i \in 1 .. Len(list) : l[i] = list[i]
      /\ \A i \in 1 .. Len(new) : l[Len(list) + i] = a[i]
  BY <1>5
<1> HIDE DEF l
<1>7. DOMAIN l = 1 .. Len(l) /\ \A i \in 1 .. Len(l) : l[i] \in NodeSet
  BY <1>6
<1>8. \A i \in 1 .. Len(l) : m[i] \in NodeSet /\ SameNode(l[i], m[i])
  <2> SUFFICES ASSUME NEW i \in 1 .. Len(l) PROVE m[i] \in NodeSet /\ SameNode(l[i], m[i])
    OBVIOUS
  <2> DEFINE n == l[i]
  <2>1. n \in NodeSet
    BY <1>7
  <2>2. m[i] = n \/ m[i] = [n EXCEPT !.proc = TRUE]
    BY <1>7 DEF Marked
  <2> HIDE DEF n, m
  <2>3. m[i] \in NodeSet /\ SameNode(n, m[i])
    BY <2>1, <2>2 DEF NodeSet, SameNode
  <2>. QED BY <2>3 DEF n
<1>9. m \in Seq(NodeSet) /\ Len(m) = Len(l) /\ Grows(l, m)
  <2>1. m = [i \in DOMAIN l |-> m[i]] /\ DOMAIN m = DOMAIN l
    BY DEF Marked
  <2> HIDE DEF m
  <2>. QED BY <1>6, <1>7, <1>8, <2>1, MapGrows
<1> HIDE DEF m
<1>10. Grows(list, m)
  <2>1. \A i \in 1 .. Len(list) : i \in 1 .. Len(l)
    BY <1>3, <1>6
  <2>. QED BY <1>3, <1>6, <1>8, <1>9, <2>1 DEF Grows
<1>11. \A i \in 1 .. Len(m) : i > Len(list) =>
          i - Len(list) \in 1 .. Len(new) /\ m[i].dev = new[i - Len(list)] /\ ~ m[i].sysfs
  <2> SUFFICES ASSUME NEW i \in 1 .. Len(m), i > Len(list)
               PROVE  /\ i - Len(list) \in 1 .. Len(new) /\ m[i].dev = new[i - Len(list)]
                      /\ ~ m[i].sysfs
    OBVIOUS
  <2>1. i - Len(list) \in 1 .. Len(new) /\ Len(list) + (i - Len(list)) = i /\ i \in 1 .. Len(l)
    BY <1>3, <1>6, <1>9
  <2>2. l[i] = a[i - Len(list)]
    BY <1>6, <2>1
  <2>. QED BY <1>5, <1>8, <2>1, <2>2 DEF SameNode
<1>12. \A i \in 1 .. Len(list) : m[i].dev = list[i].dev
  BY <1>10 DEF Grows, SameNode
<1>13. \A i \in 1 .. Len(list), d \in M : list[i].dev # d
  BY FindDevIs DEF Missing
<1>14. Adds(list, m)
  <2> SUFFICES ASSUME NEW i \in 1 .. Len(m), i > Len(list), NEW j \in 1 .. Len(m),
                      m[j].dev = m[i].dev
               PROVE  j = i
    BY <1>11 DEF Adds
  <2>1. i - Len(list) \in 1 .. Len(new) /\ m[i].dev = new[i - Len(list)]
    BY <1>11
  <2>2. m[i].dev \in M
    BY <1>4, <2>1
  <2>3. CASE j > Len(list)
    <3>1. j - Len(list) \in 1 .. Len(new) /\ m[j].dev = new[j - Len(list)]
      BY <1>11, <2>3
    <3>2. i - Len(list) = j - Len(list)
      BY <1>1, <1>3, <2>1, <3>1 DEF IsInjective
    <3>. QED BY <1>6, <3>2
  <2>4. CASE ~ (j > Len(list))
    <3>1. j \in 1 .. Len(list)
      BY <1>6, <2>4
    <3>. QED BY <1>12, <1>13, <2>2, <3>1
  <2>. QED BY <2>3, <2>4
<1>15. ASSUME NEW d \in lines PROVE FindDev(m, d) # 0
  <2>1. CASE FindDev(list, d) # 0
    BY <1>10, <2>1, GrowsFind
  <2>2. CASE FindDev(list, d) = 0
    <3>1. PICK i \in 1 .. Len(new) : new[i] = d
      BY <1>1, <1>3, <2>2 DEF ToSet, Missing
    <3>2. Len(list) + i \in 1 .. Len(m) /\ l[Len(list) + i] = a[i]
      BY <1>3, <1>6, <1>9
    <3>3. m[Len(list) + i].dev = d
      BY <1>5, <1>8, <1>9, <3>1, <3>2 DEF SameNode
    <3>. QED BY <1>9, <3>2, <3>3, FindDevIs
  <2>. QED BY <2>1, <2>2
<1>. QED BY <1>10, <1>14, <1>15 DEF m, l, a, ProcList

\* The list behind scanmapper.
MapperList == [i \in DOMAIN list |-> [list[i] EXCEPT !.mapper = list[i].dev \in Dm]]

\* scanmapper marks the nodes and adds none.
LEMMA MapperGrows ==
    ASSUME list \in Seq(NodeSet)
    PROVE  /\ Grows(list, MapperList) /\ Adds(list, MapperList) /\ Len(MapperList) = Len(list)
           /\ \A i \in 1 .. Len(list) : /\ MapperList[i].mapper = (list[i].dev \in Dm)
                                        /\ MapperList[i].dev = list[i].dev
<1> DEFINE m == MapperList
<1>1. DOMAIN list = 1 .. Len(list) /\ Len(list) \in Nat
  OBVIOUS
<1>2. ASSUME NEW i \in 1 .. Len(list)
      PROVE  /\ m[i] \in NodeSet /\ SameNode(list[i], m[i])
             /\ m[i].mapper = (list[i].dev \in Dm) /\ m[i].dev = list[i].dev
  <2> DEFINE n == list[i]
  <2>1. n \in NodeSet
    OBVIOUS
  <2>2. m[i] = [n EXCEPT !.mapper = n.dev \in Dm]
    BY <1>1 DEF MapperList
  <2> HIDE DEF n, m
  <2>3. /\ m[i] \in NodeSet /\ SameNode(n, m[i])
        /\ m[i].mapper = (n.dev \in Dm) /\ m[i].dev = n.dev
    <3>1. (n.dev \in Dm) \in BOOLEAN
      OBVIOUS
    <3>2. n.dev \in Devs /\ n.sysfs \in BOOLEAN /\ n.disk \in {-1, 0, 1} /\ n.holders \in BOOLEAN
          /\ n.proc \in BOOLEAN /\ n.paths \in Seq(Paths)
      BY <2>1 DEF NodeSet
    <3>. QED BY <2>1, <2>2, <3>1, <3>2 DEF NodeSet, SameNode
  <2>. QED BY <2>3 DEF n
<1>3. m = [i \in DOMAIN list |-> m[i]] /\ DOMAIN m = DOMAIN list
  BY DEF MapperList
<1> HIDE DEF m
<1>4. m \in Seq(NodeSet) /\ Len(m) = Len(list) /\ Grows(list, m)
  BY <1>1, <1>2, <1>3, MapGrows
<1>5. Adds(list, m)
  BY <1>1, <1>4 DEF Adds
<1>. QED BY <1>2, <1>4, <1>5 DEF m

\* What scansysfs makes of an entry: the attributes of a device that is there,
\* but for the calls that failed.
LEMMA SysNodesAre ==
    ASSUME NEW d \in Devs, NEW parent \in BOOLEAN, NEW n \in SysNodes(d, parent)
    PROVE  /\ n \in NodeSet /\ n.dev = d /\ n.sysfs = TRUE /\ n.paths = <<>>
           /\ parent => n.holders
           /\ d \in present => n.disk = IsDisk(d) \/ <<"type", d>> \in Misread(n, parent)
           /\ d \in present /\ ~ n.holders => d \notin held
           /\ d \in present /\ n.holders =>
                parent \/ d \in held \/ <<"holders", d>> \in Misread(n, parent)
<1>1. IsDisk(d) \in {-1, 0, 1}
  BY DEF IsDisk
<1>2. \A k \in Kinds(d) : k \in {-1, 0, 1}
  BY <1>1 DEF Kinds
<1>3. \A h \in Holders(d, parent) :
        /\ h \in BOOLEAN /\ (parent => h)
        /\ d \in present /\ ~ h => d \notin held
  <2>1. Holders(d, parent) = {TRUE, IF d \in present THEN parent \/ d \in held ELSE parent}
    BY DEF Holders, HasHolder
  <2>2. CASE d \in present
    BY <2>1, <2>2
  <2>3. CASE d \notin present
    BY <2>1, <2>3
  <2>. QED BY <2>2, <2>3
<1>4. PICK k \in Kinds(d), h \in Holders(d, parent) : n = SysNode(d, k, h)
  BY DEF SysNodes
<1>5. /\ n \in NodeSet /\ n.dev = d /\ n.sysfs = TRUE /\ n.paths = <<>>
      /\ n.disk = k /\ n.holders = h
  <2>1. k \in {-1, 0, 1} /\ h \in BOOLEAN
    BY <1>2, <1>3
  <2> DEFINE m == SysNode(d, k, h)
  <2>2. /\ m \in NodeSet /\ m.dev = d /\ m.sysfs = TRUE /\ m.disk = k
        /\ m.holders = h /\ m.paths = <<>>
    <3>1. m \in NodeSet
      BY <2>1 DEF SysNode, NodeSet
    <3>. QED BY <3>1 DEF SysNode
  <2> HIDE DEF m
  <2>3. n = m
    BY <1>4 DEF m
  <2>. QED BY <2>2, <2>3
<1>6. ASSUME d \in present, n.disk # IsDisk(d) PROVE <<"type", d>> \in Misread(n, parent)
  BY <1>5, <1>6 DEF Misread
<1>7. ASSUME d \in present, n.holders, ~ parent, d \notin held
      PROVE  <<"holders", d>> \in Misread(n, parent)
  <2>1. n.holders # HasHolder(d, parent)
    BY <1>7 DEF HasHolder
  <2>. QED BY <1>5, <1>7, <2>1 DEF Misread
<1>. QED BY <1>3, <1>5, <1>6, <1>7, Zenon

-----------------------------------------------------------------------------
(* The inductive invariant.                                                *)

Kin(d) == {d} \cup ParentOf(d)
StableDevs == stable \cap Devs
StablePaths == stable \cap Paths

\* The type invariant with the types of the cursors.
Types ==
    /\ TypeOK
    /\ layout \in {"link", "dir"} /\ holder \in BOOLEAN /\ again \in BOOLEAN
    /\ todo \in Seq(Devs \cup Paths \cup {Mapper}) /\ sub \in Seq(Devs)

\* The cursors stay in the directories: the entries of /sys/block that are
\* left are disks that were there, those of the subdirectory are partitions of
\* the one that is visited.  Until its end the list is that of scansysfs.
Cursors ==
    /\ pc \in {"entry", "descend", "sub"} => \A x \in ToSet(todo) : x \in ToSet(Disks) /\ x \in seen
    /\ pc \in {"descend", "sub"} => todo # <<>>
    /\ pc = "sub" => \A x \in ToSet(sub) : x \in ToSet(Children(Head(todo))) /\ x \in seen
    /\ pc = "path" => \A x \in ToSet(todo) : x \in Paths \cup {Mapper}
    /\ pc = "sysblock" => list = <<>>
    /\ pc \in {"entry", "descend", "sub"} => \A i \in 1 .. Len(list) : list[i].sysfs

\* A partition is not there without its disk, and what the history says of
\* the devices that are there.
Sound ==
    /\ \A d \in present : \A p \in ParentOf(d) : p \in present
    /\ \A x \in stable : x \in present \/ x \in paths
    /\ \A x \in StableDevs : x \in present /\ \A p \in ParentOf(x) : p \in stable
    /\ \A x \in StableDevs : x \in heldFrom => x \in held
    /\ \A x \in StablePaths : x \in paths
    /\ pc # "start" => /\ \A d \in held : d \in ever
                       /\ \A d \in present : d \in seen

\* What sysfs said of a device that was there all along is right, or the call
\* failed that should have found it out.
NodeSound(n) ==
    /\ n.dev \in seen
    /\ n.dev \in stable => n.disk = IsDisk(n.dev) \/ <<"type", n.dev>> \in failed
    /\ n.holders => \/ n.dev \notin stable
                    \/ \E e \in Kin(n.dev) : e \in ever \/ <<"holders", e>> \in failed
    /\ ~ n.holders =>
          /\ n.dev \notin heldFrom \/ n.dev \notin stable
          /\ \A p \in ParentOf(n.dev) : p \notin heldFrom \/ p \notin stable \/ <<"dev", p>> \in failed
Nodes == \A i \in 1 .. Len(list) : list[i].sysfs => NodeSound(list[i])
Parent ==
    pc \in {"descend", "sub"} =>
        /\ ~ holder => \/ Head(todo) \notin heldFrom \/ Head(todo) \notin stable
                       \/ <<"dev", Head(todo)>> \in failed
        /\ holder => \/ Head(todo) \notin stable \/ Head(todo) \in ever
                     \/ <<"holders", Head(todo)>> \in failed

\* A device with a node that is not from sysfs has no other.
Alone == \A i, j \in 1 .. Len(list) : list[i].dev = list[j].dev /\ ~ list[i].sysfs => i = j

Covered(x) == \E i \in 1 .. Len(list) : list[i].dev = x /\ list[i].sysfs
Shown(x) == Covered(x) \/ <<"dev", x>> \in failed
Attached(p) == /\ FindDev(list, PathDev[p]) # 0
               /\ p \in ToSet(list[FindDev(list, PathDev[p])].paths)

\* The devices scansysfs has still to come to.
Rest == IF pc = "entry" THEN ToSet(todo) ELSE ToSet(Tail(todo))
Coming(x) ==
    \/ \E y \in Kin(x) : y \in Rest
    \/ pc = "descend" /\ Head(todo) \in ParentOf(x)
    \/ pc = "sub" /\ x \in ToSet(sub)
Cover ==
    pc \in {"entry", "descend", "sub"} => \A x \in StableDevs : Coming(x) \/ Shown(x)

\* Behind links, no device is listed twice and none is listed before its turn.
Once == \A i, j \in 1 .. Len(list) : list[i].dev = list[j].dev => i = j
Turns ==
    layout = "link" =>
        /\ ~ again /\ Once
        /\ pc \in {"entry", "descend", "sub"} =>
              IsInjective(todo) /\ \A i \in 1 .. Len(list) : ~ Coming(list[i].dev)
        /\ pc = "sub" => IsInjective(sub)

\* The paths lsdev has still to come to.
PathComing(p) == p \in ToSet(todo) \/ (Mapper \in ToSet(todo) /\ p \in ToSet(MapperDir))
CoverPaths == pc = "path" => \A p \in StablePaths : PathComing(p) \/ Attached(p)

\* What the results of the three sources promise.
Results ==
    pc # "error" =>
        /\ res.sysfs = 1 => \A x \in StableDevs : Shown(x)
        /\ res.procpart = 1 /\ Partitions \notin failed => \A x \in StableDevs : FindDev(list, x) # 0
        /\ res.lsdev = 1 => \A p \in StablePaths : Attached(p)
Marks ==
    res.mapper = 1 =>
        /\ pc \in {"filter", "scanned", "done"}
        /\ ProcDevices \notin failed =>
              \A i \in 1 .. Len(list) : list[i].mapper = (list[i].dev \in Dm)

Inv == /\ Types /\ Cursors /\ Sound /\ Nodes /\ Parent /\ Alone /\ Cover /\ Turns /\ CoverPaths
       /\ Results /\ Marks

-----------------------------------------------------------------------------
(* Devices.                                                                *)

\* The partitions of a disk are the devices it is the parent of.
LEMMA ChildrenAre ==
    \A d, x : x \in ToSet(Children(d)) <=> d \in ParentOf(x)
<1> SUFFICES ASSUME NEW d, NEW x PROVE x \in ToSet(Children(d)) <=> d \in ParentOf(x)
  OBVIOUS
<1>1. CASE d \in DOMAIN Parts
  BY <1>1 DEF Children, ParentOf
<1>2. CASE d \notin DOMAIN Parts
  <2>1. Children(d) = <<>>
    BY <1>2 DEF Children
  <2>2. ToSet(<<>>) = {}
    BY DEF ToSet
  <2>. QED BY <1>2, <2>1, <2>2 DEF ParentOf
<1>. QED BY <1>1, <1>2

\* Partitions have one parent, a disk; disks have none.
LEMMA ParentsAre ==
    /\ \A x, p : p \in ParentOf(x) => p \in ToSet(Disks) /\ p \in Devs /\ x \in Devs
    /\ \A x, p : p \in ParentOf(x) => x \notin ToSet(Disks) /\ p \notin Dm
    /\ \A x, p, q : p \in ParentOf(x) /\ q \in ParentOf(x) => p = q
    /\ \A x \in Devs : x \in ToSet(Disks) \/ \E p : p \in ParentOf(x)
    /\ \A x \in ToSet(Disks) : x \in Devs
<1>1. /\ DOMAIN Parts \subseteq ToSet(Disks)
      /\ \A d \in DOMAIN Parts :
            /\ ToSet(Parts[d]) \cap ToSet(Disks) = {}
            /\ \A e \in DOMAIN Parts \ {d} : ToSet(Parts[d]) \cap ToSet(Parts[e]) = {}
      /\ Dm \cap (NotDisks \cup DOMAIN Parts) = {}
  BY DevicesAssumption, Zenon
<1>2. \A x, p : p \in ParentOf(x) <=> p \in DOMAIN Parts /\ x \in ToSet(Parts[p])
  BY DEF ParentOf
<1>3. \A x : x \in Devs <=> x \in ToSet(Disks) \/ \E p \in DOMAIN Parts : x \in ToSet(Parts[p])
  BY DEF Devs
<1>4. \A x, p : p \in ParentOf(x) => p \in ToSet(Disks) /\ p \in Devs /\ x \in Devs
  BY <1>1, <1>2, <1>3, Zenon
<1>5. \A x, p : p \in ParentOf(x) => x \notin ToSet(Disks) /\ p \notin Dm
  BY <1>1, <1>2
<1>6. \A x, p, q : p \in ParentOf(x) /\ q \in ParentOf(x) => p = q
  BY <1>1, <1>2
<1>7. \A x \in Devs : x \in ToSet(Disks) \/ \E p : p \in ParentOf(x)
  BY <1>2, <1>3, Zenon
<1>8. \A x \in ToSet(Disks) : x \in Devs
  BY <1>3, Zenon
<1>. QED BY <1>4, <1>5, <1>6, <1>7, <1>8, Zenon

-----------------------------------------------------------------------------
(* The world.                                                              *)

\* At the start all is well.
LEMMA InitInv == Init => Inv
<1> SUFFICES ASSUME Init PROVE Inv
  OBVIOUS
<1>1. /\ layout \in Layouts /\ present \in {Devs, Devs \ Dm} /\ pc = "start"
      /\ paths \in {{p \in Paths : PathDev[p] \in present}, {}}
      /\ held \in {{}, DOMAIN Parts \cap present}
      /\ todo = <<>> /\ sub = <<>> /\ holder = FALSE /\ again = FALSE
      /\ list = <<>> /\ res = NoResult /\ delay = 1
      /\ stable = {}
  BY DEF Init
<1>2. Types
  <2>1. present \subseteq Devs /\ paths \subseteq Paths /\ held \subseteq present
    BY <1>1
  <2>2. ToSet(<<>>) = {} /\ <<>> \in Seq(Devs \cup Paths \cup {Mapper}) /\ <<>> \in Seq(Devs)
        /\ <<>> \in Seq(NodeSet)
    BY DEF ToSet
  <2>3. NoResult \in [{"sysfs", "procpart", "lsdev", "mapper"} -> {-1, 0, 1}]
    BY DEF NoResult
  <2>4. layout \in {"link", "dir"}
    BY <1>1, LayoutsAssumption
  <2>. QED BY <1>1, <2>1, <2>2, <2>3, <2>4 DEF Types, TypeOK
<1>3. Sound
  <2>1. \A d \in present : \A p \in ParentOf(d) : p \in present
    BY <1>1, ParentsAre
  <2>. QED BY <1>1, <2>1 DEF Sound, StableDevs, StablePaths
<1>4. res.sysfs = 0 /\ res.procpart = 0 /\ res.lsdev = 0 /\ res.mapper = 0
  BY <1>1 DEF NoResult
<1>5. Len(list) = 0
  BY <1>1
<1>6. Cursors /\ Nodes /\ Parent /\ Alone /\ Cover /\ CoverPaths
  BY <1>1, <1>5 DEF Cursors, Nodes, Parent, Alone, Cover, CoverPaths
<1>7. Turns /\ Results /\ Marks
  BY <1>1, <1>4, <1>5 DEF Turns, Once, Results, Marks
<1>. QED BY <1>2, <1>3, <1>6, <1>7 DEF Inv

\* What an event may do to the world and to the history.
Moves ==
    /\ UNCHANGED unseen
    /\ pc \notin {"done", "error"}
    /\ present' \subseteq Devs /\ paths' \subseteq Paths /\ held' \subseteq present'
    /\ \A x \in stable' : x \in stable
    /\ \A x \in seen : x \in seen'
    /\ \A x \in ever : x \in ever'

\* Every event is such a move, and no partition outlives its disk.
LEMMA WorldMoves ==
    ASSUME TypeOK, Sound, World
    PROVE  Moves /\ Sound'
<1>1. present \subseteq Devs /\ paths \subseteq Paths /\ held \subseteq present
  BY DEF TypeOK
<1>2. CASE \E d \in Devs : Plug(d)
  <2>1. PICK d \in Devs : Plug(d)
    BY <1>2
  <2>2. /\ present' = present \cup {d} /\ seen' = seen \cup {d} /\ UNCHANGED unseen
        /\ paths' = paths /\ held' = held /\ stable' = stable /\ ever' = ever
        /\ ParentOf(d) \subseteq present /\ pc \notin {"done", "error"} /\ d \notin present
        /\ heldFrom' = heldFrom /\ pc' = pc
    BY <2>1 DEF Plug, Event, unseen
  <2>3. Moves
    BY <1>1, <2>2 DEF Moves
  <2>4. Sound'
    BY <1>1, <2>2 DEF Sound, StableDevs, StablePaths
  <2>. QED BY <2>3, <2>4
<1>3. CASE \E d \in Devs : Unplug(d)
  <2>1. PICK d \in Devs : Unplug(d)
    BY <1>3
  <2> DEFINE gone == {d} \cup ToSet(Children(d))
  <2>2. /\ present' = present \ gone /\ held' = held \ gone /\ stable' = stable \ gone
        /\ UNCHANGED unseen
        /\ paths' = paths /\ seen' = seen /\ ever' = ever
        /\ pc \notin {"done", "error"}
        /\ heldFrom' = heldFrom /\ pc' = pc
    BY <2>1 DEF Unplug, Event, unseen
  <2>3. \A x, p : p \in ParentOf(x) /\ x \notin gone => p \notin gone
    <3>1. \A x : x \in gone <=> x = d \/ d \in ParentOf(x)
      BY ChildrenAre
    <3>. QED BY <3>1, ParentsAre, Zenon
  <2>4. \A x \in gone : x \in Devs
    BY ChildrenAre, ParentsAre
  <2> HIDE DEF gone
  <2>5. Moves
    BY <1>1, <2>2 DEF Moves
  <2>6. Sound'
    <3>1. (\A y \in present : \A p \in ParentOf(y) : p \in present)'
      BY <2>2, <2>3 DEF Sound
    <3>2. (\A x \in stable : x \in present \/ x \in paths)'
      BY <2>2 DEF Sound
    <3>3. (\A x \in StableDevs : x \in present /\ \A p \in ParentOf(x) : p \in stable)'
      BY <2>2, <2>3 DEF Sound, StableDevs
    <3>4. (\A x \in StableDevs : x \in heldFrom => x \in held)'
      BY <2>2 DEF Sound, StableDevs
    <3>5. (\A x \in StablePaths : x \in paths)'
      BY <2>2 DEF Sound, StablePaths
    <3>6. (pc # "start" => (\A y \in held : y \in ever) /\ (\A y \in present : y \in seen))'
      BY <2>2 DEF Sound
    <3>. QED BY <3>1, <3>2, <3>3, <3>4, <3>5, <3>6 DEF Sound
  <2>. QED BY <2>5, <2>6
<1>4. CASE \E d \in Devs : Hold(d)
  <2>1. PICK d \in Devs : Hold(d)
    BY <1>4
  <2>2. /\ held' = held \cup {d} /\ ever' = ever \cup {d} /\ UNCHANGED unseen
        /\ paths' = paths /\ present' = present /\ stable' = stable /\ seen' = seen
        /\ d \in present /\ pc \notin {"done", "error"}
        /\ heldFrom' = heldFrom /\ pc' = pc
    BY <2>1 DEF Hold, Event, unseen
  <2>3. Moves
    BY <1>1, <2>2 DEF Moves
  <2>4. Sound'
    BY <1>1, <2>2 DEF Sound, StableDevs, StablePaths
  <2>. QED BY <2>3, <2>4
<1>5. CASE \E p \in Paths : Udev(p)
  <2>1. PICK p \in Paths : Udev(p)
    BY <1>5
  <2>2. /\ UNCHANGED unseen
        /\ present' = present /\ held' = held /\ ever' = ever
        /\ pc \notin {"done", "error"}
        /\ heldFrom' = heldFrom /\ pc' = pc
    BY <2>1 DEF Udev, Event, unseen
  <2>3. \/ paths' = paths \ {p} /\ stable' = stable \ {p} /\ seen' = seen
        \/ paths' = paths \cup {p} /\ seen' = seen \cup {p} /\ stable' = stable
    BY <2>1 DEF Udev
  <2>4. p \notin Devs
    BY PathsAssumption
  <2>5. Moves
    BY <1>1, <2>2, <2>3 DEF Moves
  <2>6. Sound'
    <3>0. \A x, y : y \in ParentOf(x) => y \in Devs
      BY ParentsAre
    <3>1. (\A y \in present : \A q \in ParentOf(y) : q \in present)'
      BY <2>2 DEF Sound
    <3>2. (\A x \in stable : x \in present \/ x \in paths)'
      BY <2>2, <2>3 DEF Sound
    <3>3. (\A x \in StableDevs : x \in present /\ \A q \in ParentOf(x) : q \in stable)'
      BY <2>2, <2>3, <2>4, <3>0 DEF Sound, StableDevs
    <3>4. (\A x \in StableDevs : x \in heldFrom => x \in held)'
      BY <2>2, <2>3 DEF Sound, StableDevs
    <3>5. (\A x \in StablePaths : x \in paths)'
      BY <2>2, <2>3 DEF Sound, StablePaths
    <3>6. (pc # "start" => (\A y \in held : y \in ever) /\ (\A y \in present : y \in seen))'
      BY <2>2, <2>3 DEF Sound
    <3>. QED BY <3>1, <3>2, <3>3, <3>4, <3>5, <3>6 DEF Sound
  <2>. QED BY <2>5, <2>6
<1>. QED BY <1>2, <1>3, <1>4, <1>5 DEF World

\* An event leaves what the scan knows true.
LEMMA MovesKeep ==
    ASSUME Inv, Moves, Sound'
    PROVE  Inv'
<1>1. /\ layout' = layout /\ heldFrom' = heldFrom /\ pc' = pc /\ todo' = todo /\ sub' = sub
      /\ holder' = holder /\ again' = again /\ list' = list /\ res' = res /\ delay' = delay
      /\ failed' = failed
  BY DEF Moves, unseen, client
<1>2. /\ present' \subseteq Devs /\ paths' \subseteq Paths /\ held' \subseteq present'
      /\ \A x \in stable' : x \in stable
      /\ \A x \in seen : x \in seen'
      /\ \A x \in ever : x \in ever'
  BY DEF Moves
<1>3. Types'
  BY <1>1, <1>2 DEF Inv, Types, TypeOK
<1>4. Cursors'
  BY <1>1, <1>2 DEF Inv, Cursors
<1>5. Nodes'
  <2>2. ASSUME NEW i \in 1 .. Len(list), list[i].sysfs PROVE NodeSound(list[i])'
    <3> DEFINE n == list[i]
    <3>1. NodeSound(n)
      BY <2>2 DEF Inv, Nodes
    <3>2. n' = n
      BY <1>1
    <3> HIDE DEF n
    <3>3. NodeSound(n)'
      BY <1>1, <1>2, <3>1, <3>2 DEF NodeSound
    <3>. QED BY <3>3 DEF n
  <2>. QED BY <1>1, <2>2 DEF Nodes
<1>6. Parent'
  BY <1>1, <1>2 DEF Inv, Parent
<1>7. Alone'
  BY <1>1 DEF Inv, Alone
<1>8. \A x : Shown(x)' <=> Shown(x)
  BY <1>1 DEF Shown, Covered
<1>9. \A x : Attached(x)' <=> Attached(x)
  BY <1>1 DEF Attached
<1>10. \A x : Coming(x)' <=> Coming(x)
  BY <1>1 DEF Coming, Rest
<1>11. (\A x \in StableDevs' : x \in StableDevs) /\ (\A x \in StablePaths' : x \in StablePaths)
  BY <1>2 DEF StableDevs, StablePaths
<1>12. Cover'
  BY <1>1, <1>8, <1>10, <1>11 DEF Inv, Cover
<1>13. Turns'
  <2>1. Once' <=> Once
    BY <1>1 DEF Once
  <2>. QED BY <1>1, <1>10, <2>1 DEF Inv, Turns
<1>14. CoverPaths'
  BY <1>1, <1>9, <1>11 DEF Inv, CoverPaths, PathComing
<1>15. Results'
  BY <1>1, <1>8, <1>9, <1>11 DEF Inv, Results
<1>16. Marks'
  BY <1>1 DEF Inv, Marks
<1>. QED BY <1>3, <1>4, <1>5, <1>6, <1>7, <1>12, <1>13, <1>14, <1>15, <1>16 DEF Inv

-----------------------------------------------------------------------------
(* The steps of the scan.                                                  *)

Pcs == {"start", "sysblock", "entry", "descend", "sub", "procpart", "lsdev",
        "path", "mapper", "filter", "scanned", "done", "error"}
Names == {"sysfs", "procpart", "lsdev", "mapper"}

\* The world and what was watched stay, and failures are kept.
Still ==
    /\ UNCHANGED <<world, watched>>
    /\ \A c \in failed : c \in failed'

\* Every part of it stays.
LEMMA StillIs ==
    ASSUME Still
    PROVE  /\ layout' = layout /\ present' = present /\ paths' = paths /\ held' = held
           /\ stable' = stable /\ seen' = seen /\ ever' = ever /\ heldFrom' = heldFrom
           /\ StableDevs' = StableDevs /\ StablePaths' = StablePaths
           /\ \A c : c \in failed => c \in failed'
BY DEF Still, world, watched, StableDevs, StablePaths

\* So what the history says of the devices stays true.
LEMMA StillSound ==
    ASSUME Still, Sound, pc # "start"
    PROVE  Sound'
BY StillIs DEF Sound

\* What holds of a list that grew.
LEMMA GrowsKeeps ==
    ASSUME Grows(list, list'), Still
    PROVE  /\ \A x : Covered(x) => Covered(x)'
           /\ \A x : Shown(x) => Shown(x)'
           /\ \A x : FindDev(list, x) # 0 => FindDev(list', x) # 0
           /\ \A p : Attached(p) => Attached(p)'
<1>1. /\ Len(list) \in Nat /\ Len(list') \in Nat /\ Len(list) <= Len(list')
      /\ \A i \in 1 .. Len(list) : SameNode(list[i], list'[i])
  BY DEF Grows
<1>2. \A i \in 1 .. Len(list) : i \in 1 .. Len(list')
  BY <1>1
<1>3. ASSUME NEW x, Covered(x) PROVE Covered(x)'
  <2>1. PICK i \in 1 .. Len(list) : list[i].dev = x /\ list[i].sysfs
    BY <1>3 DEF Covered
  <2>2. list'[i].dev = x /\ list'[i].sysfs
    BY <1>1, <2>1 DEF SameNode
  <2>. QED BY <1>2, <2>2 DEF Covered
<1>4. \A x : FindDev(list, x) # 0 => FindDev(list', x) = FindDev(list, x)
  BY GrowsFind
<1>5. ASSUME NEW p, Attached(p) PROVE Attached(p)'
  <2> DEFINE k == FindDev(list, PathDev[p])
  <2>1. k # 0 /\ p \in ToSet(list[k].paths)
    BY <1>5 DEF Attached
  <2>2. FindDev(list', PathDev[p]) = k
    BY <1>4, <2>1
  <2>3. k \in 1 .. Len(list)
    BY <2>1, FindDevIs DEF Grows
  <2> HIDE DEF k
  <2>4. p \in ToSet(list'[k].paths)
    BY <1>1, <2>1, <2>3 DEF SameNode
  <2>. QED BY <2>1, <2>2, <2>4 DEF Attached
<1>6. \A x : Shown(x) => Shown(x)'
  BY <1>3, StillIs DEF Shown
<1>. QED BY <1>3, <1>4, <1>5, <1>6

\* And of one that got nodes for devices that had none.
LEMMA AddsKeeps ==
    ASSUME Grows(list, list'), Adds(list, list'), Still
    PROVE  (Nodes => Nodes') /\ (Alone => Alone') /\ (Once => Once')
<1>1. /\ Len(list) \in Nat /\ Len(list') \in Nat /\ Len(list) <= Len(list')
      /\ \A i \in 1 .. Len(list) : SameNode(list[i], list'[i])
  BY DEF Grows
<1>2. \A i \in 1 .. Len(list') : i \in 1 .. Len(list) \/ i > Len(list)
  BY <1>1
<1>3. \A i \in 1 .. Len(list') : i > Len(list) =>
        ~ list'[i].sysfs /\ \A j \in 1 .. Len(list') : list'[j].dev = list'[i].dev => j = i
  BY DEF Adds
<1>4. ASSUME Nodes PROVE Nodes'
  <2> SUFFICES ASSUME NEW i \in 1 .. Len(list'), list'[i].sysfs PROVE NodeSound(list[i])'
    BY DEF Nodes
  <2>1. i \in 1 .. Len(list)
    BY <1>2, <1>3
  <2> DEFINE n == list[i]
             m == list'[i]
  <2>2. SameNode(n, m)
    BY <1>1, <2>1
  <2>3. NodeSound(n)
    BY <1>4, <2>1, <2>2 DEF Nodes, SameNode
  <2> HIDE DEF n, m
  <2>4. /\ m.dev \in seen'
        /\ m.dev \in stable' => m.disk = IsDisk(m.dev) \/ <<"type", m.dev>> \in failed'
        /\ m.holders => \/ m.dev \notin stable'
                        \/ \E e \in Kin(m.dev) : e \in ever' \/ <<"holders", e>> \in failed'
        /\ ~ m.holders =>
              /\ m.dev \notin heldFrom' \/ m.dev \notin stable'
              /\ \A p \in ParentOf(m.dev) :
                    p \notin heldFrom' \/ p \notin stable' \/ <<"dev", p>> \in failed'
    BY <2>2, <2>3, StillIs DEF NodeSound, SameNode
  <2>. QED BY <2>4 DEF NodeSound, m
<1>5. ASSUME Alone PROVE Alone'
  <2> SUFFICES ASSUME NEW i \in 1 .. Len(list'), NEW j \in 1 .. Len(list'),
                      list'[i].dev = list'[j].dev, ~ list'[i].sysfs
               PROVE  i = j
    BY DEF Alone
  <2>1. CASE i > Len(list) \/ j > Len(list)
    BY <1>3, <2>1
  <2>2. CASE i \in 1 .. Len(list) /\ j \in 1 .. Len(list)
    BY <1>1, <1>5, <2>2 DEF Alone, SameNode
  <2>. QED BY <1>2, <2>1, <2>2
<1>6. ASSUME Once PROVE Once'
  <2> SUFFICES ASSUME NEW i \in 1 .. Len(list'), NEW j \in 1 .. Len(list'),
                      list'[i].dev = list'[j].dev
               PROVE  i = j
    BY DEF Once
  <2>1. CASE i > Len(list) \/ j > Len(list)
    BY <1>3, <2>1
  <2>2. CASE i \in 1 .. Len(list) /\ j \in 1 .. Len(list)
    BY <1>1, <1>6, <2>2 DEF Once, SameNode
  <2>. QED BY <1>2, <2>1, <2>2
<1>. QED BY <1>4, <1>5, <1>6

\* A list that stays is one that grew by nothing.
LEMMA SameGrows ==
    ASSUME NEW l \in Seq(NodeSet)
    PROVE  Grows(l, l) /\ Adds(l, l)
BY DEF Grows, Adds, SameNode

\* A step behind scansysfs keeps the invariant if it only adds to the list
\* and its results are true.
LEMMA Later ==
    ASSUME Inv, Still, Types', Cursors', pc # "start", pc # "error",
           again' = FALSE \/ again' = again,
           pc' \notin {"start", "sysblock", "entry", "descend", "sub", "error"},
           Grows(list, list'), Adds(list, list'),
           res'.sysfs = res.sysfs \/ (res'.sysfs = 1 => \A x \in StableDevs : Shown(x)'),
           res'.procpart = res.procpart
             \/ (res'.procpart = 1 /\ Partitions \notin failed' => \A x \in StableDevs : FindDev(list', x) # 0),
           res'.lsdev = res.lsdev \/ (res'.lsdev = 1 => \A p \in StablePaths : Attached(p)'),
           CoverPaths', Marks'
    PROVE  Inv'
<1>1. Sound'
  BY StillSound DEF Inv
<1>2. Nodes' /\ Alone' /\ (Once => Once')
  BY AddsKeeps DEF Inv
<1>3. Parent' /\ Cover'
  BY DEF Parent, Cover
<1>4. Turns'
  BY <1>2, StillIs DEF Inv, Turns
<1>5. Results'
  <2>1. Results
    BY DEF Inv
  <2>2. res'.sysfs = 1 => \A x \in StableDevs : Shown(x)'
    BY <2>1, GrowsKeeps DEF Results
  <2>3. res'.procpart = 1 /\ Partitions \notin failed' => \A x \in StableDevs : FindDev(list', x) # 0
    BY <2>1, GrowsKeeps, StillIs DEF Results
  <2>4. res'.lsdev = 1 => \A p \in StablePaths : Attached(p)'
    BY <2>1, GrowsKeeps DEF Results
  <2>. QED BY <2>2, <2>3, <2>4, StillIs DEF Results
<1>. QED BY <1>1, <1>2, <1>3, <1>4, <1>5 DEF Inv

\* The types after Leave.
LEMMA LeaveTypes ==
    ASSUME Types, NEW name \in Names, NEW value \in {-1, 0, 1}, NEW next \in Pcs,
           Leave(name, value, next), Still, delay' = delay, list' \in Seq(NodeSet)
    PROVE  /\ Types' /\ pc' = next /\ again' = FALSE
           /\ res'[name] = value /\ \A x \in Names : x # name => res'[x] = res[x]
<1>1. /\ todo' = <<>> /\ sub' = <<>> /\ holder' = FALSE /\ again' = FALSE /\ pc' = next
      /\ res' = [res EXCEPT ![name] = value]
  BY DEF Leave
<1>2. res \in [Names -> {-1, 0, 1}]
  BY DEF Types, TypeOK, Names
<1>3. res' \in [Names -> {-1, 0, 1}] /\ res'[name] = value
      /\ \A x \in Names : x # name => res'[x] = res[x]
  BY <1>1, <1>2
<1>4. ToSet(<<>>) = {} /\ <<>> \in Seq(Devs \cup Paths \cup {Mapper}) /\ <<>> \in Seq(Devs)
  BY DEF ToSet
<1>5. next \in {"start", "sysblock", "entry", "descend", "sub", "procpart", "lsdev",
               "path", "mapper", "filter", "scanned", "done", "error"}
      /\ res' \in [{"sysfs", "procpart", "lsdev", "mapper"} -> {-1, 0, 1}]
  BY <1>3 DEF Pcs, Names
<1>6. TypeOK'
  BY <1>1, <1>4, <1>5, StillIs DEF Types, TypeOK
<1>. QED BY <1>1, <1>3, <1>4, <1>6, StillIs DEF Types

\* emergencyout leaves an empty list.
LEMMA EmergencyKeeps ==
    ASSUME Inv, Still, UNCHANGED client, Emergency, pc \notin {"start", "filter", "scanned", "done"}
    PROVE  Inv'
<1>1. /\ list' = <<>> /\ pc' = "error" /\ todo' = todo /\ sub' = sub /\ holder' = holder
      /\ again' = again /\ res' = res /\ delay' = delay
  BY DEF Emergency, FlushDevCache, scanning, client
<1>2. Types'
  <2>1. <<>> \in Seq(NodeSet)
    OBVIOUS
  <2>. QED BY <1>1, <2>1, StillIs DEF Inv, Types, TypeOK
<1>3. Sound'
  BY StillSound DEF Inv
<1>4. Len(list') = 0
  BY <1>1
<1>5. Cursors' /\ Nodes' /\ Parent' /\ Alone' /\ Cover' /\ CoverPaths' /\ Results'
  BY <1>1, <1>4 DEF Cursors, Nodes, Parent, Alone, Cover, CoverPaths, Results
<1>6. Turns'
  BY <1>1, <1>4, StillIs DEF Inv, Turns, Once
<1>7. Marks'
  BY <1>1 DEF Inv, Marks
<1>. QED BY <1>2, <1>3, <1>5, <1>6, <1>7 DEF Inv

\* A new scan watches what is there.
LEMMA StartKeeps ==
    ASSUME Inv, Start
    PROVE  Inv'
<1>1. /\ list' = <<>> /\ pc' \in {"sysblock", "error"} /\ todo' = todo /\ sub' = sub /\ holder' = holder
      /\ again' = again /\ res' = NoResult /\ delay' = delay /\ layout' = layout
      /\ present' = present /\ paths' = paths /\ held' = held
      /\ stable' = present \cup paths /\ seen' = present \cup paths
      /\ ever' = held /\ heldFrom' = held
  BY DEF Start, Watch, scanning, client, world
<1>2. Types'
  <2>1. <<>> \in Seq(NodeSet)
        /\ NoResult \in [{"sysfs", "procpart", "lsdev", "mapper"} -> {-1, 0, 1}]
    BY DEF NoResult
  <2>. QED BY <1>1, <2>1 DEF Inv, Types, TypeOK
<1>3. Sound'
  <2>1. present \subseteq Devs /\ paths \subseteq Paths /\ held \subseteq present
        /\ \A d \in present : \A p \in ParentOf(d) : p \in present
    BY DEF Inv, Types, TypeOK, Sound
  <2>2. \A x : ~ (x \in Paths /\ x \in Devs)
    BY PathsAssumption
  <2>. QED BY <1>1, <2>1, <2>2 DEF Sound, StableDevs, StablePaths
<1>4. Len(list') = 0
  BY <1>1
<1>5. res'.sysfs = 0 /\ res'.procpart = 0 /\ res'.lsdev = 0 /\ res'.mapper = 0
  BY <1>1 DEF NoResult
<1>6. Cursors' /\ Nodes' /\ Parent' /\ Alone' /\ Cover' /\ CoverPaths' /\ Results' /\ Marks'
  BY <1>1, <1>4, <1>5
     DEF Cursors, Nodes, Parent, Alone, Cover, CoverPaths, Results, Marks
<1>7. Turns'
  BY <1>1, <1>4 DEF Inv, Turns, Once
<1>. QED BY <1>2, <1>3, <1>6, <1>7 DEF Inv

\* So does main, which forgets the last one.
LEMMA AgainKeeps ==
    ASSUME Inv, Again
    PROVE  Inv'
<1>1. /\ list' = <<>> /\ pc' = "start" /\ todo' = todo /\ sub' = sub /\ holder' = holder
      /\ again' = again /\ res' = NoResult /\ delay' = delay + 2 /\ delay <= 5
      /\ layout' = layout
      /\ present' = present /\ paths' = paths /\ held' = held
      /\ stable' = {}
  BY DEF Again, FlushDevCache, scanning, world
<1>2. Types'
  <2>1. <<>> \in Seq(NodeSet)
        /\ NoResult \in [{"sysfs", "procpart", "lsdev", "mapper"} -> {-1, 0, 1}]
    BY DEF NoResult
  <2>2. delay' \in {1, 3, 5, 7}
    BY <1>1 DEF Inv, Types, TypeOK
  <2>. QED BY <1>1, <2>1, <2>2 DEF Inv, Types, TypeOK
<1>3. Sound'
  BY <1>1 DEF Inv, Sound, StableDevs, StablePaths
<1>4. Len(list') = 0
  BY <1>1
<1>5. res'.sysfs = 0 /\ res'.procpart = 0 /\ res'.lsdev = 0 /\ res'.mapper = 0
  BY <1>1 DEF NoResult
<1>6. Cursors' /\ Nodes' /\ Parent' /\ Alone' /\ Cover' /\ CoverPaths' /\ Results' /\ Marks'
  BY <1>1, <1>4, <1>5
     DEF Cursors, Nodes, Parent, Alone, Cover, CoverPaths, Results, Marks
<1>7. Turns'
  BY <1>1, <1>4 DEF Inv, Turns, Once
<1>. QED BY <1>2, <1>3, <1>6, <1>7 DEF Inv

\* A source that is left with a result that is true.
LEMMA LeaveKeeps ==
    ASSUME Inv, Still, UNCHANGED client, NEW name \in Names, NEW value \in {-1, 0, 1},
           NEW next \in {"procpart", "lsdev", "mapper"}, Leave(name, value, next),
           pc \notin {"start", "error", "filter", "scanned", "done"}, name # "mapper",
           Grows(list, list'), Adds(list, list'),
           name = "sysfs" /\ value = 1 => \A x \in StableDevs : Shown(x)',
           name = "procpart" /\ value = 1 /\ Partitions \notin failed' => \A x \in StableDevs : FindDev(list', x) # 0,
           name = "lsdev" /\ value = 1 => \A p \in StablePaths : Attached(p)'
    PROVE  Inv'
<1>1. Types' /\ pc' = next /\ again' = FALSE
      /\ res'[name] = value /\ \A x \in Names : x # name => res'[x] = res[x]
  <2>1. Types /\ delay' = delay /\ list' \in Seq(NodeSet) /\ next \in Pcs
    BY DEF Inv, client, Grows, Pcs
  <2>. QED BY <2>1, LeaveTypes
<1>2. Cursors' /\ CoverPaths'
  BY <1>1 DEF Cursors, CoverPaths
<1>3. /\ name = "sysfs" \/ res'.sysfs = res.sysfs
      /\ name = "procpart" \/ res'.procpart = res.procpart
      /\ name = "lsdev" \/ res'.lsdev = res.lsdev
      /\ res'.mapper = res.mapper
  BY <1>1 DEF Names
<1>4. Marks'
  BY <1>3 DEF Inv, Marks
<1>5. /\ res'.sysfs = res.sysfs \/ (res'.sysfs = 1 => \A x \in StableDevs : Shown(x)')
      /\ res'.procpart = res.procpart
           \/ (res'.procpart = 1 /\ Partitions \notin failed' => \A x \in StableDevs : FindDev(list', x) # 0)
      /\ res'.lsdev = res.lsdev \/ (res'.lsdev = 1 => \A p \in StablePaths : Attached(p)')
  BY <1>1, <1>3
<1>. QED BY <1>1, <1>2, <1>4, <1>5, Later

\* scanprocpart adds what sysfs did not show.
LEMMA ProcPartKeeps ==
    ASSUME Inv, ProcPart
    PROVE  Inv'
<1>1. Still /\ UNCHANGED client /\ pc = "procpart"
  BY DEF ProcPart, Still, Fails
<1>2. list \in Seq(NodeSet) /\ present \subseteq Devs
  BY DEF Inv, Types, TypeOK
<1>3. CASE Leave("procpart", 0, "lsdev") /\ UNCHANGED <<list, failed>>
  <2>1. Grows(list, list') /\ Adds(list, list')
    BY <1>2, <1>3, SameGrows
  <2>. QED BY <1>1, <1>3, <2>1, LeaveKeeps DEF Names
<1>4. ASSUME NEW lines \in Lines, list' = ProcList(lines), Leave("procpart", 1, "lsdev"),
             Fails({x \in {Partitions} : lines # present})
      PROVE  Inv'
  <2>1. lines \subseteq Devs
    BY <1>2 DEF Lines
  <2>2. /\ Grows(list, ProcList(lines)) /\ Adds(list, ProcList(lines))
        /\ \A d \in lines : FindDev(ProcList(lines), d) # 0
    BY <1>2, <2>1, ProcGrows
  <2>3. Partitions \notin failed' => lines = present
    BY <1>4 DEF Fails
  <2>4. Partitions \notin failed' => \A x \in StableDevs : FindDev(list', x) # 0
    BY <1>4, <2>2, <2>3 DEF Inv, Sound
  <2>. QED BY <1>1, <1>4, <2>2, <2>4, LeaveKeeps DEF Names
<1>5. CASE Emergency
  BY <1>1, <1>5, EmergencyKeeps
<1>. QED BY <1>3, <1>4, <1>5 DEF ProcPart, ProcList, Marked, New

\* lsdev reads the names in /dev.
LEMMA LsDevKeeps ==
    ASSUME Inv, LsDev
    PROVE  Inv'
<1>1. Still /\ UNCHANGED client /\ pc = "lsdev" /\ list' = list
  BY DEF LsDev, Still, history
<1>2. list \in Seq(NodeSet)
  BY DEF Inv, Types, TypeOK
<1>3. Grows(list, list') /\ Adds(list, list')
  BY <1>1, <1>2, SameGrows
<1>4. CASE Leave("lsdev", -1, "mapper")
  BY <1>1, <1>3, <1>4, LeaveKeeps DEF Names
<1>5. CASE todo' = Those(DevDir, paths \cup {Mapper}) /\ pc' = "path" /\ UNCHANGED <<sub, holder, again, res>>
  <2>1. DevDir \in Seq(Paths \cup {Mapper}) /\ MapperDir \in Seq(Paths) /\ Mapper \notin Paths
        /\ Paths \cup {Mapper} = ToSet(DevDir) \cup ToSet(MapperDir)
    BY PathsAssumption
  <2>2. todo' \in Seq(Paths \cup {Mapper}) /\ ToSet(todo') = ToSet(DevDir) \cap (paths \cup {Mapper})
    BY <1>5, <2>1, ThoseAre
  <2>3. todo' \in Seq(Devs \cup Paths \cup {Mapper}) /\ \A x \in ToSet(todo') : x \in Paths \cup {Mapper}
    BY <2>2 DEF ToSet
  <2>4. Types'
    BY <1>1, <1>5, <2>3, StillIs DEF Inv, Types, TypeOK, client
  <2>5. Cursors'
    BY <1>5, <2>3 DEF Cursors
  <2>6. \A x \in ToSet(MapperDir) : x \in Paths
    BY <2>1 DEF ToSet
  <2>7. Mapper \in ToSet(todo')
    BY <2>1, <2>2, <2>6
  <2>8. \A p \in StablePaths : p \in paths /\ p \in Paths
    BY DEF Inv, Sound, StablePaths
  <2>9. CoverPaths'
    <3>1. ASSUME NEW p \in StablePaths PROVE p \in ToSet(todo') \/ p \in ToSet(MapperDir)
      BY <2>1, <2>2, <2>8
    <3>. QED BY <2>7, <3>1, <1>1, StillIs DEF CoverPaths, PathComing
  <2>10. Marks'
    BY <1>1, <1>5 DEF Inv, Marks
  <2>. QED BY <1>1, <1>3, <1>5, <2>4, <2>5, <2>9, <2>10, Later
<1>. QED BY <1>4, <1>5 DEF LsDev

\* lsdev descends into /dev/mapper.
LEMMA LsMapperKeeps ==
    ASSUME Inv, LsMapper
    PROVE  Inv'
<1>1. Still /\ UNCHANGED client /\ pc = "path" /\ list' = list /\ todo # <<>> /\ Head(todo) = Mapper
  BY DEF LsMapper, Still, history
<1>2. list \in Seq(NodeSet) /\ todo \in Seq(Devs \cup Paths \cup {Mapper})
  BY DEF Inv, Types, TypeOK
<1>3. Grows(list, list') /\ Adds(list, list')
  BY <1>1, <1>2, SameGrows
<1>4. CASE Leave("lsdev", -1, "mapper")
  BY <1>1, <1>3, <1>4, LeaveKeeps DEF Names
<1>5. CASE todo' = Those(MapperDir, paths) \o Tail(todo) /\ UNCHANGED <<pc, sub, holder, again, res>>
  <2>1. MapperDir \in Seq(Paths) /\ Mapper \notin Paths
    BY PathsAssumption
  <2> DEFINE U == Devs \cup Paths \cup {Mapper}
             f == Those(MapperDir, paths)
             t == Tail(todo)
  <2>2. f \in Seq(Paths) /\ ToSet(f) = ToSet(MapperDir) \cap paths
    BY <2>1, ThoseAre
  <2>3. t \in Seq(U) /\ \A x : x \in ToSet(todo) <=> x = Head(todo) \/ x \in ToSet(t)
    BY <1>1, <1>2, HeadTail
  <2>4. f \in Seq(U)
    BY <2>2
  <2> HIDE DEF f, t, U
  <2>5. f \o t \in Seq(U) /\ ToSet(f \o t) = ToSet(f) \cup ToSet(t)
    BY <2>3, <2>4, JoinedSets
  <2>6. todo' = f \o t
    BY <1>5 DEF f, t
  <2>7. Types'
    <3>1. todo' \in Seq(U) /\ \A x \in ToSet(todo') : x \in U
      BY <2>5, <2>6 DEF ToSet
    <3>. QED BY <1>1, <1>5, <3>1, StillIs DEF Inv, Types, TypeOK, client, U
  <2>8. Cursors'
    <3>1. ASSUME NEW x \in ToSet(f) PROVE x \in Paths
      BY <2>2 DEF ToSet
    <3>2. ASSUME NEW x \in ToSet(t) PROVE x \in Paths \cup {Mapper}
      BY <1>1, <2>3 DEF Inv, Cursors
    <3>. QED BY <1>1, <1>5, <2>5, <2>6, <3>1, <3>2 DEF Cursors
  <2>9. CoverPaths'
    <3> SUFFICES ASSUME NEW p \in StablePaths PROVE PathComing(p)' \/ Attached(p)'
      BY <1>1, StillIs DEF CoverPaths
    <3>1. p \in paths /\ p \in Paths
      BY DEF Inv, Sound, StablePaths
    <3>2. PathComing(p) \/ Attached(p)
      BY <1>1 DEF Inv, CoverPaths
    <3>3. CASE Attached(p)
      BY <1>1, <3>3 DEF Attached
    <3>4. CASE p \in ToSet(todo)
      BY <1>1, <2>1, <2>3, <2>5, <2>6, <3>1, <3>4 DEF PathComing
    <3>5. CASE p \in ToSet(MapperDir)
      BY <2>2, <2>5, <2>6, <3>1, <3>5 DEF PathComing
    <3>. QED BY <3>2, <3>3, <3>4, <3>5 DEF PathComing
  <2>10. Marks'
    BY <1>1, <1>5 DEF Inv, Marks
  <2>. QED BY <1>1, <1>3, <1>5, <2>7, <2>8, <2>9, <2>10, Later
<1>. QED BY <1>4, <1>5 DEF LsMapper

\* lsdev attaches a path.
LEMMA LsPathKeeps ==
    ASSUME Inv, LsPath
    PROVE  Inv'
<1>1. Still /\ UNCHANGED client /\ pc = "path" /\ todo # <<>> /\ Head(todo) # Mapper
  BY DEF LsPath, Still, history
<1>2. list \in Seq(NodeSet) /\ todo \in Seq(Devs \cup Paths \cup {Mapper})
  BY DEF Inv, Types, TypeOK
<1> DEFINE p == Head(todo)
           t == Tail(todo)
           U == Devs \cup Paths \cup {Mapper}
<1>3. t \in Seq(U) /\ p \in ToSet(todo) /\ \A x : x \in ToSet(todo) <=> x = p \/ x \in ToSet(t)
  BY <1>1, <1>2, HeadTail
<1>4. p \in Paths
  BY <1>1, <1>3 DEF Inv, Cursors
<1>5. CASE Emergency
  BY <1>1, <1>5, EmergencyKeeps
<1>6. CASE /\ IF p \in paths THEN list' = AddPath(list, p) ELSE UNCHANGED list
           /\ todo' = t /\ UNCHANGED <<pc, sub, holder, again, res>>
  <2>1. /\ Grows(list, list') /\ Adds(list, list')
        /\ p \in paths => /\ FindDev(list', PathDev[p]) # 0
                          /\ p \in ToSet(list'[FindDev(list', PathDev[p])].paths)
    <3>1. CASE p \in paths
      <4> HIDE DEF p
      <4>. QED BY <1>2, <1>4, <1>6, <3>1, AddPathGrows
    <3>2. CASE p \notin paths
      BY <1>2, <1>6, <3>2, SameGrows
    <3>. QED BY <3>1, <3>2
  <2> HIDE DEF p, t, U
  <2>2. Types'
    <3>1. list' \in Seq(NodeSet)
      BY <2>1 DEF Grows
    <3>. QED BY <1>1, <1>3, <1>6, <3>1, StillIs DEF Inv, Types, TypeOK, client, U, ToSet
  <2>3. Cursors'
    BY <1>1, <1>3, <1>6 DEF Inv, Cursors
  <2>4. CoverPaths'
    <3> SUFFICES ASSUME NEW q \in StablePaths PROVE PathComing(q)' \/ Attached(q)'
      BY <1>1, StillIs DEF CoverPaths
    <3>1. q \in paths
      BY DEF Inv, Sound, StablePaths
    <3>2. PathComing(q) \/ Attached(q)
      BY <1>1 DEF Inv, CoverPaths
    <3>3. Attached(q) => Attached(q)'
      BY <1>1, <2>1, GrowsKeeps
    <3>4. q = p => Attached(q)'
      BY <2>1, <3>1 DEF Attached
    <3>5. Mapper # p
      BY <1>1 DEF p
    <3>6. PathComing(q) => PathComing(q)' \/ q = p
      BY <1>3, <1>6, <3>5 DEF PathComing
    <3>. QED BY <3>2, <3>3, <3>4, <3>6
  <2>5. Marks'
    BY <1>1, <1>6 DEF Inv, Marks
  <2>. QED BY <1>1, <1>6, <2>1, <2>2, <2>3, <2>4, <2>5, Later
<1>. QED BY <1>5, <1>6 DEF LsPath

\* At its end every path that was there all along is attached.
LEMMA LsEndKeeps ==
    ASSUME Inv, LsEnd
    PROVE  Inv'
<1>1. /\ Still /\ UNCHANGED client /\ pc = "path" /\ todo = <<>> /\ list' = list
      /\ Leave("lsdev", 1, "mapper")
  BY DEF LsEnd, Still, history
<1>2. Grows(list, list') /\ Adds(list, list')
  BY <1>1, SameGrows DEF Inv, Types, TypeOK
<1>3. \A x : x \notin ToSet(todo)
  BY <1>1 DEF ToSet
<1>4. \A p \in StablePaths : Attached(p)'
  BY <1>1, <1>2, <1>3, GrowsKeeps DEF Inv, CoverPaths, PathComing
<1>. QED BY <1>1, <1>2, <1>4, LeaveKeeps DEF Names

\* scanmapper marks the mapped devices.
LEMMA ScanMapperKeeps ==
    ASSUME Inv, ScanMapper
    PROVE  Inv'
<1>1. /\ Still /\ UNCHANGED client /\ UNCHANGED scanning /\ pc = "mapper" /\ pc' = "filter"
  BY DEF ScanMapper, Still, Fails
<1>2. list \in Seq(NodeSet) /\ res \in [Names -> {-1, 0, 1}] /\ res.mapper # 1
  BY <1>1 DEF Inv, Types, TypeOK, Marks, Names
<1>3. /\ Grows(list, list') /\ Adds(list, list') /\ res' \in [Names -> {-1, 0, 1}]
      /\ res'.sysfs = res.sysfs /\ res'.procpart = res.procpart /\ res'.lsdev = res.lsdev
      /\ Marks'
  <2>1. CASE list' = MapperList /\ res' = [res EXCEPT !.mapper = 1]
    <3>1. /\ Grows(list, MapperList) /\ Adds(list, MapperList) /\ Len(MapperList) = Len(list)
          /\ \A i \in 1 .. Len(list) : /\ MapperList[i].mapper = (list[i].dev \in Dm)
                                       /\ MapperList[i].dev = list[i].dev
      BY <1>2, MapperGrows
    <3>2. res' \in [Names -> {-1, 0, 1}] /\ res'.sysfs = res.sysfs /\ res'.procpart = res.procpart
          /\ res'.lsdev = res.lsdev
      BY <1>2, <2>1 DEF Names
    <3>3. Marks'
      BY <1>1, <2>1, <3>1 DEF Marks
    <3>. QED BY <2>1, <3>1, <3>2, <3>3
  <2>2. CASE UNCHANGED <<list, res, failed>>
    BY <1>1, <1>2, <2>2, SameGrows DEF Marks
  <2>3. CASE res' = [res EXCEPT !.mapper = 1] /\ UNCHANGED list /\ Fails({ProcDevices})
    <3>1. res' \in [Names -> {-1, 0, 1}] /\ res'.sysfs = res.sysfs /\ res'.procpart = res.procpart
          /\ res'.lsdev = res.lsdev
      BY <1>2, <2>3 DEF Names
    <3>2. ProcDevices \in failed'
      BY <2>3 DEF Fails
    <3>3. Marks'
      BY <1>1, <3>2 DEF Marks
    <3>. QED BY <1>2, <2>3, <3>1, <3>3, SameGrows
  <2>. QED BY <2>1, <2>2, <2>3 DEF ScanMapper, MapperList
<1>4. Types'
  <2>1. list' \in Seq(NodeSet) /\ res' \in [{"sysfs", "procpart", "lsdev", "mapper"} -> {-1, 0, 1}]
    BY <1>3 DEF Grows, Names
  <2>. QED BY <1>1, <2>1, StillIs DEF Inv, Types, TypeOK, client, scanning
<1>5. Cursors' /\ CoverPaths' /\ again' = again
  BY <1>1 DEF Cursors, CoverPaths, scanning
<1>. QED BY <1>1, <1>3, <1>4, <1>5, Later

\* The filter and the end leave the list as it is.
LEMMA MainKeeps ==
    ASSUME Inv, RunFilter \/ Finish
    PROVE  Inv'
<1>1. /\ Still /\ UNCHANGED <<scanning, list, res, delay>> /\ pc \in {"filter", "scanned"}
      /\ pc' \in {"scanned", "done"}
  BY DEF RunFilter, Finish, Still, history, Fails
<1>2. Grows(list, list') /\ Adds(list, list')
  BY <1>1, SameGrows DEF Inv, Types, TypeOK
<1>3. Types'
  BY <1>1, StillIs DEF Inv, Types, TypeOK, scanning
<1>4. Cursors' /\ CoverPaths' /\ again' = again
  BY <1>1 DEF Cursors, CoverPaths, scanning
<1>5. Marks'
  BY <1>1, StillIs DEF Inv, Marks
<1>. QED BY <1>1, <1>2, <1>3, <1>4, <1>5, Later

\* A step inside scansysfs leaves the results as they are.
LEMMA SysStep ==
    ASSUME Inv, Still, UNCHANGED res, Types', Cursors',
           pc \in {"sysblock", "entry", "descend", "sub"}, pc' \in {"entry", "descend", "sub"},
           Grows(list, list'), Nodes', Alone', Parent', Cover', Turns'
    PROVE  Inv'
<1>1. Sound'
  BY StillSound DEF Inv
<1>2. CoverPaths' /\ Marks'
  BY DEF CoverPaths, Inv, Marks
<1>3. Results'
  BY GrowsKeeps, StillIs DEF Inv, Results
<1>. QED BY <1>1, <1>2, <1>3 DEF Inv

\* A node that scansysfs adds is right of its device.
LEMMA SysAdd ==
    ASSUME Inv, Still, pc \in {"entry", "sub"}, NEW n \in NodeSet, n.sysfs = TRUE, NodeSound(n)',
           list' = Alloc(list, n)
    PROVE  /\ Grows(list, list') /\ Nodes' /\ Alone'
           /\ \A i \in 1 .. Len(list') : list'[i].sysfs
           /\ Covered(n.dev)'
           /\ Once /\ (\A i \in 1 .. Len(list) : list[i].dev # n.dev) => Once'
           /\ \A i \in 1 .. Len(list') :
                list'[i].dev = n.dev \/ \E j \in 1 .. Len(list) : list'[i].dev = list[j].dev
<1>1. list \in Seq(NodeSet) /\ Len(list) \in Nat
  BY DEF Inv, Types, TypeOK
<1>2. /\ Grows(list, list') /\ Len(list') = Len(list) + 1 /\ list'[Len(list) + 1] = n
      /\ \A i \in 1 .. Len(list) : list'[i] = list[i]
  BY <1>1, AllocGrows
<1>3. \A i \in 1 .. Len(list') : i = Len(list) + 1 \/ i \in 1 .. Len(list)
  BY <1>1, <1>2
<1>4. Len(list) + 1 \in 1 .. Len(list')
  BY <1>1, <1>2
<1>5. \A i \in 1 .. Len(list') : list'[i].sysfs
  BY <1>2, <1>3 DEF Inv, Cursors
<1>6. Nodes'
  <2> SUFFICES ASSUME NEW i \in 1 .. Len(list') PROVE NodeSound(list[i])'
    BY DEF Nodes
  <2> DEFINE m == list'[i]
  <2>1. m = n \/ NodeSound(m)
    <3>1. CASE i \in 1 .. Len(list) /\ m = list[i]
      BY <3>1 DEF Inv, Nodes, Cursors
    <3>. QED BY <1>2, <1>3, <3>1
  <2> HIDE DEF m
  <2>2. /\ m.dev \in seen'
        /\ m.dev \in stable' => m.disk = IsDisk(m.dev) \/ <<"type", m.dev>> \in failed'
        /\ m.holders => \/ m.dev \notin stable'
                        \/ \E e \in Kin(m.dev) : e \in ever' \/ <<"holders", e>> \in failed'
        /\ ~ m.holders =>
              /\ m.dev \notin heldFrom' \/ m.dev \notin stable'
              /\ \A p \in ParentOf(m.dev) :
                    p \notin heldFrom' \/ p \notin stable' \/ <<"dev", p>> \in failed'
    BY <2>1, StillIs DEF NodeSound, Kin
  <2>. QED BY <2>2 DEF NodeSound, m
<1>7. Alone'
  BY <1>5 DEF Alone
<1>8. Covered(n.dev)'
  BY <1>2, <1>4 DEF Covered
<1>9. ASSUME Once, \A i \in 1 .. Len(list) : list[i].dev # n.dev PROVE Once'
  BY <1>2, <1>3, <1>9 DEF Once
<1>. QED BY <1>2, <1>3, <1>5, <1>6, <1>7, <1>8, <1>9

\* scansysfs reads the names in /sys/block.
LEMMA SysBlockKeeps ==
    ASSUME Inv, SysBlock
    PROVE  Inv'
<1>1. Still /\ UNCHANGED client /\ pc = "sysblock" /\ list' = list /\ list = <<>>
  BY DEF SysBlock, Still, history, Inv, Cursors
<1>2. Grows(list, list') /\ Adds(list, list')
  BY <1>1, SameGrows DEF Inv, Types, TypeOK
<1>3. CASE Leave("sysfs", -1, "procpart")
  BY <1>1, <1>2, <1>3, LeaveKeeps DEF Names
<1>4. CASE todo' = Those(Disks, present) /\ pc' = "entry" /\ UNCHANGED <<sub, holder, again, res>>
  <2>1. Disks \in Seq(Devs) /\ IsInjective(Disks)
    BY DevicesAssumption
  <2>2. todo' \in Seq(Devs) /\ ToSet(todo') = ToSet(Disks) \cap present /\ IsInjective(todo')
    BY <1>4, <2>1, ThoseAre
  <2>3. \A x : x \in ToSet(todo') <=> x \in ToSet(Disks) /\ x \in present
    BY <2>2
  <2>4. \A x \in ToSet(todo') : x \in Devs /\ x \in seen
    BY <1>1, <2>3 DEF Inv, Types, TypeOK, Sound
  <2>5. Types'
    <3>1. todo' \in Seq(Devs \cup Paths \cup {Mapper})
      BY <2>2
    <3>. QED BY <1>1, <1>4, <2>4, <3>1, StillIs DEF Inv, Types, TypeOK, client
  <2>6. Len(list') = 0
    BY <1>1
  <2>7. Cursors'
    BY <1>1, <1>4, <2>3, <2>4, <2>6, StillIs DEF Cursors
  <2>8. Nodes' /\ Alone' /\ Parent'
    BY <1>4, <2>6 DEF Nodes, Alone, Parent
  <2>9. Cover'
    <3> SUFFICES ASSUME NEW x \in StableDevs PROVE Coming(x)'
      BY <1>1, StillIs DEF Cover
    <3>1. x \in Devs /\ x \in present /\ \A p \in ParentOf(x) : p \in present
      BY DEF Inv, Sound, StableDevs
    <3>2. \E y \in Kin(x) : y \in ToSet(todo')
      BY <2>3, <3>1, ParentsAre DEF Kin
    <3>. QED BY <1>4, <3>2 DEF Coming, Rest
  <2>10. Turns'
    BY <1>1, <1>4, <2>2, <2>6, StillIs DEF Inv, Turns, Once
  <2>. QED BY <1>1, <1>2, <1>4, <2>5, <2>7, <2>8, <2>9, <2>10, SysStep
<1>. QED BY <1>3, <1>4 DEF SysBlock

\* An entry of /sys/block is visited.
LEMMA SysEntryKeeps ==
    ASSUME Inv, SysEntry
    PROVE  Inv'
<1>1. Still /\ UNCHANGED client /\ pc = "entry" /\ todo # <<>>
  BY DEF SysEntry, Still, Fails
<1>2. CASE Emergency
  BY <1>1, <1>2, EmergencyKeeps
<1>3. CASE /\ \/ \E n \in SysNodes(Head(todo), FALSE) :
                     /\ list' = Alloc(list, n) /\ holder' = n.holders
                     /\ Fails(Misread(n, FALSE))
              \/ holder' = FALSE /\ UNCHANGED list /\ Fails(Unread(Head(todo)))
           /\ again' = (layout = "dir")
           /\ pc' = "descend"
           /\ UNCHANGED <<todo, sub, res>>
  <2>1. PICK d : d = Head(todo)
    OBVIOUS
  <2>2. /\ d \in ToSet(todo) /\ \A x : x \in ToSet(todo) <=> x = d \/ x \in ToSet(Tail(todo))
        /\ IsInjective(todo) => d \notin ToSet(Tail(todo))
    BY <1>1, <2>1, HeadTail DEF Inv, Types
  <2>3. d \in ToSet(Disks) /\ d \in seen /\ d \in Devs /\ \A p : p \notin ParentOf(d)
    <3>1. d \in ToSet(Disks) /\ d \in seen
      BY <1>1, <2>2 DEF Inv, Cursors
    <3>. QED BY <3>1, ParentsAre
  <2>4. /\ d \in stable => d \in present
        /\ d \in stable /\ d \in heldFrom => d \in held
        /\ d \in held => d \in ever
    BY <1>1, <2>3 DEF Inv, Sound, StableDevs
  <2>5. list \in Seq(NodeSet)
    BY DEF Inv, Types, TypeOK
  <2>6. /\ Grows(list, list') /\ Nodes' /\ Alone'
        /\ \A i \in 1 .. Len(list') : list'[i].sysfs
        /\ d \in stable => Shown(d)'
        /\ Once /\ (\A i \in 1 .. Len(list) : list[i].dev # d) => Once'
        /\ \A i \in 1 .. Len(list') :
             list'[i].dev = d \/ \E j \in 1 .. Len(list) : list'[i].dev = list[j].dev
        /\ holder' \in BOOLEAN
        /\ ~ holder' => d \notin heldFrom \/ d \notin stable \/ <<"dev", d>> \in failed'
        /\ holder' => d \notin stable \/ d \in ever \/ <<"holders", d>> \in failed'
    <3>1. CASE \E n \in SysNodes(d, FALSE) : /\ list' = Alloc(list, n) /\ holder' = n.holders
                                            /\ Fails(Misread(n, FALSE))
      <4>1. PICK n \in SysNodes(d, FALSE) : /\ list' = Alloc(list, n) /\ holder' = n.holders
                                           /\ Fails(Misread(n, FALSE))
        BY <3>1
      <4>2. /\ n \in NodeSet /\ n.dev = d /\ n.sysfs = TRUE
            /\ d \in present => n.disk = IsDisk(d) \/ <<"type", d>> \in failed'
            /\ d \in present /\ ~ n.holders => d \notin held
            /\ d \in present /\ n.holders => d \in held \/ <<"holders", d>> \in failed'
        <5>1. FALSE \in BOOLEAN /\ \A c \in Misread(n, FALSE) : c \in failed'
          BY <4>1 DEF Fails
        <5>. QED BY <2>3, <4>1, <5>1, SysNodesAre
      <4>3. n.holders \in BOOLEAN
        BY <4>2 DEF NodeSet
      <4>5. Kin(d) = {d}
        BY <2>3 DEF Kin
      <4>6. NodeSound(n)'
        <5>1. /\ n.dev \in seen'
              /\ n.dev \in stable' => n.disk = IsDisk(n.dev) \/ <<"type", n.dev>> \in failed'
              /\ n.holders => \/ n.dev \notin stable'
                              \/ \E e \in Kin(n.dev) : e \in ever' \/ <<"holders", e>> \in failed'
              /\ ~ n.holders => n.dev \notin heldFrom' \/ n.dev \notin stable'
              /\ \A p : p \notin ParentOf(n.dev)
          BY <1>1, <2>3, <2>4, <4>2, <4>5, StillIs
        <5>. QED BY <5>1 DEF NodeSound
      <4>7. /\ Grows(list, list') /\ Nodes' /\ Alone'
            /\ \A i \in 1 .. Len(list') : list'[i].sysfs
            /\ Covered(d)'
            /\ Once /\ (\A i \in 1 .. Len(list) : list[i].dev # d) => Once'
            /\ \A i \in 1 .. Len(list') :
                 list'[i].dev = d \/ \E j \in 1 .. Len(list) : list'[i].dev = list[j].dev
        BY <1>1, <4>1, <4>2, <4>6, SysAdd
      <4>8. Shown(d)'
        BY <4>7 DEF Shown
      <4>. QED BY <2>4, <4>1, <4>2, <4>3, <4>7, <4>8
    <3>2. CASE holder' = FALSE /\ UNCHANGED list /\ Fails(Unread(d))
      <4>0. d \in present => <<"dev", d>> \in failed'
        BY <3>2 DEF Unread, Fails
      <4>1. Grows(list, list') /\ Adds(list, list')
        BY <2>5, <3>2, SameGrows
      <4>2. Nodes' /\ Alone' /\ (Once => Once')
        BY <1>1, <4>1, AddsKeeps DEF Inv
      <4>3. \A i \in 1 .. Len(list') : list'[i].sysfs
        BY <1>1, <3>2 DEF Inv, Cursors
      <4>4. d \in present => Shown(d)'
        BY <4>0 DEF Shown
      <4>. QED BY <2>4, <3>2, <4>0, <4>1, <4>2, <4>3, <4>4
    <3>. QED BY <1>3, <2>1, <3>1, <3>2
  <2>7. Head(todo') = d /\ Tail(todo') = Tail(todo)
    BY <1>3, <2>1
  <2>8. Types'
    <3>1. list' \in Seq(NodeSet) /\ again' \in BOOLEAN
      BY <1>3, <2>6 DEF Grows
    <3>. QED BY <1>1, <1>3, <2>6, <3>1, StillIs DEF Inv, Types, TypeOK, client
  <2>9. Cursors'
    BY <1>1, <1>3, <2>6, StillIs DEF Inv, Cursors
  <2>10. Parent'
    BY <1>1, <1>3, <2>6, <2>7, StillIs DEF Parent
  <2>11. \A x : Coming(x) => Coming(x)' \/ x = d
    <3> SUFFICES ASSUME NEW x, Coming(x), x # d PROVE Coming(x)'
      OBVIOUS
    <3>1. PICK y \in Kin(x) : y \in ToSet(todo)
      BY <1>1 DEF Coming, Rest
    <3>2. CASE y = d
      <4>1. Head(todo') \in ParentOf(x)
        BY <2>7, <3>1, <3>2 DEF Kin
      <4>. QED BY <1>3, <4>1 DEF Coming
    <3>3. CASE y \in ToSet(Tail(todo))
      BY <1>3, <2>7, <3>1, <3>3 DEF Coming, Rest
    <3>. QED BY <2>2, <3>1, <3>2, <3>3
  <2>12. Cover'
    <3> SUFFICES ASSUME NEW x \in StableDevs PROVE Coming(x)' \/ Shown(x)'
      BY <1>1, StillIs DEF Cover
    <3>1. Coming(x) \/ Shown(x)
      BY <1>1 DEF Inv, Cover
    <3>2. Shown(x) => Shown(x)'
      BY <1>1, <2>6, GrowsKeeps
    <3>3. x = d => Shown(x)'
      BY <2>6 DEF StableDevs
    <3>. QED BY <2>11, <3>1, <3>2, <3>3
  <2>13. \A x : Coming(x)' => Coming(x)
    <3> SUFFICES ASSUME NEW x, Coming(x)' PROVE Coming(x)
      OBVIOUS
    <3>1. (\E y \in Kin(x) : y \in ToSet(Tail(todo))) \/ d \in ParentOf(x)
      BY <1>3, <2>7 DEF Coming, Rest
    <3>2. \E y \in Kin(x) : y \in ToSet(todo)
      BY <2>2, <3>1 DEF Kin
    <3>. QED BY <1>1, <3>2 DEF Coming, Rest
  <2>14. Turns'
    <3> SUFFICES ASSUME layout = "link" PROVE Turns'
      BY <1>1, StillIs DEF Turns
    <3>1. IsInjective(todo) /\ Once /\ \A i \in 1 .. Len(list) : ~ Coming(list[i].dev)
      BY <1>1 DEF Inv, Turns
    <3>2. Coming(d)
      BY <1>1, <2>2 DEF Coming, Rest, Kin
    <3>3. Once'
      BY <2>6, <3>1, <3>2
    <3>4. ~ Coming(d)'
      <4>1. \A y \in Kin(d) : y = d
        BY <2>3 DEF Kin
      <4>. QED BY <1>3, <2>2, <2>3, <2>7, <3>1, <4>1 DEF Coming, Rest
    <3>5. ASSUME NEW i \in 1 .. Len(list'), NEW x, x = list'[i].dev PROVE ~ Coming(x)'
      BY <2>6, <2>13, <3>1, <3>4, <3>5
    <3>6. \A i \in 1 .. Len(list') : ~ Coming(list[i].dev)'
      BY <3>5
    <3>. QED BY <1>1, <1>3, <3>1, <3>3, <3>6 DEF Turns
  <2>. QED BY <1>1, <1>3, <2>6, <2>8, <2>9, <2>10, <2>12, <2>14, SysStep
<1>. QED BY <1>2, <1>3 DEF SysEntry

\* The directory of an entry is read, or it has vanished.
LEMMA DescendKeeps ==
    ASSUME Inv, Descend
    PROVE  Inv'
<1>1. Still /\ UNCHANGED client /\ pc = "descend" /\ list' = list /\ todo # <<>>
  BY DEF Descend, Still, history, Inv, Cursors
<1>2. Grows(list, list') /\ Adds(list, list')
  BY <1>1, SameGrows DEF Inv, Types, TypeOK
<1>3. PICK d : d = Head(todo)
  OBVIOUS
<1>4. /\ d \in ToSet(todo) /\ Tail(todo) \in Seq(Devs \cup Paths \cup {Mapper})
      /\ \A x : x \in ToSet(todo) <=> x = d \/ x \in ToSet(Tail(todo))
      /\ IsInjective(todo) => d \notin ToSet(Tail(todo)) /\ IsInjective(Tail(todo))
  BY <1>1, <1>3, HeadTail DEF Inv, Types
<1>5. d \in ToSet(Disks) /\ d \in seen /\ d \in Devs
  <2>1. d \in ToSet(Disks) /\ d \in seen
    BY <1>1, <1>4 DEF Inv, Cursors
  <2>. QED BY <2>1, ParentsAre
<1>6. Nodes' /\ Alone' /\ (Once => Once')
  BY <1>1, <1>2, AddsKeeps DEF Inv
<1>7. \A x : Shown(x) => Shown(x)'
  BY <1>1, <1>2, GrowsKeeps
<1>8. \A x : Coming(x) <=> (\E y \in Kin(x) : y \in ToSet(Tail(todo))) \/ d \in ParentOf(x)
  BY <1>1, <1>3 DEF Coming, Rest
<1>9. CASE Leave("sysfs", -1, "procpart")
  BY <1>1, <1>2, <1>9, LeaveKeeps DEF Names
<1>10. CASE /\ d \in present /\ sub' = Those(Children(d), present) /\ pc' = "sub"
            /\ UNCHANGED <<todo, holder, again, res>>
  <2>1. Children(d) \in Seq(Devs) /\ IsInjective(Children(d))
    <3>1. \A e \in DOMAIN Parts : Parts[e] \in Seq(Devs) /\ IsInjective(Parts[e])
      BY DevicesAssumption
    <3>2. <<>> \in Seq(Devs) /\ IsInjective(<<>>)
      BY DEF IsInjective
    <3>. QED BY <3>1, <3>2 DEF Children
  <2>2. sub' \in Seq(Devs) /\ ToSet(sub') = ToSet(Children(d)) \cap present /\ IsInjective(sub')
    BY <1>10, <2>1, ThoseAre
  <2>3. \A x : x \in ToSet(sub') <=> d \in ParentOf(x) /\ x \in present
    BY <2>2, ChildrenAre
  <2>4. Types'
    <3>1. \A x \in ToSet(sub') : x \in Devs
      BY <2>2 DEF ToSet
    <3>. QED BY <1>1, <1>10, <2>2, <3>1, StillIs DEF Inv, Types, TypeOK, client
  <2>5. Cursors'
    <3>1. \A x \in ToSet(sub') : x \in ToSet(Children(d)) /\ x \in seen
      BY <1>1, <2>3, ChildrenAre DEF Inv, Sound
    <3>. QED BY <1>1, <1>3, <1>10, <3>1, StillIs DEF Inv, Cursors
  <2>6. Parent'
    BY <1>1, <1>10, StillIs DEF Inv, Parent
  <2>7. \A x : Coming(x)' <=> (\E y \in Kin(x) : y \in ToSet(Tail(todo))) \/ x \in ToSet(sub')
    BY <1>10 DEF Coming, Rest
  <2>8. Cover'
    <3> SUFFICES ASSUME NEW x \in StableDevs PROVE Coming(x)' \/ Shown(x)'
      BY <1>1, StillIs DEF Cover
    <3>1. Coming(x) \/ Shown(x)
      BY <1>1 DEF Inv, Cover
    <3>2. x \in present
      BY DEF Inv, Sound
    <3>. QED BY <1>7, <1>8, <2>3, <2>7, <3>1, <3>2
  <2>9. Turns'
    <3>1. \A x : Coming(x)' => Coming(x)
      BY <1>8, <2>3, <2>7
    <3>. QED BY <1>1, <1>6, <1>10, <2>2, <3>1, StillIs DEF Inv, Turns
  <2>. QED BY <1>1, <1>2, <1>6, <1>10, <2>4, <2>5, <2>6, <2>8, <2>9, SysStep
<1>11. CASE /\ d \notin present /\ todo' = Tail(todo) /\ pc' = "entry"
            /\ UNCHANGED <<sub, holder, again, res>>
  <2>1. Types'
    <3>1. \A x \in ToSet(todo') : x \in Devs \cup Paths \cup {Mapper}
      BY <1>4, <1>11 DEF ToSet
    <3>. QED BY <1>1, <1>4, <1>11, <3>1, StillIs DEF Inv, Types, TypeOK, client
  <2>2. Cursors'
    BY <1>1, <1>4, <1>11, StillIs DEF Inv, Cursors
  <2>3. Parent'
    BY <1>11 DEF Parent
  <2>4. \A x : Coming(x)' <=> \E y \in Kin(x) : y \in ToSet(Tail(todo))
    BY <1>11 DEF Coming, Rest
  <2>5. Cover'
    <3> SUFFICES ASSUME NEW x \in StableDevs PROVE Coming(x)' \/ Shown(x)'
      BY <1>1, StillIs DEF Cover
    <3>1. Coming(x) \/ Shown(x)
      BY <1>1 DEF Inv, Cover
    <3>2. x \in present /\ \A p \in ParentOf(x) : p \in present
      BY DEF Inv, Sound
    <3>. QED BY <1>7, <1>8, <1>11, <2>4, <3>1, <3>2
  <2>6. Turns'
    <3>1. \A x : Coming(x)' => Coming(x)
      BY <1>8, <2>4
    <3>. QED BY <1>1, <1>4, <1>6, <1>11, <3>1, StillIs DEF Inv, Turns
  <2>. QED BY <1>1, <1>2, <1>6, <1>11, <2>1, <2>2, <2>3, <2>5, <2>6, SysStep
<1>. QED BY <1>3, <1>9, <1>10, <1>11 DEF Descend

\* A partition is visited; it takes the holder of its disk.
LEMMA SubEntryKeeps ==
    ASSUME Inv, SubEntry
    PROVE  Inv'
<1>1. /\ Still /\ UNCHANGED client /\ pc = "sub" /\ sub # <<>> /\ todo # <<>>
      /\ sub' = Tail(sub) /\ UNCHANGED <<pc, todo, holder, again, res>>
  BY DEF SubEntry, Still, Fails, Inv, Cursors
<1>2. PICK c : c = Head(sub)
  OBVIOUS
<1>3. PICK d : d = Head(todo)
  OBVIOUS
<1>4. /\ c \in ToSet(sub) /\ Tail(sub) \in Seq(Devs)
      /\ \A x : x \in ToSet(sub) <=> x = c \/ x \in ToSet(Tail(sub))
      /\ IsInjective(sub) => c \notin ToSet(Tail(sub)) /\ IsInjective(Tail(sub))
  BY <1>1, <1>2, HeadTail DEF Inv, Types
<1>5. /\ d \in ToSet(todo)
      /\ \A x : x \in ToSet(todo) <=> x = d \/ x \in ToSet(Tail(todo))
      /\ IsInjective(todo) => d \notin ToSet(Tail(todo))
  BY <1>1, <1>3, HeadTail DEF Inv, Types
<1>6. d \in ParentOf(c) /\ c \in seen /\ c \in Devs /\ c \notin ToSet(Disks)
      /\ \A y \in Kin(c) : y = c \/ y = d
  <2>1. d \in ParentOf(c) /\ c \in seen
    BY <1>1, <1>3, <1>4, ChildrenAre DEF Inv, Cursors
  <2>. QED BY <2>1, ParentsAre DEF Kin
<1>7. /\ c \in stable => c \in present /\ d \in stable
      /\ c \in stable /\ c \in heldFrom => c \in held
      /\ c \in held => c \in ever
  BY <1>1, <1>6 DEF Inv, Sound, StableDevs
<1>8. list \in Seq(NodeSet) /\ holder \in BOOLEAN
  BY DEF Inv, Types, TypeOK
<1>9. /\ ~ holder => d \notin heldFrom \/ d \notin stable \/ <<"dev", d>> \in failed
      /\ holder => d \notin stable \/ d \in ever \/ <<"holders", d>> \in failed
  BY <1>1, <1>3 DEF Inv, Parent
<1>10. /\ Grows(list, list') /\ Nodes' /\ Alone'
       /\ \A i \in 1 .. Len(list') : list'[i].sysfs
       /\ c \in stable => Shown(c)'
       /\ Once /\ (\A i \in 1 .. Len(list) : list[i].dev # c) => Once'
       /\ \A i \in 1 .. Len(list') :
            list'[i].dev = c \/ \E j \in 1 .. Len(list) : list'[i].dev = list[j].dev
  <2>1. CASE \E n \in SysNodes(c, holder) : list' = Alloc(list, n) /\ Fails(Misread(n, holder))
    <3>1. PICK n \in SysNodes(c, holder) : list' = Alloc(list, n) /\ Fails(Misread(n, holder))
      BY <2>1
    <3>2. /\ n \in NodeSet /\ n.dev = c /\ n.sysfs = TRUE
          /\ holder => n.holders
          /\ c \in present => n.disk = IsDisk(c) \/ <<"type", c>> \in failed'
          /\ c \in present /\ ~ n.holders => c \notin held
          /\ c \in present /\ n.holders => holder \/ c \in held \/ <<"holders", c>> \in failed'
      <4>1. \A x \in Misread(n, holder) : x \in failed'
        BY <3>1 DEF Fails
      <4>. QED BY <1>6, <1>8, <3>1, <4>1, SysNodesAre
    <3>5. NodeSound(n)'
      <4>1. c \in stable => n.disk = IsDisk(c) \/ <<"type", c>> \in failed'
        BY <1>7, <3>2
      <4>2. ASSUME n.holders, c \in stable
            PROVE  \E e \in Kin(c) : e \in ever \/ <<"holders", e>> \in failed'
        <5>1. d \in Kin(c) /\ c \in Kin(c)
          BY <1>6 DEF Kin
        <5>2. CASE holder
          BY <1>1, <1>7, <1>9, <4>2, <5>1, <5>2, StillIs
        <5>3. CASE ~ holder
          BY <1>7, <3>2, <4>2, <5>1, <5>3
        <5>. QED BY <5>2, <5>3
      <4>3. ASSUME ~ n.holders
            PROVE  /\ c \notin heldFrom \/ c \notin stable
                   /\ d \notin heldFrom \/ d \notin stable \/ <<"dev", d>> \in failed'
        <5>1. ~ holder
          BY <3>2, <4>3
        <5>. QED BY <1>1, <1>7, <1>9, <3>2, <4>3, <5>1, StillIs
      <4>4. \A p \in ParentOf(c) : p = d
        BY <1>6, ParentsAre
      <4>5. /\ n.dev \in seen'
            /\ n.dev \in stable' => n.disk = IsDisk(n.dev) \/ <<"type", n.dev>> \in failed'
            /\ n.holders => \/ n.dev \notin stable'
                            \/ \E e \in Kin(n.dev) : e \in ever' \/ <<"holders", e>> \in failed'
            /\ ~ n.holders =>
                  /\ n.dev \notin heldFrom' \/ n.dev \notin stable'
                  /\ \A p \in ParentOf(n.dev) :
                        p \notin heldFrom' \/ p \notin stable' \/ <<"dev", p>> \in failed'
        BY <1>1, <1>6, <3>2, <4>1, <4>2, <4>3, <4>4, StillIs
      <4>. QED BY <4>5 DEF NodeSound
    <3>6. /\ Grows(list, list') /\ Nodes' /\ Alone'
          /\ \A i \in 1 .. Len(list') : list'[i].sysfs
          /\ Covered(c)'
          /\ Once /\ (\A i \in 1 .. Len(list) : list[i].dev # c) => Once'
          /\ \A i \in 1 .. Len(list') :
               list'[i].dev = c \/ \E j \in 1 .. Len(list) : list'[i].dev = list[j].dev
      BY <1>1, <3>1, <3>2, <3>5, SysAdd
    <3>7. Shown(c)'
      BY <3>6 DEF Shown
    <3>. QED BY <3>6, <3>7
  <2>2. CASE UNCHANGED list /\ Fails(Unread(c))
    <3>1. Grows(list, list') /\ Adds(list, list')
      BY <1>8, <2>2, SameGrows
    <3>2. Nodes' /\ Alone' /\ (Once => Once')
      BY <1>1, <3>1, AddsKeeps DEF Inv
    <3>3. \A i \in 1 .. Len(list') : list'[i].sysfs
      BY <1>1, <2>2 DEF Inv, Cursors
    <3>4. c \in present => <<"dev", c>> \in failed'
      BY <2>2 DEF Unread, Fails
    <3>5. c \in present => Shown(c)'
      BY <3>4 DEF Shown
    <3>. QED BY <1>7, <2>2, <3>1, <3>2, <3>3, <3>5
  <2>. QED BY <1>2, <2>1, <2>2 DEF SubEntry
<1>11. Types'
  <2>1. list' \in Seq(NodeSet) /\ \A x \in ToSet(sub') : x \in Devs
    BY <1>1, <1>4, <1>10 DEF Grows, ToSet
  <2>. QED BY <1>1, <1>4, <2>1, StillIs DEF Inv, Types, TypeOK, client
<1>12. Cursors'
  BY <1>1, <1>4, <1>10, StillIs DEF Inv, Cursors
<1>13. Parent'
  BY <1>1, StillIs DEF Inv, Parent
<1>14. \A x : Coming(x) <=> (\E y \in Kin(x) : y \in ToSet(Tail(todo))) \/ x \in ToSet(sub)
  BY <1>1 DEF Coming, Rest
<1>15. \A x : Coming(x)' <=> (\E y \in Kin(x) : y \in ToSet(Tail(todo))) \/ x \in ToSet(Tail(sub))
  BY <1>1 DEF Coming, Rest
<1>16. Cover'
  <2> SUFFICES ASSUME NEW x \in StableDevs PROVE Coming(x)' \/ Shown(x)'
    BY <1>1, StillIs DEF Cover
  <2>1. Coming(x) \/ Shown(x)
    BY <1>1 DEF Inv, Cover
  <2>2. Shown(x) => Shown(x)'
    BY <1>1, <1>10, GrowsKeeps
  <2>3. x = c => Shown(x)'
    BY <1>10 DEF StableDevs
  <2>. QED BY <1>4, <1>14, <1>15, <2>1, <2>2, <2>3
<1>17. Turns'
  <2> SUFFICES ASSUME layout = "link" PROVE Turns'
    BY <1>1, StillIs DEF Turns
  <2>1. IsInjective(todo) /\ IsInjective(sub) /\ Once /\ ~ again
        /\ \A i \in 1 .. Len(list) : ~ Coming(list[i].dev)
    BY <1>1 DEF Inv, Turns
  <2>2. Coming(c)
    BY <1>4, <1>14
  <2>3. Once'
    BY <1>10, <2>1, <2>2
  <2>4. ~ Coming(c)'
    <3>1. c \notin ToSet(Tail(todo))
      BY <1>1, <1>5, <1>6 DEF Inv, Cursors
    <3>. QED BY <1>4, <1>5, <1>6, <1>15, <2>1, <3>1
  <2>5. \A x : Coming(x)' => Coming(x)
    BY <1>4, <1>14, <1>15
  <2>6. ASSUME NEW i \in 1 .. Len(list'), NEW x, x = list'[i].dev PROVE ~ Coming(x)'
    BY <1>10, <2>1, <2>4, <2>5, <2>6
  <2>7. \A i \in 1 .. Len(list') : ~ Coming(list[i].dev)'
    BY <2>6
  <2>. QED BY <1>1, <1>4, <2>1, <2>3, <2>7 DEF Turns
<1>. QED BY <1>1, <1>10, <1>11, <1>12, <1>13, <1>16, <1>17, SysStep

\* The subdirectory ends: once more, or the next entry.
LEMMA SubEndKeeps ==
    ASSUME Inv, SubEnd
    PROVE  Inv'
<1>1. /\ Still /\ UNCHANGED client /\ pc = "sub" /\ sub = <<>> /\ todo # <<>>
      /\ UNCHANGED <<sub, holder, list, res>>
  BY DEF SubEnd, Still, history, Inv, Cursors
<1>2. Grows(list, list') /\ Adds(list, list')
  BY <1>1, SameGrows DEF Inv, Types, TypeOK
<1>3. /\ Tail(todo) \in Seq(Devs \cup Paths \cup {Mapper})
      /\ \A x : x \in ToSet(Tail(todo)) => x \in ToSet(todo)
      /\ IsInjective(todo) => IsInjective(Tail(todo))
  BY <1>1, HeadTail DEF Inv, Types
<1>4. Nodes' /\ Alone' /\ (Once => Once')
  BY <1>1, <1>2, AddsKeeps DEF Inv
<1>5. \A x : Shown(x) => Shown(x)'
  BY <1>1, <1>2, GrowsKeeps
<1>6. \A x : Coming(x) <=> \E y \in Kin(x) : y \in ToSet(Tail(todo))
  <2>1. \A x : x \notin ToSet(sub)
    BY <1>1 DEF ToSet
  <2>. QED BY <1>1, <2>1 DEF Coming, Rest
<1>7. CASE again /\ pc' = "descend" /\ again' = FALSE /\ UNCHANGED todo
  <2>1. Types'
    BY <1>1, <1>7, StillIs DEF Inv, Types, TypeOK, client
  <2>2. Cursors'
    BY <1>1, <1>7, StillIs DEF Inv, Cursors
  <2>3. Parent'
    BY <1>1, <1>7, StillIs DEF Inv, Parent
  <2>4. \A x : Coming(x) => Coming(x)'
    BY <1>6, <1>7 DEF Coming, Rest
  <2>5. Cover'
    BY <1>1, <1>5, <2>4, StillIs DEF Inv, Cover
  <2>6. Turns'
    BY <1>1, <1>7, StillIs DEF Inv, Turns
  <2>. QED BY <1>1, <1>2, <1>4, <1>7, <2>1, <2>2, <2>3, <2>5, <2>6, SysStep
<1>8. CASE pc' = "entry" /\ todo' = Tail(todo) /\ UNCHANGED again
  <2>1. Types'
    <3>1. \A x \in ToSet(todo') : x \in Devs \cup Paths \cup {Mapper}
      BY <1>3, <1>8 DEF ToSet
    <3>. QED BY <1>1, <1>3, <1>8, <3>1, StillIs DEF Inv, Types, TypeOK, client
  <2>2. Cursors'
    BY <1>1, <1>3, <1>8, StillIs DEF Inv, Cursors
  <2>3. Parent'
    BY <1>8 DEF Parent
  <2>4. \A x : Coming(x)' <=> Coming(x)
    BY <1>6, <1>8 DEF Coming, Rest
  <2>5. Cover'
    BY <1>1, <1>5, <2>4, StillIs DEF Inv, Cover
  <2>6. Turns'
    BY <1>1, <1>3, <1>4, <1>8, <2>4, StillIs DEF Inv, Turns
  <2>. QED BY <1>1, <1>2, <1>4, <1>8, <2>1, <2>2, <2>3, <2>5, <2>6, SysStep
<1>. QED BY <1>7, <1>8 DEF SubEnd

\* scansysfs ends: with an error, or with every device that was there all
\* along.
LEMMA SysLeaveKeeps ==
    ASSUME Inv, SubFails \/ SysEnd
    PROVE  Inv'
<1>1. Still /\ UNCHANGED client /\ list' = list /\ pc \in {"entry", "sub"}
  BY DEF SubFails, SysEnd, Still, history
<1>2. Grows(list, list') /\ Adds(list, list')
  BY <1>1, SameGrows DEF Inv, Types, TypeOK
<1>3. CASE SubFails
  BY <1>1, <1>2, <1>3, LeaveKeeps DEF Names, SubFails
<1>4. CASE SysEnd
  <2>1. \A x : x \notin ToSet(todo)
    BY <1>4 DEF SysEnd, ToSet
  <2>2. \A x : ~ Coming(x)
    BY <1>4, <2>1 DEF SysEnd, Coming, Rest
  <2>3. \A x \in StableDevs : Shown(x)'
    BY <1>1, <1>2, <1>4, <2>2, GrowsKeeps DEF SysEnd, Inv, Cover
  <2>. QED BY <1>1, <1>2, <1>4, <2>3, LeaveKeeps DEF Names, SysEnd
<1>. QED BY <1>3, <1>4

\* Every step keeps the invariant.
LEMMA StepInv ==
    ASSUME Inv, [Next]_vars
    PROVE  Inv'
<1>1. CASE World
  <2>1. TypeOK /\ Sound
    BY DEF Inv, Types
  <2>. QED BY <1>1, <2>1, WorldMoves, MovesKeep
<1>2. CASE Scan
  BY <1>2, StartKeeps, SysBlockKeeps, SysEntryKeeps, DescendKeeps, SubEntryKeeps, SysLeaveKeeps,
     SubEndKeeps, ProcPartKeeps, LsDevKeeps, LsMapperKeeps, LsPathKeeps, LsEndKeeps,
     ScanMapperKeeps, MainKeeps, AgainKeeps, Zenon DEF Scan
<1>3. CASE UNCHANGED vars
  <2>1. /\ layout' = layout /\ present' = present /\ paths' = paths /\ held' = held
        /\ pc' = pc /\ todo' = todo /\ sub' = sub /\ holder' = holder /\ again' = again
        /\ list' = list /\ res' = res /\ delay' = delay
        /\ stable' = stable /\ seen' = seen /\ ever' = ever /\ heldFrom' = heldFrom
        /\ failed' = failed
    BY <1>3 DEF vars, world, client, history, watched
  <2>2. Types' /\ Cursors' /\ Sound'
    BY <2>1 DEF Inv, Types, TypeOK, Cursors, Sound, StableDevs, StablePaths
  <2>3. Nodes' /\ Parent' /\ Alone'
    BY <2>1 DEF Inv, Nodes, NodeSound, Parent, Alone
  <2>4. Cover' /\ Turns'
    BY <2>1 DEF Inv, Cover, StableDevs, Coming, Rest, Shown, Covered, Turns, Once
  <2>5. CoverPaths' /\ Results' /\ Marks'
    BY <2>1 DEF Inv, CoverPaths, PathComing, Attached, Results, StableDevs, StablePaths,
                Shown, Covered, Marks
  <2>. QED BY <2>2, <2>3, <2>4, <2>5 DEF Inv
<1>. QED BY <1>1, <1>2, <1>3 DEF Next

\* The invariant holds throughout.
LEMMA Invariant == Spec => []Inv
<1>1. Inv /\ [Next]_vars => Inv'
  BY StepInv
<1>. QED BY <1>1, InitInv, PTL DEF Spec

\* The invariant says that what was there all along is listed, once.
LEMMA InvListed == Inv => Listed
<1> SUFFICES ASSUME Inv PROVE Listed
  OBVIOUS
<1>1. TypeOK /\ list \in Seq(NodeSet)
  BY DEF Inv, Types, TypeOK
<1>2. DOMAIN list = 1 .. Len(list)
  BY <1>1
<1>3. StableListed
  <2>1. ASSUME pc # "error", NEW x \in stable, x \in Devs, res.sysfs = 1, <<"dev", x>> \notin failed
        PROVE  \E i \in DOMAIN list : list[i].dev = x /\ list[i].sysfs
    BY <1>2, <2>1 DEF Inv, Results, StableDevs, Shown, Covered
  <2>2. ASSUME pc # "error", NEW x \in stable, x \in Devs, res.procpart = 1,
               Partitions \notin failed
        PROVE  FindDev(list, x) # 0
    BY <2>2 DEF Inv, Results, StableDevs
  <2>3. ASSUME pc # "error", NEW x \in stable, x \in Paths, res.lsdev = 1
        PROVE  /\ FindDev(list, PathDev[x]) # 0
               /\ x \in ToSet(list[FindDev(list, PathDev[x])].paths)
    BY <2>3 DEF Inv, Results, StablePaths, Attached
  <2>. QED BY <2>1, <2>2, <2>3, Zenon DEF StableListed
<1>4. OneNode
  BY <1>2 DEF Inv, Turns, Once, OneNode
<1>. QED BY <1>1, <1>3, <1>4 DEF Listed

\* scan_for_dev: whatever comes and goes meanwhile, a scan that reports success
\* lists every device that was there all along, as sysfs shows it and with its
\* paths, and behind links lists it once.  The exceptions are those of
\* StableListed: the device whose own dev file could not be read, and an error
\* in the middle of /proc/partitions.
THEOREM ScanLists == Spec => []Listed
BY Invariant, InvListed, PTL

-----------------------------------------------------------------------------
(* What main makes of the list.                                            *)

\* The names of a node are paths.
LEMMA NamedAre ==
    ASSUME NEW n \in NodeSet
    PROVE  /\ Named(n) \in Seq(Paths)
           /\ ToSet(Named(n)) = ToSet(n.paths) \cap (IF n.mapper THEN ToSet(MapperDir) ELSE SdPaths)
<1> DEFINE W == IF n.mapper THEN ToSet(MapperDir) ELSE SdPaths
<1>1. n.paths \in Seq(Paths)
  BY DEF NodeSet
<1>2. Named(n) = Those(n.paths, W)
  BY DEF Named
<1> HIDE DEF W
<1>3. Named(n) \in Seq(Paths) /\ ToSet(Named(n)) = ToSet(n.paths) \cap W
  BY <1>1, <1>2, ThoseAre
<1>. QED BY <1>3 DEF W

\* What the filter takes from the list, if there is memory for it.
LEMMA FilterIs ==
    ASSUME list \in Seq(NodeSet), RunFilter
    PROVE  /\ \A i \in DOMAIN devlist' : \E k \in 1 .. Len(list) :
                Candidate(list[k]) /\ devlist'[i].dev = list[k].dev
           /\ \A k \in 1 .. Len(list) :
                Candidate(list[k]) /\ Named(list[k]) # <<>> /\ <<"add", list[k].dev>> \notin failed' =>
                \E i \in DOMAIN devlist' : devlist'[i].dev = list[k].dev
           /\ rescan' => \E k \in 1 .. Len(list) : Candidate(list[k]) /\ list[k].paths = <<>>
<1> DEFINE C == {n \in ToSet(list) : Candidate(n)}
           free == Those(list, C)
           path(short, other, i) == IF i \in short THEN other[i] ELSE First(free[i])
           all(short, other) ==
               [i \in DOMAIN free |-> [dev |-> free[i].dev, path |-> path(short, other, i)]]
<1>1. /\ rescan' = \E i \in DOMAIN free : free[i].paths = <<>>
      /\ \E short \in SUBSET {i \in DOMAIN free : Named(free[i]) # <<>>} :
            /\ Fails({<<"add", free[i].dev>> : i \in short})
            /\ \E other \in [short -> Paths \cup {NoPath, NullPath}] :
                 devlist' = Those(all(short, other),
                                  {e \in ToSet(all(short, other)) : e.path # NoPath})
  BY DEF RunFilter
<1>2. free \in Seq(NodeSet) /\ ToSet(free) = ToSet(list) \cap C
  BY ThoseAre
<1>3. \A n : n \in ToSet(free) <=> n \in ToSet(list) /\ Candidate(n)
  BY <1>2
<1>4. PICK short, other :
        /\ Fails({<<"add", free[i].dev>> : i \in short})
        /\ devlist' = Those(all(short, other), {e \in ToSet(all(short, other)) : e.path # NoPath})
  <2> HIDE DEF free
  <2>. QED BY <1>1
<1> HIDE DEF free
<1> DEFINE a == all(short, other)
           T == {a[i] : i \in DOMAIN free}
           E == {e \in ToSet(a) : e.path # NoPath}
<1>5. DOMAIN free = 1 .. Len(free) /\ Len(free) \in Nat
  BY <1>2
<1>6. /\ DOMAIN a = DOMAIN free
      /\ \A i \in DOMAIN free : /\ a[i].dev = free[i].dev
                                /\ i \notin short => a[i].path = First(free[i])
  OBVIOUS
<1>7. a \in Seq(T)
  <2>1. a \in [1 .. Len(free) -> T]
    BY <1>5
  <2>. QED BY <1>5, <2>1
<1> HIDE DEF a, T
<1>8. \A e : e \in ToSet(devlist') <=> e \in ToSet(a) /\ e.path # NoPath
  <2>1. devlist' = Those(a, E)
    BY <1>4 DEF a
  <2> HIDE DEF E
  <2>2. ToSet(devlist') = ToSet(a) \cap E
    BY <1>7, <2>1, ThoseAre
  <2>. QED BY <2>2 DEF E
<1>9. \A n : n \in ToSet(list) <=> \E k \in 1 .. Len(list) : n = list[k]
  BY DEF ToSet
<1>10. ASSUME NEW i \in DOMAIN devlist'
       PROVE  \E k \in 1 .. Len(list) : Candidate(list[k]) /\ devlist'[i].dev = list[k].dev
  <2>1. devlist'[i] \in ToSet(a)
    BY <1>8 DEF ToSet
  <2>2. PICK j \in DOMAIN free : devlist'[i] = a[j]
    BY <1>6, <2>1 DEF ToSet
  <2>3. devlist'[i].dev = free[j].dev /\ free[j] \in ToSet(free)
    BY <1>6, <2>2 DEF ToSet
  <2>. QED BY <1>3, <1>9, <2>3
<1>11. ASSUME NEW k \in 1 .. Len(list), Candidate(list[k]), Named(list[k]) # <<>>,
              <<"add", list[k].dev>> \notin failed'
       PROVE  \E i \in DOMAIN devlist' : devlist'[i].dev = list[k].dev
  <2>1. list[k] \in ToSet(free)
    BY <1>3, <1>9, <1>11
  <2>2. PICK j \in DOMAIN free : free[j] = list[k]
    BY <2>1 DEF ToSet
  <2>3. j \notin short
    BY <1>4, <1>11, <2>2 DEF Fails
  <2>4. First(list[k]) # NoPath
    <3>1. Named(list[k]) \in Seq(Paths)
      BY NamedAre
    <3>2. Head(Named(list[k])) \in Paths
      BY <1>11, <3>1, HeadTail
    <3>. QED BY <1>11, <3>2, PathsAssumption DEF First
  <2>5. a[j] \in ToSet(a) /\ a[j].path # NoPath /\ a[j].dev = list[k].dev
    BY <1>6, <2>2, <2>3, <2>4 DEF ToSet
  <2>6. PICK i \in DOMAIN devlist' : devlist'[i] = a[j]
    BY <1>8, <2>5 DEF ToSet
  <2>. QED BY <2>5, <2>6
<1>12. ASSUME rescan'
       PROVE  \E k \in 1 .. Len(list) : Candidate(list[k]) /\ list[k].paths = <<>>
  <2>1. PICK i \in DOMAIN free : free[i].paths = <<>>
    BY <1>1, <1>12 DEF free
  <2>2. free[i] \in ToSet(free)
    BY DEF ToSet
  <2>. QED BY <1>3, <1>9, <2>1, <2>2
<1>. QED BY <1>10, <1>11, <1>12

\* The filter changes nothing else, and forgets no failure.
LEMMA FilterStill ==
    ASSUME RunFilter
    PROVE  Still /\ res' = res /\ list' = list /\ pc = "filter"
BY DEF RunFilter, Still, Fails

\* What it takes has no holder that was there all along.
LEMMA FilterHides ==
    ASSUME Inv, RunFilter
    PROVE  HeldHidden'
<1> SUFFICES ASSUME NEW i \in DOMAIN devlist',
                    NEW e \in Kin(devlist'[i].dev),
                    e \in ParentOf(devlist'[i].dev) => e = devlist'[i].dev \/ <<"dev", e>> \notin failed'
             PROVE  e \notin heldFrom \/ e \notin stable
  BY FilterStill, StillIs DEF HeldHidden, Kin
<1>1. list \in Seq(NodeSet)
  BY DEF Inv, Types, TypeOK
<1>2. PICK k \in 1 .. Len(list) : Candidate(list[k]) /\ devlist'[i].dev = list[k].dev
  BY <1>1, FilterIs
<1>3. NodeSound(list[k]) /\ ~ list[k].holders
  BY <1>2 DEF Inv, Nodes, Candidate
<1>4. <<"dev", e>> \in failed => <<"dev", e>> \in failed'
  BY FilterStill, StillIs
<1>. QED BY <1>2, <1>3, <1>4 DEF NodeSound, Kin

\* A disk that was free all along is taken.
LEMMA FilterShows ==
    ASSUME Inv, RunFilter
    PROVE  FreeListed'
<1>1. /\ res' = res /\ stable' = stable /\ ever' = ever /\ pc = "filter"
      /\ \A c : c \in failed => c \in failed'
  BY FilterStill, StillIs
<1> SUFFICES ASSUME res.sysfs = 1, res.lsdev = 1, res.mapper = 1,
                    NEW p \in stable \cap Paths, PathDev[p] \in stable \ NotDisks,
                    p \in Wanted(PathDev[p]), (ParentOf(PathDev[p]) \cup {PathDev[p]}) \cap ever = {},
                    Hiding(PathDev[p]) \cap failed' = {}
             PROVE  \E i \in DOMAIN devlist' : devlist'[i].dev = PathDev[p]
  BY <1>1 DEF FreeListed
<1>2. PICK d : d = PathDev[p]
  OBVIOUS
<1>3. d \in Devs /\ d \in StableDevs /\ d \notin NotDisks /\ \A e \in Kin(d) : e \notin ever
  <2>1. d \in Devs
    BY <1>2, PathsAssumption
  <2>. QED BY <1>2, <2>1 DEF StableDevs, Kin
<1>4. list \in Seq(NodeSet)
  BY DEF Inv, Types, TypeOK
<1>0. /\ <<"dev", d>> \notin failed /\ <<"type", d>> \notin failed
      /\ \A e \in Kin(d) : <<"holders", e>> \notin failed
      /\ ProcDevices \notin failed /\ <<"add", d>> \notin failed'
  <2>1. \A c \in Hiding(d) : c \notin failed'
    BY <1>2
  <2>2. /\ <<"dev", d>> \in Hiding(d) /\ <<"type", d>> \in Hiding(d) /\ <<"add", d>> \in Hiding(d)
        /\ \A e \in Kin(d) : <<"holders", e>> \in Hiding(d)
        /\ ProcDevices \in Hiding(d)
    BY DEF Hiding, Kin
  <2>. QED BY <1>1, <2>1, <2>2
<1>5. Covered(d) /\ Attached(p)
  BY <1>0, <1>1, <1>3 DEF Inv, Results, StablePaths, Shown
<1>6. PICK k : k = FindDev(list, d)
  OBVIOUS
<1>7. k # 0 /\ p \in ToSet(list[k].paths)
  BY <1>2, <1>5, <1>6 DEF Attached
<1>8. k \in 1 .. Len(list) /\ list[k].dev = d
  BY <1>4, <1>6, <1>7, FindDevIs
<1>9. PICK i \in 1 .. Len(list) : list[i].dev = d /\ list[i].sysfs
  BY <1>5 DEF Covered
<1>10. list[k].sysfs
  BY <1>8, <1>9 DEF Inv, Alone
<1>11. NodeSound(list[k])
  BY <1>8, <1>10 DEF Inv, Nodes
<1>12. list[k].disk # 0
  <2>1. list[k].disk = IsDisk(d)
    BY <1>0, <1>3, <1>8, <1>11 DEF NodeSound, StableDevs
  <2>. QED BY <1>3, <2>1 DEF IsDisk
<1>13. ~ list[k].holders
  BY <1>0, <1>3, <1>8, <1>11 DEF NodeSound, StableDevs
<1>14. Candidate(list[k])
  BY <1>10, <1>12, <1>13 DEF Candidate
<1>15. Named(list[k]) # <<>>
  <2>1. list[k].mapper = (d \in Dm)
    BY <1>0, <1>8 DEF Inv, Marks
  <2>2. p \in (IF list[k].mapper THEN ToSet(MapperDir) ELSE SdPaths)
    BY <1>2, <2>1 DEF Wanted
  <2>3. list[k] \in NodeSet
    BY <1>4, <1>8
  <2>4. p \in ToSet(Named(list[k]))
    BY <1>7, <2>2, <2>3, NamedAre
  <2>5. \A x : x \notin ToSet(<<>>)
    BY DEF ToSet
  <2>. QED BY <2>4, <2>5
<1>. QED BY <1>0, <1>2, <1>4, <1>8, <1>14, <1>15, FilterIs

\* A rescan has its cause in the world or in /dev.
LEMMA FilterCause ==
    ASSUME Inv, RunFilter
    PROVE  RescanHasCause'
<1>1. /\ res' = res /\ stable' = stable /\ seen' = seen /\ layout' = layout /\ pc = "filter"
      /\ \A c : c \in failed => c \in failed'
  BY FilterStill, StillIs
<1> SUFFICES ASSUME rescan', layout = "link", res.lsdev = 1
             PROVE  \E d \in seen \cap Devs :
                      /\ d \in NotDisks \cap stable => <<"type", d>> \in failed'
                      /\ ~ \E p \in stable \cap Paths : PathDev[p] = d
  BY <1>1 DEF RescanHasCause
<1>2. list \in Seq(NodeSet)
  BY DEF Inv, Types, TypeOK
<1>3. PICK k \in 1 .. Len(list) : Candidate(list[k]) /\ list[k].paths = <<>>
  BY <1>2, FilterIs
<1>4. PICK d : d = list[k].dev
  OBVIOUS
<1>5. d \in Devs
  <2>1. list[k] \in NodeSet
    BY <1>2
  <2>. QED BY <1>4, <2>1 DEF NodeSet
<1>6. NodeSound(list[k]) /\ list[k].disk # 0
  BY <1>3 DEF Inv, Nodes, Candidate
<1>7. d \in seen
  BY <1>4, <1>6 DEF NodeSound
<1>8. d \in NotDisks \cap stable => <<"type", d>> \in failed'
  <2> SUFFICES ASSUME d \in stable, d \in NotDisks, <<"type", d>> \notin failed' PROVE FALSE
    OBVIOUS
  <2>1. list[k].disk = IsDisk(d)
    BY <1>1, <1>4, <1>6 DEF NodeSound
  <2>2. d \notin Dm
    BY DevicesAssumption
  <2>. QED BY <1>6, <2>1, <2>2 DEF IsDisk
<1>9. ASSUME NEW p \in stable \cap Paths, PathDev[p] = d PROVE FALSE
  <2>1. Attached(p)
    BY <1>1, <1>9 DEF Inv, Results, StablePaths
  <2>2. PICK j : j = FindDev(list, d)
    OBVIOUS
  <2>3. j # 0 /\ p \in ToSet(list[j].paths)
    BY <1>9, <2>1, <2>2 DEF Attached
  <2>4. j \in 1 .. Len(list) /\ list[j].dev = d
    BY <1>2, <2>2, <2>3, FindDevIs
  <2>5. j = k
    BY <1>4, <2>4 DEF Inv, Turns, Once
  <2>6. \A x : x \notin ToSet(<<>>)
    BY DEF ToSet
  <2>. QED BY <1>3, <2>3, <2>5, <2>6
<1>. QED BY <1>5, <1>7, <1>8, <1>9

\* main's list stays right: what was there all along gets less, what was held
\* or seen at some time gets more.
Right == HeldHidden /\ FreeListed /\ RescanHasCause

\* It is right from the filter to the end.
LEMMA StepRight ==
    ASSUME Inv, Right, [Next]_vars
    PROVE  Right'
<1>1. CASE World
  <2>1. Moves
    BY <1>1, WorldMoves DEF Inv, Types
  <2>2. /\ layout' = layout /\ heldFrom' = heldFrom /\ pc' = pc /\ res' = res
        /\ rescan' = rescan /\ devlist' = devlist /\ failed' = failed
        /\ \A x \in stable' : x \in stable
        /\ \A x \in seen : x \in seen'
        /\ \A x \in ever : x \in ever'
    BY <2>1 DEF Moves, unseen, client
  <2>3. HeldHidden'
    BY <2>2 DEF Right, HeldHidden
  <2>4. FreeListed'
    <3> SUFFICES ASSUME pc \in {"scanned", "done"},
                        res.sysfs = 1, res.lsdev = 1, res.mapper = 1,
                        NEW p \in stable' \cap Paths, PathDev[p] \in stable' \ NotDisks,
                        p \in Wanted(PathDev[p]),
                        (ParentOf(PathDev[p]) \cup {PathDev[p]}) \cap ever' = {},
                        Hiding(PathDev[p]) \cap failed = {}
                 PROVE  \E i \in DOMAIN devlist : devlist[i].dev = PathDev[p]
      BY <2>2 DEF FreeListed
    <3>1. p \in stable \cap Paths /\ PathDev[p] \in stable \ NotDisks
      BY <2>2
    <3>2. (ParentOf(PathDev[p]) \cup {PathDev[p]}) \cap ever = {}
      BY <2>2
    <3>. QED BY <3>1, <3>2, Zenon DEF Right, FreeListed
  <2>5. RescanHasCause'
    BY <2>2 DEF Right, RescanHasCause
  <2>. QED BY <2>3, <2>4, <2>5 DEF Right
<1>2. CASE RunFilter
  BY <1>2, FilterHides, FilterShows, FilterCause DEF Right
<1>3. CASE Finish
  <2>1. /\ pc = "scanned" /\ pc' = "done" /\ res' = res /\ devlist' = devlist
        /\ stable' = stable /\ ever' = ever /\ heldFrom' = heldFrom /\ failed' = failed
    BY <1>3 DEF Finish, history, watched
  <2>. QED BY <2>1 DEF Right, HeldHidden, FreeListed, RescanHasCause
<1>4. CASE \/ Start \/ SysBlock \/ SysEntry \/ Descend \/ SubEntry \/ SubFails \/ SubEnd \/ SysEnd
           \/ ProcPart \/ LsDev \/ LsMapper \/ LsPath \/ LsEnd \/ ScanMapper \/ Again
  <2>1. pc' \notin {"scanned", "done"}
    BY <1>4 DEF Start, SysBlock, SysEntry, Descend, SubEntry, SubFails, SubEnd, SysEnd,
                ProcPart, LsDev, LsMapper, LsPath, LsEnd, ScanMapper, Again, Leave, Emergency
  <2>. QED BY <2>1 DEF Right, HeldHidden, FreeListed, RescanHasCause
<1>5. CASE UNCHANGED vars
  BY <1>5 DEF vars, world, client, history, watched, Right, HeldHidden, FreeListed, RescanHasCause
<1>. QED BY <1>1, <1>2, <1>3, <1>4, <1>5, Zenon DEF Next, Scan

\* Nothing is printed before the filter has run.
LEMMA InitRight == Init => Right
BY DEF Init, Right, HeldHidden, FreeListed, RescanHasCause

\* main's list is right throughout.
LEMMA AlwaysRight == Spec => []Right
<1>1. Inv /\ Right /\ [Next]_vars => Right'
  BY StepRight
<1>. QED BY <1>1, InitRight, Invariant, PTL DEF Spec

\* main prints no device that was in use from the start of the scan to its end,
\* nor a partition of such a disk if the disk's dev file could be read, and it
\* prints every free disk that had its path all that time, if none of the calls
\* failed that can hide it (Hiding).
THEOREM PrintsFreeDisks == Spec => []PrintedAreFree
<1>1. Right => PrintedAreFree
  BY DEF Right, PrintedAreFree
<1>. QED BY <1>1, AlwaysRight, PTL

\* main scans again only for a device that was without a path at some time of
\* the scan, or because /dev could not be read, and for a drive that is no disk
\* only if its type file could not be opened.
THEOREM RescansForCause == Spec => []RescanHasCause
<1>1. Right => RescanHasCause
  BY DEF Right
<1>. QED BY <1>1, AlwaysRight, PTL
=============================================================================
