-------------------------- MODULE DirIterateProofs --------------------------
(***************************************************************************)
(* The walk over a directory stays inside its blocks whatever lengths they *)
(* hold, shows each entry the caller asked for once and in order, stops a  *)
(* lookup at the first of its name, and what it reports as done is on the  *)
(* device.                                                                 *)
(***************************************************************************)
EXTENDS DirIterate, SequenceTheorems, WellFoundedInduction, TLAPS

-----------------------------------------------------------------------------
(* Chains of lengths.                                                      *)

\* A set of numbers has a smallest one.
LEMMA LeastNumber ==
    ASSUME NEW T \in SUBSET Nat, T # {}
    PROVE  \E x \in T : \A y \in T : x <= y
<1> DEFINE R == OpToRel(<, Nat)
<1>1. IsWellFoundedOn(R, Nat)
  BY NatLessThanWellFounded
<1> HIDE DEF R
<1>2. PICK x \in T : \A y \in T : ~ (<<y, x>> \in R)
  BY <1>1, WFMin
<1>3. \A y \in T : <<y, x>> \in R \/ ~ (y < x)
  BY DEF R, OpToRel
<1>4. x \in Nat /\ \A y \in T : y \in Nat
  OBVIOUS
<1>5. \A y \in T : ~ (y < x)
  BY <1>2, <1>3
<1>6. \A y \in T : x <= y
  BY <1>4, <1>5
<1>. QED BY <1>6

\* The results from m on of a scan that starts at an offset of D, says yes at
\* some and goes on to a later one from others.
ScanFrom(D, yes, go, nxt, m, f) ==
    /\ DOMAIN f = D
    /\ \A o \in D : o >= m => f[o] = (o \in yes \/ (o \in go /\ f[nxt[o]]))

\* The scan has a result.
HasResult(D, yes, go, nxt) == \E f : f = [o \in D |-> o \in yes \/ (o \in go /\ f[nxt[o]])]

\* A scan that always moves forward has a result: what the loops of
\* cmfs_validate_entry and cmfs_swap_dir_entries_direction return is defined.
LEMMA ScanDefined ==
    ASSUME NEW N \in Nat, NEW D \in SUBSET (0 .. N), NEW yes, NEW go, NEW nxt,
           \A o \in D : o \in go => nxt[o] \in D /\ nxt[o] > o
    PROVE  HasResult(D, yes, go, nxt)
<1> DEFINE P(m) == \E f : ScanFrom(D, yes, go, nxt, m, f)
           T == {m \in 0 .. N + 1 : P(m)}
<1>1. N + 1 \in T
  <2> DEFINE f == [o \in D |-> TRUE]
  <2>1. DOMAIN f = D
    OBVIOUS
  <2>2. \A o \in D : ~ (o >= N + 1)
    OBVIOUS
  <2>3. ScanFrom(D, yes, go, nxt, N + 1, f)
    BY <2>1, <2>2, Zenon DEF ScanFrom
  <2>4. N + 1 \in 0 .. N + 1
    OBVIOUS
  <2>. QED BY <2>3, <2>4
<1>2. T \in SUBSET Nat /\ T # {}
  BY <1>1
<1>3. PICK m \in T : \A y \in T : m <= y
  <2> HIDE DEF T
  <2>. QED BY <1>2, LeastNumber
<1>4. m \in Nat /\ m <= N + 1 /\ P(m)
  OBVIOUS
<1>5. m = 0
  <2> SUFFICES ASSUME m > 0 PROVE FALSE
    BY <1>4
  <2>1. PICK f : ScanFrom(D, yes, go, nxt, m, f)
    BY <1>4
  <2> DEFINE g == [o \in D |-> IF o = m - 1 THEN o \in yes \/ (o \in go /\ f[nxt[o]])
                               ELSE f[o]]
  <2>2. ASSUME NEW o \in D, o >= m - 1
        PROVE  g[o] = (o \in yes \/ (o \in go /\ g[nxt[o]]))
    <3>1. o \in Nat /\ (o \in go => nxt[o] \in D /\ nxt[o] > o)
      OBVIOUS
    <3>2. o \in go => g[nxt[o]] = f[nxt[o]]
      <4>1. SUFFICES ASSUME o \in go PROVE nxt[o] # m - 1
        BY <3>1
      <4>. QED BY <1>4, <2>2, <3>1, <4>1
    <3>3. CASE o = m - 1
      BY <3>2, <3>3
    <3>4. CASE o # m - 1
      <4>1. o >= m
        BY <1>4, <2>2, <3>1, <3>4
      <4>2. f[o] = (o \in yes \/ (o \in go /\ f[nxt[o]]))
        BY <2>1, <4>1 DEF ScanFrom
      <4>3. g[o] = f[o]
        BY <3>4
      <4>. QED BY <3>2, <4>2, <4>3
    <3>. QED BY <3>3, <3>4
  <2>3. ScanFrom(D, yes, go, nxt, m - 1, g)
    <3>1. DOMAIN g = D
      OBVIOUS
    <3> HIDE DEF g
    <3>. QED BY <2>2, <3>1 DEF ScanFrom
  <2>4. m - 1 \in 0 .. N + 1
    BY <1>4
  <2>5. m - 1 \in T
    BY <2>3, <2>4
  <2> HIDE DEF T
  <2>. QED BY <1>3, <1>4, <2>5
<1>6. PICK f : ScanFrom(D, yes, go, nxt, 0, f)
  BY <1>4, <1>5
<1> DEFINE h == [o \in D |-> o \in yes \/ (o \in go /\ f[nxt[o]])]
<1>7. \A o \in D : f[o] = h[o]
  BY <1>6 DEF ScanFrom
<1>8. h = [o \in D |-> o \in yes \/ (o \in go /\ h[nxt[o]])]
  <2>1. ASSUME NEW o \in D
        PROVE  (o \in yes \/ (o \in go /\ f[nxt[o]])) = (o \in yes \/ (o \in go /\ h[nxt[o]]))
    <3>1. CASE o \in go
      BY <1>7, <3>1
    <3>2. CASE o \notin go
      BY <3>2
    <3>. QED BY <3>1, <3>2
  <2>. QED BY <2>1
<1>. QED BY <1>8 DEF HasResult

\* Fields of what is read at an offset.
LEMMA AnyEntry ==
    ASSUME NEW b, IsBlock(b), NEW o
    PROVE  At(b, o) \in Entries /\ At(b, o).rec_len \in Nat /\ At(b, o).name_len \in Nat
<1>1. At(b, o) \in Entries
  BY VolumesAssumption DEF IsBlock, At
<1>. QED BY <1>1 DEF Entries

\* The offsets of C lead to m by the lengths at them.
Linked(b, C, m) ==
    \A o \in C :
        /\ o \in Nat /\ o <= m
        /\ o = m \/ /\ Plausible(At(b, o))
                    /\ o + At(b, o).rec_len <= m
                    /\ o + At(b, o).rec_len \in C

\* cmfs_validate_entry accepts only offsets from which lengths lead to the end.
LEMMA ValidateMeans ==
    ASSUME NEW b, IsBlock(b), NEW from \in Nat, NEW final \in Nat, ValidateEntry(b, from, final)
    PROVE  \E C : from \in C /\ Linked(b, C, final)
<1> DEFINE D == 0 .. final
           nxt == [o \in D |-> o + At(b, o).rec_len]
           yes == {final}
           go == {o \in D : Plausible(At(b, o)) /\ o + At(b, o).rec_len <= final}
           V(f) == [o \in D |-> \/ o = final
                                \/ /\ Plausible(At(b, o))
                                   /\ o + At(b, o).rec_len <= final
                                   /\ f[o + At(b, o).rec_len]]
           ok == CHOOSE f : f = V(f)
<1>1. from <= final /\ ok[from]
  BY DEF ValidateEntry
<1>2. \E f : f = V(f)
  <2>1. \A o \in D : o \in go => nxt[o] \in D /\ nxt[o] > o
    <3> SUFFICES ASSUME NEW o \in D, o \in go PROVE nxt[o] \in D /\ nxt[o] > o
      OBVIOUS
    <3>1. At(b, o).rec_len \in Nat
      BY AnyEntry
    <3>2. At(b, o).rec_len >= 8 /\ o + At(b, o).rec_len <= final
      BY DEF Plausible
    <3>. QED BY <3>1, <3>2
  <2>2. D \in SUBSET (0 .. final)
    OBVIOUS
  <2>3. PICK f : f = [o \in D |-> o \in yes \/ (o \in go /\ f[nxt[o]])]
    <3> HIDE DEF D, yes, go, nxt
    <3>1. HasResult(D, yes, go, nxt)
      BY <2>1, <2>2, ScanDefined
    <3>. QED BY <3>1 DEF HasResult
  <2>4. \A o \in D : (o \in yes \/ (o \in go /\ f[nxt[o]])) = V(f)[o]
    OBVIOUS
  <2>5. f = V(f)
    BY <2>3, <2>4
  <2>. QED BY <2>5
<1>3. ok = V(ok)
  <2> HIDE DEF V
  <2>. QED BY <1>2
<1> HIDE DEF ok
<1> DEFINE C == {o \in D : ok[o]}
<1>4. ASSUME NEW o \in C
      PROVE  /\ o \in Nat /\ o <= final
             /\ o = final \/ /\ Plausible(At(b, o))
                             /\ o + At(b, o).rec_len <= final
                             /\ o + At(b, o).rec_len \in C
  <2>1. o \in Nat /\ o <= final /\ ok[o]
    OBVIOUS
  <2>2. \/ o = final
        \/ /\ Plausible(At(b, o))
           /\ o + At(b, o).rec_len <= final
           /\ ok[o + At(b, o).rec_len]
    BY <1>3, <2>1
  <2>3. At(b, o).rec_len \in Nat
    BY AnyEntry
  <2>. QED BY <2>1, <2>2, <2>3
<1>5. from \in C
  BY <1>1
<1> HIDE DEF C
<1>6. Linked(b, C, final)
  BY <1>4 DEF Linked
<1>. QED BY <1>5, <1>6

\* Every entry of S that cmfs_swap_dir_entries_direction looks at holds its
\* name behind a whole header, and the entry after it is in S.
Holding(b, S) ==
    \A o \in S :
        /\ o \in Offsets
        /\ o < BlockSize - Header =>
               /\ At(b, o).name_len + Header <= At(b, o).rec_len
               /\ o + At(b, o).rec_len \in Offsets => o + At(b, o).rec_len \in S

\* The offsets of a block.
LEMMA OffsetFacts ==
    /\ BlockSize \in Nat /\ BlockSize % 4 = 0 /\ 0 \in Offsets
    /\ \A o : o \in Offsets <=> o \in Nat /\ o < BlockSize /\ o % 4 = 0
<1>1. BlockSize \in Nat /\ BlockSize > 0 /\ BlockSize % 4 = 0
  BY DirAssumption
<1>2. 0 \in Offsets
  BY <1>1 DEF Offsets
<1>3. \A o : o \in Offsets <=> o \in Nat /\ o < BlockSize /\ o % 4 = 0
  BY <1>1 DEF Offsets
<1>. QED BY <1>1, <1>2, <1>3

\* What the check says of the entry at o, if f is what it says of later ones.
SwapAt(b, o, f) ==
    LET e == At(b, o)
        bad == e.rec_len < Header \/ e.rec_len % 4 # 0
        len == IF bad THEN Header ELSE e.rec_len
    IN  o < BlockSize - Header =>
            /\ ~ bad
            /\ e.name_len + Header <= len
            /\ o + len \in Offsets => f[o + len]

\* The check of a block that is read has a result.
LEMMA SwapDefined ==
    ASSUME NEW b, IsBlock(b)
    PROVE  \E ok : SwapOk(b) = ok[0] /\ \A o \in Offsets : ok[o] = SwapAt(b, o, ok)
<1> DEFINE D == Offsets
           bad(e) == e.rec_len < Header \/ e.rec_len % 4 # 0
           len(o) == IF bad(At(b, o)) THEN Header ELSE At(b, o).rec_len
           good(o) == ~ bad(At(b, o)) /\ At(b, o).name_len + Header <= len(o)
           last(o) == ~ (o < BlockSize - Header)
           nxt == [o \in D |-> o + len(o)]
           yes == {o \in D : last(o) \/ (good(o) /\ o + len(o) \notin D)}
           go == {o \in D : ~ last(o) /\ good(o) /\ o + len(o) \in D}
           V(f) == [o \in D |->
                      LET e == At(b, o)
                          ln == IF bad(e) THEN Header ELSE e.rec_len
                      IN  o < BlockSize - Header =>
                              /\ ~ bad(e)
                              /\ e.name_len + Header <= ln
                              /\ o + ln \in Offsets => f[o + ln]]
           ok == CHOOSE f : f = V(f)
<1>1. SwapOk(b) = ok[0]
  BY DEF SwapOk
<1>2. \E f : f = V(f)
  <2>1. \A o \in D : o \in go => nxt[o] \in D /\ nxt[o] > o
    <3> SUFFICES ASSUME NEW o \in D, o \in go PROVE nxt[o] \in D /\ nxt[o] > o
      OBVIOUS
    <3>1. At(b, o).rec_len \in Nat /\ o \in Nat
      BY AnyEntry, OffsetFacts
    <3>2. nxt[o] = o + len(o) /\ o + len(o) \in D /\ ~ bad(At(b, o))
      OBVIOUS
    <3>3. len(o) = At(b, o).rec_len /\ At(b, o).rec_len >= 12
      BY <3>1, <3>2 DEF Header
    <3>. QED BY <3>1, <3>2, <3>3
  <2>2. BlockSize \in Nat /\ D \in SUBSET (0 .. BlockSize)
    BY OffsetFacts
  <2>3. PICK f : f = [o \in D |-> o \in yes \/ (o \in go /\ f[nxt[o]])]
    <3> HIDE DEF D, yes, go, nxt
    <3>1. HasResult(D, yes, go, nxt)
      BY <2>1, <2>2, ScanDefined
    <3>. QED BY <3>1 DEF HasResult
  <2>4. \A o \in D : f[o] \in BOOLEAN
    BY <2>3
  <2>5. ASSUME NEW o \in D PROVE (o \in yes \/ (o \in go /\ f[nxt[o]])) = V(f)[o]
    <3>1. CASE last(o)
      BY <3>1
    <3>2. CASE ~ last(o) /\ ~ good(o)
      BY <3>2
    <3>3. CASE ~ last(o) /\ good(o)
      BY <3>3, <2>4
    <3> HIDE DEF D, bad, len, good, last, nxt, yes, go, V, ok
    <3>. QED BY <3>1, <3>2, <3>3
  <2>6. f = V(f)
    <3>1. V(f) = [o \in D |-> V(f)[o]]
      OBVIOUS
    <3> HIDE DEF D, nxt, yes, go, V
    <3>. QED BY <2>3, <2>5, <3>1
  <2> HIDE DEF V
  <2>. QED BY <2>6
<1>3. ok = V(ok)
  <2> HIDE DEF V
  <2>. QED BY <1>2
<1> HIDE DEF ok
<1>4. ASSUME NEW o \in Offsets PROVE ok[o] = SwapAt(b, o, ok)
  <2>1. ok[o] = V(ok)[o]
    BY <1>3
  <2>. QED BY <2>1 DEF SwapAt
<1>. QED BY <1>1, <1>4

\* It reaches such a set from the start of the block.
LEMMA SwapMeans ==
    ASSUME NEW b, IsBlock(b), SwapOk(b)
    PROVE  \E S : 0 \in S /\ Holding(b, S)
<1>1. PICK ok : ok[0] /\ \A o \in Offsets : ok[o] = SwapAt(b, o, ok)
  BY SwapDefined
<1> DEFINE S == {o \in Offsets : ok[o]}
<1>2. ASSUME NEW o \in S
      PROVE  /\ o \in Offsets
             /\ o < BlockSize - Header =>
                    /\ At(b, o).name_len + Header <= At(b, o).rec_len
                    /\ o + At(b, o).rec_len \in Offsets => o + At(b, o).rec_len \in S
  <2>1. o \in Offsets /\ SwapAt(b, o, ok)
    BY <1>1
  <2>. QED BY <2>1 DEF SwapAt
<1>3. 0 \in S
  BY <1>1, OffsetFacts
<1> HIDE DEF S
<1>4. Holding(b, S)
  BY <1>2 DEF Holding
<1>. QED BY <1>3, <1>4

-----------------------------------------------------------------------------
(* The next entry.                                                         *)

\* The room an entry takes by its name is no more than its length.
LEMMA EntryRoom ==
    ASSUME NEW e \in Entries, Plausible(e)
    PROVE  EntrySize(e) \in Nat /\ EntrySize(e) >= 8 /\ EntrySize(e) <= e.rec_len
<1>1. e.rec_len \in Nat /\ e.name_len \in Nat
  BY DEF Entries
<1>2. e.rec_len % 4 = 0 /\ e.name_len + 8 <= e.rec_len
  BY DEF Plausible
<1>. QED BY <1>1, <1>2 DEF EntrySize

\* One link is a chain.
LEMMA LinkedEnd == ASSUME NEW b, NEW m \in Nat PROVE Linked(b, {m}, m)
BY DEF Linked

\* Wherever the search for removed entries stops, it is behind the entry, at
\* most at its end, and lengths lead from there to the end.
LEMMA NextInside ==
    ASSUME NEW b, IsBlock(b), NEW o \in Offsets, Plausible(At(b, o)),
           o + At(b, o).rec_len <= BlockSize
    PROVE  /\ NextOffset(b, o) \in Offsets \cup {BlockSize}
           /\ NextOffset(b, o) > o
           /\ \E C : NextOffset(b, o) \in C /\ Linked(b, C, o + At(b, o).rec_len)
<1> DEFINE e == At(b, o)
           final == o + e.rec_len
           from == o + EntrySize(e)
           Stop(n) == n >= final \/ ValidateEntry(b, n, final)
           Found(n) == /\ n >= from /\ Stop(n)
                       /\ \A m \in Offsets : m >= from /\ m < n => ~ Stop(m)
           n0 == CHOOSE n \in Offsets \cup {BlockSize} : Found(n)
<1>1. e \in Entries /\ e.rec_len \in Nat
  BY AnyEntry
<1>2. e.rec_len % 4 = 0 /\ e.rec_len >= 8
  BY DEF Plausible
<1>3. EntrySize(e) \in Nat /\ EntrySize(e) >= 8 /\ EntrySize(e) <= e.rec_len
  BY <1>1, EntryRoom
<1>4. o \in Nat /\ o % 4 = 0 /\ BlockSize \in Nat /\ BlockSize % 4 = 0
  BY OffsetFacts
<1>5. final \in Nat /\ final % 4 = 0 /\ final <= BlockSize /\ final > o
  <2> HIDE DEF e
  <2>1. (o + e.rec_len) % 4 = 0
    BY <1>1, <1>2, <1>4
  <2>2. o + e.rec_len <= BlockSize
    BY DEF e
  <2>. QED BY <1>1, <1>2, <1>4, <2>1, <2>2
<1>6. from \in Nat /\ from > o /\ from <= final
  <2> HIDE DEF e
  <2>. QED BY <1>1, <1>3, <1>4
<1> HIDE DEF e, from, final
<1>7. final \in Offsets \cup {BlockSize}
  BY <1>5, OffsetFacts
<1>8. Stop(final)
  BY <1>5
<1>9. NextOffset(b, o) = final \/ NextOffset(b, o) = n0
  BY DEF NextOffset, e, from, final
<1>10. NextOffset(b, o) = final =>
         /\ NextOffset(b, o) \in Offsets \cup {BlockSize} /\ NextOffset(b, o) > o
         /\ \E C : NextOffset(b, o) \in C /\ Linked(b, C, final)
  BY <1>5, <1>7, LinkedEnd
<1>11. n0 \in Offsets \cup {BlockSize} /\ Found(n0)
  <2> DEFINE T == {n \in Offsets \cup {BlockSize} : n >= from /\ Stop(n)}
  <2>1. \A n \in Offsets \cup {BlockSize} : n \in Nat
    BY OffsetFacts
  <2>2. final \in T
    BY <1>6, <1>7, <1>8, <2>1
  <2>3. PICK x \in T : \A y \in T : x <= y
    <3>1. T \in SUBSET Nat
      BY <2>1
    <3> HIDE DEF T
    <3>. QED BY <2>2, <3>1, LeastNumber
  <2>4. x \in Offsets \cup {BlockSize} /\ x \in Nat /\ x >= from /\ Stop(x)
    BY <2>1
  <2>5. ASSUME NEW m \in Offsets, m >= from, m < x PROVE ~ Stop(m)
    <3>1. m \in Nat /\ ~ (x <= m)
      BY <2>1, <2>4, <2>5
    <3>2. m \notin T
      <4> HIDE DEF T
      <4>. QED BY <2>3, <3>1
    <3>. QED BY <2>5, <3>2
  <2>6. Found(x)
    <3> HIDE DEF Stop
    <3>. QED BY <2>4, <2>5
  <2> HIDE DEF Found
  <2>. QED BY <2>4, <2>6
<1> HIDE DEF n0
<1>12. n0 \in Nat /\ n0 > o /\ n0 <= final
  <2>1. n0 \in Nat /\ n0 <= BlockSize /\ n0 >= from
    BY <1>11, OffsetFacts
  <2>2. n0 <= final
    <3>1. CASE final = BlockSize
      BY <2>1, <3>1
    <3>2. CASE final \in Offsets
      <4>1. ~ (final >= from /\ final < n0)
        BY <1>8, <1>11, <3>2
      <4>. QED BY <1>5, <1>6, <2>1, <4>1
    <3>. QED BY <1>7, <3>1, <3>2
  <2>. QED BY <1>4, <1>6, <2>1, <2>2
<1>13. \E C : n0 \in C /\ Linked(b, C, final)
  <2>1. CASE n0 = final
    BY <1>5, <2>1, LinkedEnd
  <2>2. CASE n0 # final
    <3>1. ValidateEntry(b, n0, final)
      BY <1>5, <1>11, <1>12, <2>2
    <3>. QED BY <1>5, <1>12, <3>1, ValidateMeans
  <2>. QED BY <2>1, <2>2
<1>. QED BY <1>9, <1>10, <1>11, <1>12, <1>13 DEF final, e

-----------------------------------------------------------------------------
(* The live entries.                                                       *)

\* f says of the offsets below m whether they are in yes or come after one of
\* which it says so.
After(D, yes, pre, m, f) ==
    /\ DOMAIN f = D
    /\ \A o \in D : o < m => f[o] = (o \in yes \/ \E p \in pre[o] : f[p])

\* Such a function for all of D.
HasReach(D, yes, pre) == \E f : f = [o \in D |-> o \in yes \/ \E p \in pre[o] : f[p]]

\* Following entries that only lead forward is defined.
LEMMA ReachDefined ==
    ASSUME NEW N \in Nat, NEW D \in SUBSET (0 .. N), NEW yes, NEW pre,
           \A o \in D : pre[o] \in SUBSET D /\ \A p \in pre[o] : p < o
    PROVE  HasReach(D, yes, pre)
<1> DEFINE P(m) == \E f : After(D, yes, pre, m, f)
           T == {m \in 0 .. N + 1 : ~ P(m)}
<1>1. T = {}
  <2> SUFFICES ASSUME T # {} PROVE FALSE
    OBVIOUS
  <2>1. PICK m \in T : \A y \in T : m <= y
    <3>1. T \in SUBSET Nat
      OBVIOUS
    <3> HIDE DEF T
    <3>. QED BY <3>1, LeastNumber
  <2>2. m \in Nat /\ m <= N + 1 /\ ~ P(m)
    OBVIOUS
  <2>3. m # 0
    <3> DEFINE f == [o \in D |-> TRUE]
    <3>1. DOMAIN f = D /\ \A o \in D : ~ (o < 0)
      OBVIOUS
    <3>2. After(D, yes, pre, 0, f)
      BY <3>1, Zenon DEF After
    <3>. QED BY <2>2, <3>2
  <2>4. m - 1 \in 0 .. N + 1 /\ ~ (m <= m - 1)
    BY <2>2, <2>3
  <2>5. P(m - 1)
    <3>1. m - 1 \notin T
      <4> HIDE DEF T
      <4>. QED BY <2>1, <2>4
    <3>. QED BY <2>4, <3>1
  <2>6. PICK f : After(D, yes, pre, m - 1, f)
    BY <2>5
  <2> DEFINE g == [o \in D |-> IF o = m - 1 THEN o \in yes \/ \E p \in pre[o] : f[p] ELSE f[o]]
  <2>7. ASSUME NEW o \in D, o < m PROVE g[o] = (o \in yes \/ \E p \in pre[o] : g[p])
    <3>1. o \in Nat /\ \A p \in pre[o] : p \in D /\ p < o /\ p \in Nat
      <4>1. \A x \in D : x \in Nat
        OBVIOUS
      <4>2. pre[o] \in SUBSET D /\ \A p \in pre[o] : p < o
        OBVIOUS
      <4> HIDE DEF g, T, P
      <4>. QED BY <4>1, <4>2
    <3>2. \A p \in pre[o] : g[p] = f[p]
      BY <2>2, <2>7, <3>1
    <3>3. (\E p \in pre[o] : g[p]) = (\E p \in pre[o] : f[p])
      <4> HIDE DEF g
      <4>. QED BY <3>2
    <3>4. CASE o = m - 1
      <4>1. g[o] = (o \in yes \/ \E p \in pre[o] : f[p])
        BY <3>4
      <4> HIDE DEF g
      <4>. QED BY <3>3, <4>1
    <3>5. CASE o # m - 1
      <4>1. o < m - 1 /\ g[o] = f[o]
        BY <2>2, <2>7, <3>1, <3>5
      <4>2. f[o] = (o \in yes \/ \E p \in pre[o] : f[p])
        BY <2>6, <4>1 DEF After
      <4> HIDE DEF g
      <4>. QED BY <3>3, <4>1, <4>2
    <3>. QED BY <3>4, <3>5
  <2>8. After(D, yes, pre, m, g)
    <3>1. DOMAIN g = D
      OBVIOUS
    <3> HIDE DEF g
    <3>. QED BY <2>7, <3>1 DEF After
  <2>. QED BY <2>2, <2>8
<1>2. PICK f : After(D, yes, pre, N + 1, f)
  BY <1>1
<1> DEFINE h == [o \in D |-> o \in yes \/ \E p \in pre[o] : f[p]]
<1>3. \A o \in D : f[o] = h[o]
  <2>1. \A o \in D : o < N + 1
    OBVIOUS
  <2>. QED BY <1>2, <2>1 DEF After
<1>4. ASSUME NEW o \in D
      PROVE  (o \in yes \/ \E p \in pre[o] : f[p]) = (o \in yes \/ \E p \in pre[o] : h[p])
  <2>1. \A p \in pre[o] : f[p] = h[p]
    BY <1>3
  <2> HIDE DEF h
  <2>. QED BY <2>1
<1>5. h = [o \in D |-> o \in yes \/ \E p \in pre[o] : h[p]]
  BY <1>4
<1>. QED BY <1>5 DEF HasReach

\* The offsets that lengths lead to from the start of a block.
LEMMA ReachMeans ==
    ASSUME NEW b, IsBlock(b)
    PROVE  /\ Reach(b) \subseteq Offsets
           /\ \A o \in Offsets : o \in Reach(b) <=>
                  o = 0 \/ \E p \in Reach(b) : Leads(b, p) /\ p + At(b, p).rec_len = o
<1> DEFINE V(f) == [o \in Offsets |->
                      o = 0 \/ \E p \in Offsets : /\ Leads(b, p) /\ p + At(b, p).rec_len = o
                                                  /\ f[p]]
           reached == CHOOSE f : f = V(f)
           pre == [o \in Offsets |-> {p \in Offsets : Leads(b, p) /\ p + At(b, p).rec_len = o}]
<1>1. Reach(b) = {o \in Offsets : reached[o]}
  BY DEF Reach
<1>2. \E f : f = V(f)
  <2>1. BlockSize \in Nat /\ Offsets \in SUBSET (0 .. BlockSize)
    BY OffsetFacts
  <2>2. \A o \in Offsets : pre[o] \in SUBSET Offsets /\ \A p \in pre[o] : p < o
    <3> SUFFICES ASSUME NEW o \in Offsets, NEW p \in pre[o] PROVE p < o
      OBVIOUS
    <3>1. p \in Nat /\ At(b, p).rec_len \in Nat
      BY OffsetFacts, AnyEntry
    <3>2. At(b, p).rec_len >= 8 /\ p + At(b, p).rec_len = o
      BY DEF Leads, Plausible
    <3>. QED BY <3>1, <3>2
  <2>3. PICK f : f = [o \in Offsets |-> o \in {0} \/ \E p \in pre[o] : f[p]]
    <3> HIDE DEF pre
    <3>1. HasReach(Offsets, {0}, pre)
      BY <2>1, <2>2, ReachDefined
    <3>. QED BY <3>1 DEF HasReach
  <2>4. ASSUME NEW o \in Offsets PROVE (o \in {0} \/ \E p \in pre[o] : f[p]) = V(f)[o]
    OBVIOUS
  <2>5. f = V(f)
    BY <2>3, <2>4
  <2>. QED BY <2>5
<1>3. reached = V(reached)
  <2> HIDE DEF V
  <2>. QED BY <1>2
<1> HIDE DEF reached
<1>4. ASSUME NEW o \in Offsets
      PROVE  reached[o] = (o = 0 \/ \E p \in Offsets : /\ Leads(b, p) /\ p + At(b, p).rec_len = o
                                                       /\ reached[p])
  BY <1>3
<1> HIDE DEF V
<1>. QED BY <1>1, <1>4

\* Between a live entry and its end there is none.
LEMMA LiveApart ==
    ASSUME NEW b, IsBlock(b), NEW p \in Live(b), NEW x \in Reach(b), p < x
    PROVE  p + At(b, p).rec_len <= x
<1> DEFINE Bad == {y \in Reach(b) : \E q \in Live(b) : q < y /\ y < q + At(b, q).rec_len}
<1>1. \A o \in Reach(b) : o \in Nat /\ o \in Offsets /\ At(b, o).rec_len \in Nat
  BY ReachMeans, OffsetFacts, AnyEntry
<1>2. Live(b) \subseteq Reach(b)
  BY DEF Live
<1>3. SUFFICES ASSUME Bad # {} PROVE FALSE
  BY <1>1, <1>2
<1>4. PICK y \in Bad : \A z \in Bad : y <= z
  <2>1. Bad \in SUBSET Nat
    BY <1>1
  <2> HIDE DEF Bad
  <2>. QED BY <1>3, <2>1, LeastNumber
<1>5. PICK q \in Live(b) : q < y /\ y < q + At(b, q).rec_len
  OBVIOUS
<1>6. y \in Reach(b) /\ y \in Nat /\ q \in Nat /\ y # 0 /\ q \in Reach(b) /\ At(b, q).rec_len \in Nat
  BY <1>1, <1>2, <1>5
<1>7. PICK z \in Reach(b) : Leads(b, z) /\ z + At(b, z).rec_len = y
  BY <1>1, <1>6, ReachMeans
<1>8. z \in Nat /\ z < y /\ z \in Live(b)
  <2>1. z \in Nat /\ At(b, z).rec_len \in Nat /\ At(b, z).rec_len >= 8
    BY <1>1, <1>7 DEF Leads, Plausible
  <2>. QED BY <1>7, <2>1 DEF Live
<1>9. CASE z > q
  <2>1. z \in Bad
    BY <1>5, <1>6, <1>8, <1>9
  <2> HIDE DEF Bad
  <2>2. y <= z
    BY <1>4, <2>1
  <2>. QED BY <1>6, <1>8, <2>2
<1>10. CASE z = q
  BY <1>5, <1>6, <1>7, <1>10
<1>11. CASE z < q
  <2>1. q \in Bad
    BY <1>5, <1>6, <1>7, <1>8, <1>11
  <2> HIDE DEF Bad
  <2>2. y <= q
    BY <1>4, <2>1
  <2>. QED BY <1>5, <1>6, <2>2
<1>. QED BY <1>6, <1>8, <1>9, <1>10, <1>11

\* A live entry leads to the next.
LEMMA LiveNext ==
    ASSUME NEW b, IsBlock(b), NEW o \in Reach(b), Leads(b, o)
    PROVE  /\ o \in Live(b)
           /\ o + At(b, o).rec_len \in Offsets => o + At(b, o).rec_len \in Reach(b)
BY ReachMeans DEF Live

-----------------------------------------------------------------------------
(* The invariant.                                                          *)

\* Two blocks that differ in inode numbers only.
Alike(b, c) ==
    /\ IsBlock(b) /\ IsBlock(c) /\ DOMAIN b = DOMAIN c
    /\ \A o \in DOMAIN b : /\ b[o].rec_len = c[o].rec_len /\ b[o].name_len = c[o].name_len
                           /\ b[o].name = c[o].name

CallType == [block : Nat, blkno : Nat, offset : Nat, kind : Nat]
InBlockOf == {"entry", "end"}

\* The walk is where the extents say, and callbacks have changed inode
\* numbers at most.
Shape ==
    /\ TypeOK
    /\ inode \in Directories /\ first \in Volumes /\ calls \in Seq(CallType)
    /\ disk = [x \in DOMAIN first |-> disk[x]]
    /\ \A x \in DOMAIN first : Alike(disk[x], first[x])
    /\ pc \in InBlockOf \cup {"block"} =>
           rec <= Len(Recs) /\ bcount >= Recs[rec].cpos * ClusterBlocks
    /\ pc \in InBlockOf => bcount < End(rec) /\ Alike(buf, first[Blkno])

\* The next live entry is one the check of the block has looked at, unless it
\* is in the last header, and lengths lead to it from where the walk is.
OnChain ==
    pc = "entry" =>
        /\ \E S : Holding(buf, S) /\ (nextReal < BlockSize - Header => nextReal \in S)
        /\ \E C : offset \in C /\ Linked(buf, C, nextReal)

\* The changes that are not on the device are in the buffer, and counted.
Unwritten ==
    /\ changed \in Nat
    /\ pc \in {"start", "record", "block"} => disk = wanted
    /\ pc \in InBlockOf => /\ wanted = [disk EXCEPT ![Blkno] = buf]
                           /\ changed = 0 => disk = wanted
    /\ ChangesWritten

WalkInv == Shape /\ OnChain /\ HandedFits /\ Unwritten

\* What the records of an inode are.
LEMMA RecFacts ==
    ASSUME inode \in Directories
    PROVE  /\ Recs \in Seq([cpos : Nat, clusters : Nat, blkno : Nat]) /\ Len(Recs) \in Nat
           /\ \A r \in 1 .. Len(Recs) :
                  Recs[r].cpos \in Nat /\ Recs[r].clusters \in Nat /\ Recs[r].blkno \in Nat
<1>1. Recs \in Seq([cpos : Nat, clusters : Nat, blkno : Nat])
  BY ExtentsAssumption DEF Recs
<1>2. Len(Recs) \in Nat
  BY <1>1, LenProperties
<1>3. \A r \in 1 .. Len(Recs) : Recs[r] \in [cpos : Nat, clusters : Nat, blkno : Nat]
  BY <1>1, ElementOfSeq
<1>. QED BY <1>1, <1>2, <1>3

\* Where a record begins in the file, in blocks.
LEMMA RecStart ==
    ASSUME inode \in Directories, NEW r \in 1 .. Len(Recs)
    PROVE  Recs[r].cpos * ClusterBlocks \in Nat
<1> DEFINE p == Recs[r].cpos
           B == ClusterBlocks
<1>1. p \in Nat /\ B \in Nat
  BY RecFacts, DirAssumption
<1> HIDE DEF p, B
<1>2. p * B \in Nat
  BY <1>1
<1>. QED BY <1>2 DEF p, B

\* The block the walk is in is a block of the device.
LEMMA BlockThere ==
    ASSUME inode \in Directories, first \in Volumes, rec \in 1 .. Len(Recs), bcount \in Nat,
           bcount >= Recs[rec].cpos * ClusterBlocks, bcount < End(rec)
    PROVE  Blkno \in DOMAIN first /\ Blkno \in Nat
<1> DEFINE p == Recs[rec].cpos
           n == Recs[rec].clusters
           B == ClusterBlocks
<1>1. p \in Nat /\ n \in Nat /\ Recs[rec].blkno \in Nat /\ B \in Nat
  BY RecFacts, DirAssumption
<1>2. (p + n) * B = p * B + n * B /\ p * B \in Nat /\ n * B \in Nat
  <2> HIDE DEF p, n, B
  <2>. QED BY <1>1
<1>3. bcount - p * B \in 0 .. n * B - 1
  <2>1. bcount >= p * B /\ bcount < (p + n) * B
    BY DEF End
  <2> HIDE DEF p, n, B
  <2>. QED BY <1>1, <1>2, <2>1
<1>4. DOMAIN inode.recs = 1 .. Len(Recs)
  BY RecFacts, LenProperties DEF Recs
<1>5. Recs[rec].blkno + (bcount - p * B) \in DOMAIN first
  BY <1>3, <1>4, ExtentsAssumption DEF Recs
<1>6. Blkno = Recs[rec].blkno + (bcount - p * B)
  <2>1. Blkno = Recs[rec].blkno + bcount - p * B
    BY DEF Blkno
  <2>2. p * B \in Nat
    BY <1>2
  <2> HIDE DEF p, B
  <2>. QED BY <1>1, <2>1, <2>2
<1>7. Recs[rec].blkno + (bcount - p * B) \in Nat
  <2> DEFINE i == bcount - p * B
             b == Recs[rec].blkno
  <2>1. i \in Nat /\ b \in Nat
    BY <1>1, <1>2, <1>3
  <2> HIDE DEF i, b
  <2>2. b + i \in Nat
    BY <2>1
  <2>. QED BY <2>2 DEF i, b
<1>. QED BY <1>5, <1>6, <1>7

\* What is read at an offset of blocks that are alike.
LEMMA AlikeAt ==
    ASSUME NEW b, NEW c, Alike(b, c), NEW o
    PROVE  /\ At(b, o).rec_len = At(c, o).rec_len /\ At(b, o).name_len = At(c, o).name_len
           /\ At(b, o).name = At(c, o).name
BY DEF Alike, At

\* A change of inode numbers moves no entry.
LEMMA AlikeChains ==
    ASSUME NEW b, NEW c, Alike(b, c)
    PROVE  /\ \A S : Holding(b, S) => Holding(c, S)
           /\ \A C, m : Linked(b, C, m) => Linked(c, C, m)
<1>1. ASSUME NEW S, Holding(b, S) PROVE Holding(c, S)
  BY <1>1, AlikeAt DEF Holding
<1>2. ASSUME NEW C, NEW m, Linked(b, C, m) PROVE Linked(c, C, m)
  <2>1. \A o : At(b, o).rec_len = At(c, o).rec_len /\ (Plausible(At(b, o)) <=> Plausible(At(c, o)))
    BY AlikeAt DEF Plausible
  <2>. QED BY <1>2, <2>1 DEF Linked
<1>. QED BY <1>1, <1>2

\* Being alike carries over.
LEMMA AlikeTwice ==
    ASSUME NEW a, NEW b, NEW c, Alike(a, b), Alike(b, c) PROVE Alike(a, c)
BY DEF Alike

\* An edit of an inode number makes a block that is alike.
LEMMA EditAlike ==
    ASSUME NEW b, IsBlock(b), NEW o, NEW ino \in Nat
    PROVE  Alike([b EXCEPT ![o].inode = ino], b) /\ Alike(b, [b EXCEPT ![o].inode = ino])
<1> DEFINE c == [b EXCEPT ![o].inode = ino]
<1>1. DOMAIN c = DOMAIN b /\ \A x \in DOMAIN b : b[x] \in Entries
  BY DEF IsBlock
<1>2. ASSUME NEW x \in DOMAIN b
      PROVE  /\ c[x] \in Entries /\ c[x].rec_len = b[x].rec_len /\ c[x].name_len = b[x].name_len
             /\ c[x].name = b[x].name
  <2>1. b[x] \in Entries
    BY <1>1
  <2>2. CASE x = o
    <3>1. c[x] = [b[x] EXCEPT !.inode = ino]
      BY <2>2
    <3>. QED BY <2>1, <3>1 DEF Entries
  <2>3. CASE x # o
    <3>1. c[x] = b[x]
      BY <2>3
    <3>. QED BY <2>1, <3>1
  <2>. QED BY <2>2, <2>3
<1>3. IsBlock(c)
  <2>1. c = [x \in DOMAIN b |-> c[x]]
    OBVIOUS
  <2>2. DOMAIN c \subseteq Offsets
    BY <1>1 DEF IsBlock
  <2> HIDE DEF c
  <2>. QED BY <1>1, <1>2, <2>1, <2>2 DEF IsBlock
<1> HIDE DEF c
<1>4. Alike(c, b) /\ Alike(b, c)
  BY <1>1, <1>2, <1>3 DEF Alike
<1>. QED BY <1>4 DEF c

\* What is known inside a block, with an entry that passed the checks.
LEMMA EntryFacts ==
    ASSUME WalkInv, pc = "entry", offset < BlockSize, Fits
    PROVE  /\ offset \in Offsets /\ IsBlock(buf) /\ e0.rec_len \in Nat /\ e0.name_len \in Nat
           /\ Plausible(e0) /\ offset + e0.rec_len <= BlockSize
           /\ offset + e0.rec_len \in Offsets \cup {BlockSize}
           /\ nextReal \in Nat /\ offset <= nextReal
<1>1. offset \in Offsets /\ offset \in Nat /\ nextReal \in Nat
  BY OffsetFacts DEF WalkInv, Shape, TypeOK
<1>2. IsBlock(buf)
  BY DEF WalkInv, Shape, InBlockOf, Alike
<1>3. e0.rec_len \in Nat /\ e0.name_len \in Nat
  BY <1>2, AnyEntry DEF e0
<1>4. Plausible(e0) /\ offset + e0.rec_len <= BlockSize
  BY DEF Fits
<1>5. offset + e0.rec_len \in Offsets \cup {BlockSize}
  <2>1. e0.rec_len % 4 = 0 /\ offset % 4 = 0
    BY <1>1, <1>4, OffsetFacts DEF Plausible
  <2>2. (offset + e0.rec_len) % 4 = 0 /\ offset + e0.rec_len \in Nat
    BY <1>1, <1>3, <2>1
  <2>. QED BY <1>4, <2>2, OffsetFacts
<1>6. offset <= nextReal
  BY DEF WalkInv, OnChain, Linked
<1>. QED BY <1>1, <1>2, <1>3, <1>4, <1>5, <1>6

\* A live entry ends inside the block with its name.
LEMMA RealFits ==
    ASSUME WalkInv, pc = "entry", offset < BlockSize, Fits,
           nextReal <= offset, offset < BlockSize - Header
    PROVE  offset + Header + e0.name_len <= BlockSize
<1>1. offset \in Nat /\ nextReal = offset
  BY EntryFacts, OffsetFacts
<1>2. PICK S : Holding(buf, S) /\ (nextReal < BlockSize - Header => nextReal \in S)
  BY DEF WalkInv, OnChain
<1>3. e0.name_len + Header <= e0.rec_len
  BY <1>1, <1>2 DEF Holding, e0
<1>. QED BY <1>1, <1>3, EntryFacts, OffsetFacts DEF Header

\* On to the next entry: the walk stays on the chain.
LEMMA AdvanceChain ==
    ASSUME WalkInv, pc = "entry", offset < BlockSize, Fits, Advance
    PROVE  /\ offset' \in Offsets \cup {BlockSize} /\ nextReal' \in Offsets \cup {BlockSize}
           /\ \E S : Holding(buf, S) /\ (nextReal' < BlockSize - Header => nextReal' \in S)
           /\ \E C : offset' \in C /\ Linked(buf, C, nextReal')
<1> DEFINE final == offset + e0.rec_len
<1>1. offset' = NextOffset(buf, offset)
  BY DEF Advance
<1>2. offset' \in Offsets \cup {BlockSize} /\ \E C : offset' \in C /\ Linked(buf, C, final)
  BY <1>1, EntryFacts, NextInside DEF e0
<1>3. PICK C1 : offset' \in C1 /\ Linked(buf, C1, final)
  BY <1>2
<1>4. PICK S : Holding(buf, S) /\ (nextReal < BlockSize - Header => nextReal \in S)
  BY DEF WalkInv, OnChain
<1>5. offset \in Nat /\ nextReal \in Nat /\ e0.rec_len \in Nat /\ BlockSize \in Nat
  BY EntryFacts, OffsetFacts
<1>6. CASE nextReal = offset
  <2>1. nextReal' = final
    BY <1>5, <1>6 DEF Advance
  <2>2. nextReal' \in Offsets \cup {BlockSize}
    BY <2>1, EntryFacts
  <2>3. nextReal' < BlockSize - Header => nextReal' \in S
    <3> SUFFICES ASSUME nextReal' < BlockSize - Header PROVE nextReal' \in S
      OBVIOUS
    <3>1. offset < BlockSize - Header /\ final \in Offsets
      BY <1>5, <2>1, <2>2 DEF Header
    <3>2. offset \in S
      BY <1>4, <1>6, <3>1
    <3>. QED BY <1>4, <2>1, <3>1, <3>2 DEF Holding, e0
  <2>. QED BY <1>2, <1>3, <1>4, <2>1, <2>2, <2>3
<1>7. CASE nextReal # offset
  <2>1. nextReal' = nextReal
    BY <1>5, <1>7 DEF Advance
  <2>2. nextReal \in Offsets \cup {BlockSize}
    BY DEF WalkInv, Shape, TypeOK
  <2>3. PICK C : offset \in C /\ Linked(buf, C, nextReal)
    BY DEF WalkInv, OnChain
  <2>4. final <= nextReal /\ final \in C
    BY <1>7, <2>3 DEF Linked, e0
  <2>5. Linked(buf, C \cup C1, nextReal)
    <3> SUFFICES ASSUME NEW o \in C \cup C1
                 PROVE  /\ o \in Nat /\ o <= nextReal
                        /\ o = nextReal \/ /\ Plausible(At(buf, o))
                                           /\ o + At(buf, o).rec_len <= nextReal
                                           /\ o + At(buf, o).rec_len \in C \cup C1
      BY DEF Linked
    <3>1. CASE o \in C
      BY <2>3, <3>1 DEF Linked
    <3>2. CASE o \in C1 /\ o # final
      <4>1. /\ o \in Nat /\ o <= final /\ Plausible(At(buf, o))
            /\ o + At(buf, o).rec_len <= final /\ o + At(buf, o).rec_len \in C1
        BY <1>3, <3>2 DEF Linked
      <4>2. At(buf, o).rec_len \in Nat
        BY AnyEntry, EntryFacts
      <4>. QED BY <1>5, <2>4, <4>1, <4>2
    <3>. QED BY <2>4, <3>1, <3>2
  <2>. QED BY <1>2, <1>3, <1>4, <2>1, <2>2, <2>5
<1>. QED BY <1>6, <1>7

-----------------------------------------------------------------------------
(* The steps.                                                              *)

\* Before the walk nothing is handed over and nothing is changed.
LEMMA WalkInit == Init => WalkInv
<1> SUFFICES ASSUME Init PROVE WalkInv
  OBVIOUS
<1>1. TypeOK
  BY RecFacts, OffsetFacts DEF Init, TypeOK, Other
<1>2. disk \in Volumes /\ first = disk /\ inode \in Directories /\ calls = <<>>
  BY DEF Init
<1>3. disk = [x \in DOMAIN first |-> disk[x]] /\ \A x \in DOMAIN first : Alike(disk[x], first[x])
  BY <1>2, VolumesAssumption DEF Alike
<1>4. calls \in Seq(CallType)
  BY <1>2, EmptySeq
<1>5. Shape
  BY <1>1, <1>2, <1>3, <1>4 DEF Init, Shape, InBlockOf
<1>6. OnChain /\ Unwritten
  BY DEF Init, OnChain, Unwritten, ChangesWritten, InBlockOf
<1>7. HandedFits
  BY <1>2 DEF HandedFits
<1>. QED BY <1>5, <1>6, <1>7 DEF WalkInv

\* Inside a block the walk has a record and a block on the device.
LEMMA Inside ==
    ASSUME Shape, pc \in InBlockOf
    PROVE  /\ rec \in 1 .. Len(Recs) /\ bcount \in Nat
           /\ Blkno \in DOMAIN first /\ Blkno \in Nat /\ Alike(buf, first[Blkno])
<1>1. inode \in Directories /\ first \in Volumes /\ TypeOK
  BY DEF Shape
<1>2. rec \in 1 .. Len(Recs) + 1 /\ bcount \in Nat
  BY <1>1 DEF TypeOK
<1>3. /\ rec <= Len(Recs) /\ bcount >= Recs[rec].cpos * ClusterBlocks
      /\ bcount < End(rec) /\ Alike(buf, first[Blkno])
  BY DEF Shape
<1>4. rec \in 1 .. Len(Recs)
  BY <1>1, <1>2, <1>3, RecFacts
<1>. QED BY <1>1, <1>2, <1>3, <1>4, BlockThere

\* The callback is recorded, and what it got fits.
LEMMA CallRecorded ==
    ASSUME WalkInv, pc = "entry", offset < BlockSize, Fits, UNCHANGED first,
           NEW change \in BOOLEAN, NEW abort \in BOOLEAN, AfterCall(change, abort)
    PROVE  /\ calls' \in Seq(CallType) /\ HandedFits'
           /\ entry' \in 0 .. Other /\ changed' \in Nat
           /\ changed' = changed + IF change THEN 1 ELSE 0
<1> DEFINE c == [block |-> bcount, blkno |-> Blkno, offset |-> offset, kind |-> Kind]
<1>1. calls' = Append(calls, c)
  BY DEF AfterCall
<1>2. calls \in Seq(CallType) /\ entry \in 0 .. Other /\ changed \in Nat
  BY DEF WalkInv, Shape, TypeOK, Unwritten
<1>3. bcount \in Nat /\ Blkno \in Nat /\ Alike(buf, first[Blkno])
  BY Inside DEF WalkInv, InBlockOf
<1>4. Kind \in Nat /\ (Kind # Deleted => nextReal <= offset)
  <2>1. nextReal \in Nat /\ offset \in Nat
    BY EntryFacts, OffsetFacts
  <2>. QED BY <1>2, <2>1 DEF Kind, Deleted, Other
<1>5. offset \in Nat
  BY EntryFacts, OffsetFacts
<1>6. c \in CallType
  BY <1>2, <1>3, <1>4, <1>5 DEF CallType
<1>7. /\ HandedEnd(c) <= BlockSize + 4
      /\ c.kind # Deleted /\ c.offset < BlockSize - Header => HandedEnd(c) <= BlockSize
  <2>1. At(first[Blkno], offset).name_len = e0.name_len
    BY <1>3, AlikeAt DEF e0
  <2>2. e0.name_len \in Nat /\ e0.rec_len \in Nat
    BY <1>3, AnyEntry DEF e0, Alike
  <2>3. offset + Header + e0.name_len <= BlockSize + 4
    BY <1>5, <2>2, DirAssumption DEF Fits, Plausible, Header
  <2>4. Kind # Deleted /\ offset < BlockSize - Header => offset + Header + e0.name_len <= BlockSize
    BY <1>4, RealFits
  <2>. QED BY <2>1, <2>3, <2>4 DEF HandedEnd
<1> HIDE DEF c
<1>8. calls' \in Seq(CallType)
  BY <1>1, <1>2, <1>6, AppendProperties
<1>9. HandedFits'
  <2> SUFFICES ASSUME NEW i \in DOMAIN calls'
               PROVE  /\ HandedEnd(calls'[i]) <= BlockSize + 4
                      /\ calls'[i].kind # Deleted /\ calls'[i].offset < BlockSize - Header
                            => HandedEnd(calls'[i]) <= BlockSize
    BY DEF HandedFits, HandedEnd, At
  <2>1. CASE i \in DOMAIN calls
    <3>1. calls'[i] = calls[i]
      BY <1>1, <1>2, <1>6, <2>1, AppendProperties
    <3>. QED BY <2>1, <3>1 DEF WalkInv, HandedFits
  <2>2. CASE i \notin DOMAIN calls
    <3>1. calls'[i] = c
      BY <1>1, <1>2, <1>6, <2>2, AppendProperties
    <3>. QED BY <1>7, <3>1
  <2>. QED BY <2>1, <2>2
<1>10. /\ entry' \in 0 .. Other /\ changed' \in Nat
       /\ changed' = changed + IF change THEN 1 ELSE 0
  BY <1>2 DEF AfterCall, Other
<1>. QED BY <1>8, <1>9, <1>10

\* What was handed over stays so when no callback is made.
LEMMA HandedKept == ASSUME HandedFits, UNCHANGED <<calls, first>> PROVE HandedFits'
BY DEF HandedFits, HandedEnd, At

\* The walk begins: no buffer is in use.
LEMMA WalkStart == ASSUME WalkInv, Start PROVE WalkInv'
<1>1. UNCHANGED <<disk, files, rec, bcount, cursor, found, calls, wanted>> /\ pc = "start"
  BY DEF Start
<1>2. pc' \in {"record", "done"} /\ errcode' \in {"ok", "io", "no memory", "crash", "bad magic",
                                                   "no directory", "corrupted"}
  BY DEF Start, Return, WalkInv, Shape, TypeOK
<1>3. Shape'
  BY <1>1, <1>2 DEF WalkInv, Shape, TypeOK, files, cursor, Recs, InBlockOf
<1>4. HandedFits'
  BY <1>1, HandedKept DEF WalkInv, files
<1>5. OnChain' /\ Unwritten'
  BY <1>1, <1>2 DEF WalkInv, OnChain, Unwritten, ChangesWritten, cursor, InBlockOf
<1>. QED BY <1>3, <1>4, <1>5 DEF WalkInv

\* The next record of the extent list is begun, or the walk is over.
LEMMA WalkNextExtent == ASSUME WalkInv, NextExtent PROVE WalkInv'
<1>1. UNCHANGED <<disk, files, rec, cursor, found, calls, wanted, errcode>> /\ pc = "record"
  BY DEF NextExtent, Return
<1>2. inode \in Directories /\ rec \in 1 .. Len(Recs) + 1 /\ bcount \in Nat
  BY DEF WalkInv, Shape, TypeOK
<1>3. \/ pc' = "done" /\ bcount' = bcount
      \/ /\ pc' = "block" /\ bcount' = Recs[rec].cpos * ClusterBlocks
         /\ rec <= Len(Recs) /\ bcount' \in Nat
  <2>1. CASE rec > Len(Recs)
    BY <2>1 DEF NextExtent, Return
  <2>2. CASE ~ (rec > Len(Recs))
    <3>1. rec \in 1 .. Len(Recs) /\ rec <= Len(Recs)
      BY <1>2, <2>2, RecFacts
    <3>2. Recs[rec].cpos * ClusterBlocks \in Nat
      BY <1>2, <3>1, RecStart
    <3>. QED BY <2>2, <3>1, <3>2 DEF NextExtent
  <2>. QED BY <2>1, <2>2
<1>4. Recs' = Recs
  BY <1>1 DEF Recs, files
<1>5. TypeOK'
  BY <1>1, <1>2, <1>3, <1>4 DEF WalkInv, Shape, TypeOK, cursor
<1>6. Shape'
  <2>1. pc' \in InBlockOf \cup {"block"} =>
            rec <= Len(Recs) /\ bcount' >= Recs[rec].cpos * ClusterBlocks
    BY <1>3 DEF InBlockOf
  <2>2. pc' \notin InBlockOf
    BY <1>3 DEF InBlockOf
  <2>. QED BY <1>1, <1>4, <1>5, <2>1, <2>2 DEF WalkInv, Shape, files
<1>7. HandedFits'
  BY <1>1, HandedKept DEF WalkInv, files
<1>8. OnChain' /\ Unwritten'
  BY <1>1, <1>3 DEF WalkInv, OnChain, Unwritten, ChangesWritten, cursor, InBlockOf
<1>. QED BY <1>6, <1>7, <1>8 DEF WalkInv

\* A record is left behind its last block.
LEMMA WalkEndExtent == ASSUME WalkInv, EndExtent PROVE WalkInv'
<1>1. /\ UNCHANGED <<disk, files, bcount, cursor, errcode, found, calls, wanted>>
      /\ pc = "block" /\ pc' = "record" /\ rec' = rec + 1
  BY DEF EndExtent
<1>2. inode \in Directories /\ rec \in 1 .. Len(Recs) + 1 /\ rec <= Len(Recs)
  BY <1>1 DEF WalkInv, Shape, TypeOK, InBlockOf
<1>3. Recs' = Recs
  BY <1>1 DEF Recs, files
<1>4. rec' \in 1 .. Len(Recs) + 1
  BY <1>1, <1>2, RecFacts
<1>5. Shape'
  BY <1>1, <1>3, <1>4 DEF WalkInv, Shape, TypeOK, files, cursor, InBlockOf
<1>6. HandedFits'
  BY <1>1, HandedKept DEF WalkInv, files
<1>7. OnChain' /\ Unwritten'
  BY <1>1 DEF WalkInv, OnChain, Unwritten, ChangesWritten, cursor, InBlockOf
<1>. QED BY <1>5, <1>6, <1>7 DEF WalkInv

\* A broken entry ends the walk with an error.
LEMMA WalkCorrupt == ASSUME WalkInv, CorruptEntry PROVE WalkInv'
<1>1. /\ UNCHANGED <<disk, files, rec, bcount, cursor, found, calls, wanted>>
      /\ pc' = "done" /\ errcode' = "corrupted"
  BY DEF CorruptEntry, Return
<1>2. Shape'
  BY <1>1 DEF WalkInv, Shape, TypeOK, files, cursor, Recs, InBlockOf
<1>3. HandedFits'
  BY <1>1, HandedKept DEF WalkInv, files
<1>4. OnChain' /\ Unwritten'
  BY <1>1 DEF WalkInv, OnChain, Unwritten, ChangesWritten, cursor, InBlockOf
<1>. QED BY <1>2, <1>3, <1>4 DEF WalkInv

\* A block that passes the check is entered at its start.
LEMMA WalkReadBlock == ASSUME WalkInv, ReadBlock PROVE WalkInv'
<1>1. /\ UNCHANGED <<disk, files, rec, bcount, found, calls, wanted>> /\ pc = "block"
      /\ offset' = 0 /\ nextReal' = 0 /\ changed' = 0 /\ entry' \in {Dot, Other}
      /\ ~ (bcount >= End(rec))
  BY DEF ReadBlock
<1>2. PICK code \in {"ok", "corrupted", "io"} :
         ReadDirBlock(buf', code) /\ errcode' = code /\ pc' = IF code = "ok" THEN "entry" ELSE "done"
  BY DEF ReadBlock
<1>3. /\ inode \in Directories /\ first \in Volumes /\ rec \in 1 .. Len(Recs) + 1
      /\ bcount \in Nat /\ rec <= Len(Recs) /\ bcount >= Recs[rec].cpos * ClusterBlocks
      /\ disk = wanted
  BY <1>1 DEF WalkInv, Shape, TypeOK, InBlockOf, Unwritten
<1>4. rec \in 1 .. Len(Recs)
  BY <1>3, RecFacts
<1>5. End(rec) \in Nat /\ bcount < End(rec)
  <2> DEFINE p == Recs[rec].cpos
             n == Recs[rec].clusters
  <2>1. End(rec) \in Nat
    <3>1. p \in Nat /\ n \in Nat /\ ClusterBlocks \in Nat
      BY <1>3, <1>4, RecFacts, DirAssumption
    <3>2. End(rec) = (p + n) * ClusterBlocks
      BY DEF End
    <3> HIDE DEF p, n
    <3>. QED BY <3>1, <3>2
  <2>. QED BY <1>1, <1>3, <2>1
<1>6. Blkno \in DOMAIN first
  BY <1>3, <1>4, <1>5, BlockThere
<1>7. Recs' = Recs /\ Blkno' = Blkno /\ End(rec)' = End(rec)
  BY <1>1 DEF Recs, Blkno, End, files
<1>8. pc' = "entry" => buf' = disk[Blkno] /\ SwapOk(buf')
  BY <1>2 DEF ReadDirBlock
<1>9. Alike(disk[Blkno], first[Blkno]) /\ disk = [x \in DOMAIN first |-> disk[x]]
  BY <1>6 DEF WalkInv, Shape
<1>10. pc' \in {"entry", "done"}
  BY <1>2
<1>11. TypeOK'
  <2>1. errcode' \in {"ok", "io", "no memory", "crash", "bad magic", "no directory", "corrupted"}
    BY <1>2
  <2>2. entry' \in 0 .. Other
    BY <1>1 DEF Dot, Other
  <2>3. offset' \in Offsets \cup {BlockSize} /\ nextReal' \in Offsets \cup {BlockSize}
    BY <1>1, OffsetFacts
  <2>. QED BY <1>1, <1>3, <1>7, <1>10, <2>1, <2>2, <2>3 DEF TypeOK
<1>12. Shape'
  <2>1. pc' \in InBlockOf => bcount < End(rec) /\ Alike(buf', first[Blkno])
    BY <1>5, <1>8, <1>9, <1>10 DEF InBlockOf
  <2>. QED BY <1>1, <1>3, <1>7, <1>11, <2>1 DEF WalkInv, Shape, files
<1>13. OnChain'
  <2> SUFFICES ASSUME pc' = "entry"
               PROVE  /\ \E S : Holding(buf', S) /\ (nextReal' < BlockSize - Header => nextReal' \in S)
                      /\ \E C : offset' \in C /\ Linked(buf', C, nextReal')
    BY DEF OnChain, Holding, Linked, At
  <2>1. IsBlock(buf')
    BY <1>8, <1>9 DEF Alike
  <2>2. PICK S : 0 \in S /\ Holding(buf', S)
    BY <1>8, <2>1, SwapMeans
  <2>3. Linked(buf', {0}, 0)
    BY LinkedEnd
  <2>. QED BY <1>1, <2>2, <2>3
<1>14. HandedFits'
  BY <1>1, HandedKept DEF WalkInv, files
<1>15. Unwritten'
  <2>1. pc' = "entry" => wanted = [disk EXCEPT ![Blkno] = buf']
    <3> SUFFICES ASSUME pc' = "entry" PROVE disk = [disk EXCEPT ![Blkno] = disk[Blkno]]
      BY <1>3, <1>8
    <3>. QED BY <1>9
  <2>2. (pc \in InBlockOf => /\ wanted = [disk EXCEPT ![Blkno] = buf]
                             /\ changed = 0 => disk = wanted)'
    BY <1>1, <1>3, <1>7, <1>10, <2>1 DEF InBlockOf
  <2>3. ChangesWritten'
    BY <1>1, <1>3 DEF ChangesWritten
  <2>. QED BY <1>1, <1>10, <2>2, <2>3 DEF Unwritten
<1>. QED BY <1>12, <1>13, <1>14, <1>15 DEF WalkInv

\* An entry that is not handed over is passed on the chain.
LEMMA WalkSkip == ASSUME WalkInv, SkipEntry PROVE WalkInv'
<1>1. /\ pc = "entry" /\ offset < BlockSize /\ Fits /\ Advance
      /\ UNCHANGED <<disk, files, pc, rec, bcount, buf, entry, changed, errcode, calls, wanted>>
  BY DEF SkipEntry
<1>2. Recs' = Recs /\ Blkno' = Blkno /\ End(rec)' = End(rec)
  BY <1>1 DEF Recs, Blkno, End, files
<1>3. Shape'
  <2>1. TypeOK'
    BY <1>1, <1>2, AdvanceChain DEF WalkInv, Shape, TypeOK
  <2>. QED BY <1>1, <1>2, <2>1 DEF WalkInv, Shape, files
<1>4. OnChain'
  <2> SUFFICES /\ \E S : Holding(buf', S) /\ (nextReal' < BlockSize - Header => nextReal' \in S)
               /\ \E C : offset' \in C /\ Linked(buf', C, nextReal')
    BY DEF OnChain, Holding, Linked, At
  <2>1. buf' = buf
    BY <1>1
  <2>. QED BY <1>1, <2>1, AdvanceChain
<1>5. HandedFits'
  BY <1>1, HandedKept DEF WalkInv, files
<1>6. Unwritten'
  BY <1>1, <1>2 DEF WalkInv, Unwritten, ChangesWritten
<1>. QED BY <1>3, <1>4, <1>5, <1>6 DEF WalkInv

\* After a callback the walk leaves the block or goes on, with a buffer that
\* is like the one before.
LEMMA AfterCallPlace ==
    ASSUME WalkInv, pc = "entry", offset < BlockSize, Fits, Alike(buf', buf), Alike(buf, buf'),
           UNCHANGED <<disk, files, rec, bcount, errcode>>,
           NEW change \in BOOLEAN, NEW abort \in BOOLEAN, AfterCall(change, abort)
    PROVE  Shape' /\ OnChain' /\ HandedFits' /\ pc' \in InBlockOf
<1>1. Recs' = Recs /\ Blkno' = Blkno /\ End(rec)' = End(rec)
  BY DEF Recs, Blkno, End, files
<1>2. UNCHANGED first
  BY DEF files
<1>3. calls' \in Seq(CallType) /\ HandedFits' /\ entry' \in 0 .. Other
  BY <1>2, CallRecorded
<1>4. \/ pc' = "end" /\ offset' = offset /\ nextReal' = nextReal
      \/ pc' = "entry" /\ Advance
  BY DEF AfterCall
<1>5. offset' \in Offsets \cup {BlockSize} /\ nextReal' \in Offsets \cup {BlockSize}
  BY <1>4, AdvanceChain DEF WalkInv, Shape, TypeOK
<1>6. pc' \in InBlockOf
  BY <1>4 DEF InBlockOf
<1>7. Alike(buf', first[Blkno])
  BY AlikeTwice DEF WalkInv, Shape, InBlockOf
<1>8. Shape'
  <2>1. TypeOK'
    BY <1>1, <1>3, <1>4, <1>5 DEF WalkInv, Shape, TypeOK
  <2>2. /\ inode' \in Directories /\ first' \in Volumes
        /\ disk' = [x \in DOMAIN first' |-> disk'[x]]
        /\ \A x \in DOMAIN first' : Alike(disk'[x], first'[x])
    BY DEF WalkInv, Shape, files
  <2>3. rec <= Len(Recs) /\ bcount >= Recs[rec].cpos * ClusterBlocks /\ bcount < End(rec)
    BY DEF WalkInv, Shape, InBlockOf
  <2>. QED BY <1>1, <1>2, <1>3, <1>7, <2>1, <2>2, <2>3 DEF Shape
<1>9. OnChain'
  <2> SUFFICES ASSUME pc' = "entry"
               PROVE  /\ \E S : Holding(buf', S) /\ (nextReal' < BlockSize - Header => nextReal' \in S)
                      /\ \E C : offset' \in C /\ Linked(buf', C, nextReal')
    BY DEF OnChain, Holding, Linked, At
  <2>1. Advance
    BY <1>4
  <2>. QED BY <2>1, AdvanceChain, AlikeChains
<1>. QED BY <1>3, <1>6, <1>8, <1>9

\* cmfs_lookup's callback changes nothing.
LEMMA WalkLookup == ASSUME WalkInv, CallLookup PROVE WalkInv'
<1> DEFINE match == e0.name_len = NameLen[walk.name] /\ e0.name = walk.name
<1>1. /\ pc = "entry" /\ offset < BlockSize /\ Fits /\ AfterCall(FALSE, match)
      /\ UNCHANGED <<disk, files, rec, bcount, buf, errcode, wanted>>
  BY DEF CallLookup
<1>2. match \in BOOLEAN
  OBVIOUS
<1> HIDE DEF match
<1>3. Alike(buf', buf) /\ Alike(buf, buf')
  BY <1>1, EntryFacts DEF Alike
<1>4. Shape' /\ OnChain' /\ HandedFits' /\ pc' \in InBlockOf
  BY <1>1, <1>2, <1>3, AfterCallPlace
<1>5. changed \in Nat /\ wanted = [disk EXCEPT ![Blkno] = buf] /\ (changed = 0 => disk = wanted)
  BY <1>1 DEF WalkInv, Unwritten, InBlockOf
<1>6. changed' = changed
  BY <1>1, <1>5 DEF AfterCall
<1>7. Blkno' = Blkno
  BY <1>1 DEF Blkno, Recs, files
<1>8. Unwritten'
  BY <1>1, <1>4, <1>5, <1>6, <1>7 DEF Unwritten, ChangesWritten, InBlockOf
<1>. QED BY <1>4, <1>8 DEF WalkInv

\* Another callback changes the buffer, and what should be on the device, alike.
LEMMA WalkEdit == ASSUME WalkInv, CallEdit PROVE WalkInv'
<1>1. /\ pc = "entry" /\ offset < BlockSize /\ Fits
      /\ UNCHANGED <<disk, files, rec, bcount, errcode, found>>
  BY DEF CallEdit
<1>2. PICK ino \in {e0.inode, 0}, abort \in BOOLEAN :
        /\ buf' = [buf EXCEPT ![offset].inode = ino]
        /\ wanted' = [wanted EXCEPT ![Blkno][offset].inode = ino]
        /\ AfterCall(ino # e0.inode, abort)
  BY DEF CallEdit
<1>3. IsBlock(buf) /\ ino \in Nat
  <2>1. IsBlock(buf)
    BY <1>1, EntryFacts
  <2>2. e0 \in Entries
    BY <2>1, AnyEntry DEF e0
  <2>. QED BY <2>1, <2>2 DEF Entries
<1>4. Alike(buf', buf) /\ Alike(buf, buf')
  BY <1>2, <1>3, EditAlike
<1> DEFINE change == ino # e0.inode
<1>5. change \in BOOLEAN /\ AfterCall(change, abort)
  BY <1>2
<1>6. Shape' /\ OnChain' /\ HandedFits' /\ pc' \in InBlockOf
  <2> HIDE DEF change
  <2>. QED BY <1>1, <1>4, <1>5, AfterCallPlace
<1>7. changed' \in Nat /\ changed' = changed + IF change THEN 1 ELSE 0
  <2>1. UNCHANGED first
    BY <1>1 DEF files
  <2> HIDE DEF change
  <2>. QED BY <1>1, <1>5, <2>1, CallRecorded
<1>8. /\ changed \in Nat /\ wanted = [disk EXCEPT ![Blkno] = buf]
      /\ changed = 0 => disk = wanted
  BY <1>1 DEF WalkInv, Unwritten, InBlockOf
<1>9. Blkno' = Blkno
  BY <1>1 DEF Blkno, Recs, files
<1>10. disk = [x \in DOMAIN first |-> disk[x]] /\ Blkno \in DOMAIN first
  BY <1>1, Inside DEF WalkInv, Shape, InBlockOf
<1>11. wanted' = [disk EXCEPT ![Blkno] = buf']
  <2>1. wanted[Blkno] = buf
    BY <1>8, <1>10
  <2>2. wanted' = [wanted EXCEPT ![Blkno] = buf']
    BY <1>2, <2>1
  <2>. QED BY <1>8, <1>10, <2>2
<1>12. changed' = 0 => disk = wanted'
  <2> SUFFICES ASSUME changed' = 0 PROVE disk = wanted'
    OBVIOUS
  <2>1. changed = 0 /\ ino = e0.inode
    BY <1>7, <1>8
  <2>2. buf' = buf
    <3>1. buf = [x \in DOMAIN buf |-> buf[x]] /\ \A x \in DOMAIN buf : buf[x] \in Entries
      BY <1>3 DEF IsBlock
    <3>2. offset \in DOMAIN buf => [buf[offset] EXCEPT !.inode = ino] = buf[offset]
      BY <2>1, <3>1 DEF e0, At, Entries
    <3>. QED BY <1>2, <3>1, <3>2
  <2>. QED BY <1>8, <1>11, <2>1, <2>2
<1>13. Unwritten'
  BY <1>1, <1>6, <1>7, <1>9, <1>11, <1>12 DEF Unwritten, ChangesWritten, InBlockOf
<1>. QED BY <1>6, <1>13 DEF WalkInv

\* At the end of a block what was changed is written, or an error is returned.
LEMMA WalkEndBlock == ASSUME WalkInv, EndBlock PROVE WalkInv'
<1>1. pc \in InBlockOf /\ UNCHANGED <<files, rec, cursor, found, calls, wanted>>
  BY DEF EndBlock, InBlockOf
<1>2. PICK code \in {"ok", "io", "corrupted"} :
        /\ IF changed > 0 THEN WriteDirBlock(code) ELSE code = "ok" /\ UNCHANGED disk
        /\ IF code # "ok" \/ doAbort > 0 THEN Return(code) /\ UNCHANGED bcount
           ELSE bcount' = bcount + 1 /\ pc' = "block" /\ UNCHANGED errcode
  BY DEF EndBlock
<1>3. \/ pc' = "done" /\ errcode' = code /\ bcount' = bcount
      \/ pc' = "block" /\ errcode' = errcode /\ bcount' = bcount + 1 /\ code = "ok"
  BY <1>2 DEF Return
<1>4. /\ changed \in Nat /\ wanted = [disk EXCEPT ![Blkno] = buf]
      /\ changed = 0 => disk = wanted
  BY <1>1 DEF WalkInv, Unwritten
<1>5. disk' = disk \/ disk' = [disk EXCEPT ![Blkno] = buf]
  BY <1>2 DEF WriteDirBlock
<1>6. code = "ok" => disk' = wanted
  <2>1. CASE changed > 0
    BY <1>2, <1>4, <2>1 DEF WriteDirBlock
  <2>2. CASE ~ (changed > 0)
    BY <1>2, <1>4, <2>2
  <2>. QED BY <2>1, <2>2
<1>7. /\ rec \in 1 .. Len(Recs) /\ bcount \in Nat /\ Blkno \in DOMAIN first
      /\ Alike(buf, first[Blkno]) /\ bcount >= Recs[rec].cpos * ClusterBlocks
      /\ Recs[rec].cpos * ClusterBlocks \in Nat
  <2>1. inode \in Directories /\ bcount >= Recs[rec].cpos * ClusterBlocks
    BY <1>1 DEF WalkInv, Shape
  <2>2. /\ rec \in 1 .. Len(Recs) /\ bcount \in Nat /\ Blkno \in DOMAIN first
        /\ Alike(buf, first[Blkno])
    BY <1>1, Inside DEF WalkInv
  <2>3. Recs[rec].cpos * ClusterBlocks \in Nat
    BY <2>1, <2>2, RecStart
  <2>. QED BY <2>1, <2>2, <2>3
<1>8. /\ disk' = [x \in DOMAIN first |-> disk'[x]]
      /\ \A x \in DOMAIN first : Alike(disk'[x], first[x])
  <2>1. disk = [x \in DOMAIN first |-> disk[x]] /\ \A x \in DOMAIN first : Alike(disk[x], first[x])
    BY DEF WalkInv, Shape
  <2>2. CASE disk' = disk
    BY <2>1, <2>2
  <2>3. CASE disk' = [disk EXCEPT ![Blkno] = buf]
    <3>1. DOMAIN disk = DOMAIN first
      BY <2>1
    <3>2. disk' = [x \in DOMAIN first |-> IF x = Blkno THEN buf ELSE disk[x]]
      BY <2>3, <3>1
    <3>. QED BY <1>7, <2>1, <3>2
  <2>. QED BY <1>5, <2>2, <2>3
<1>9. Recs' = Recs /\ first' = first /\ inode' = inode
  BY <1>1 DEF Recs, files
<1>10. bcount' \in Nat /\ bcount' >= Recs[rec].cpos * ClusterBlocks
  <2> DEFINE q == Recs[rec].cpos * ClusterBlocks
  <2>1. q \in Nat /\ bcount \in Nat /\ bcount >= q
    BY <1>7
  <2> HIDE DEF q
  <2>2. bcount' \in Nat /\ bcount' >= q
    BY <1>3, <2>1
  <2>. QED BY <2>2 DEF q
<1>11. TypeOK'
  BY <1>1, <1>2, <1>3, <1>9, <1>10 DEF WalkInv, Shape, TypeOK, cursor
<1>12. Shape'
  <2>1. pc' \notin InBlockOf /\ rec' = rec /\ calls' = calls
    BY <1>1, <1>3 DEF InBlockOf
  <2>2. rec <= Len(Recs)
    BY <1>7
  <2>3. inode \in Directories /\ first \in Volumes /\ calls \in Seq(CallType)
    BY DEF WalkInv, Shape
  <2>. QED BY <1>8, <1>9, <1>10, <1>11, <2>1, <2>2, <2>3 DEF Shape
<1>13. HandedFits'
  BY <1>1, HandedKept DEF WalkInv, files
<1>14. OnChain' /\ Unwritten'
  BY <1>1, <1>3, <1>4, <1>6 DEF OnChain, Unwritten, ChangesWritten, cursor, InBlockOf
<1>. QED BY <1>12, <1>13, <1>14 DEF WalkInv

\* Every step of the walk keeps the invariant.
LEMMA WalkStep == WalkInv /\ [Next]_vars => WalkInv'
<1> SUFFICES ASSUME WalkInv, [Next]_vars PROVE WalkInv'
  OBVIOUS
<1>1. CASE Next
  BY <1>1, WalkStart, WalkNextExtent, WalkEndExtent, WalkReadBlock, WalkCorrupt, WalkSkip,
     WalkLookup, WalkEdit, WalkEndBlock DEF Next
<1>2. CASE UNCHANGED vars
  <2>1. /\ UNCHANGED <<disk, inode, walk, first, pc, rec, bcount, buf, offset, entry, nextReal>>
        /\ UNCHANGED <<changed, doAbort, errcode, found, calls, wanted>>
    BY <1>2 DEF vars, files, cursor
  <2>2. Recs' = Recs /\ Blkno' = Blkno /\ End(rec)' = End(rec)
    BY <2>1 DEF Recs, Blkno, End
  <2>3. Shape'
    BY <2>1, <2>2 DEF WalkInv, Shape, TypeOK
  <2>4. OnChain'
    BY <2>1 DEF WalkInv, OnChain, Holding, Linked, At
  <2>5. HandedFits'
    BY <2>1, HandedKept DEF WalkInv
  <2>6. Unwritten'
    BY <2>1, <2>2 DEF WalkInv, Unwritten, ChangesWritten
  <2>. QED BY <2>3, <2>4, <2>5, <2>6 DEF WalkInv
<1>. QED BY <1>1, <1>2

-----------------------------------------------------------------------------
(* The listing.                                                            *)

\* Block b of the file is in record r.
InRec(r, b) == Recs[r].cpos * ClusterBlocks <= b /\ b < End(r)

\* The blocks the walk has left, and the entries it has passed.
Behind(b) ==
    \/ pc \in {"start", "record"} /\ \E r \in 1 .. rec - 1 : InRec(r, b)
    \/ pc \in InBlockOf \cup {"block"} /\ b < bcount
Reached(x) == Behind(x.block) \/ (pc = "entry" /\ x.block = bcount /\ x.offset < nextReal)

\* The walk is in the file, and only a callback stops it.
Placed ==
    /\ walk \in Walks
    /\ pc \in InBlockOf => ~ PastSize
    /\ pc = "block" => bcount <= End(rec)
    /\ doAbort \in Nat /\ (pc \notin {"end", "done"} => doAbort = 0) /\ (pc = "end" => doAbort > 0)

\* What is ahead of the walk is as it was.
Untouched ==
    /\ pc # "done" => \A x \in FileBlocks : ~ Behind(x.block) => disk[x.blkno] = first[x.blkno]
    /\ pc = "entry" => \A o \in Offsets : o >= nextReal => At(buf, o) = At(first[Blkno], o)

\* The next live entry is on the chain of the block, and it is the next entry
\* unless removed ones are asked for.
OnLive ==
    pc = "entry" => /\ nextReal # BlockSize => nextReal \in Reach(first[Blkno])
                    /\ "removed" \notin walk.flags => offset = nextReal

\* What is shown is what the walk has passed.
ShownSoFar == pc \notin {"end", "done"} => \A x \in Listing : x \in Shown <=> Reached(x)

\* cmfs_lookup goes on until the first entry of its name, and no further.
Hit(i) == /\ Named(Place(i)) /\ found = Of(Place(i)).inode
          /\ \A j \in Real : Named(Place(j)) => j = i
LookedUp ==
    walk.name # NoName =>
        /\ doAbort = 0 => found = NotFound /\ \A i \in Real : ~ Named(Place(i))
        /\ doAbort > 0 => \E i \in Real : Hit(i)

ListInv == /\ Placed /\ Untouched /\ OnLive /\ ShownSoFar /\ EachEntryOnce /\ SoundAccepted
           /\ LookedUp

-----------------------------------------------------------------------------
(* Sound blocks.                                                           *)

\* A sound block is accepted, also after changes of inode numbers.
LEMMA SoundSwaps ==
    ASSUME NEW b, NEW c, Alike(b, c), Sound(c)
    PROVE  SwapOk(b)
<1>1. PICK s \in SUBSET DOMAIN c :
         /\ 0 \in s
         /\ \A o \in s : /\ At(c, o).rec_len >= Header + At(c, o).name_len
                         /\ o + At(c, o).rec_len \in s \cup {BlockSize}
  BY DEF Sound
<1>2. IsBlock(b) /\ IsBlock(c) /\ s \subseteq Offsets
  BY DEF Alike, IsBlock
<1>3. PICK ok : SwapOk(b) = ok[0] /\ \A o \in Offsets : ok[o] = SwapAt(b, o, ok)
  BY <1>2, SwapDefined
<1>4. ASSUME NEW o \in s
      PROVE  /\ o \in Nat /\ o < BlockSize
             /\ At(b, o).rec_len \in Nat /\ At(b, o).rec_len >= 12 /\ At(b, o).rec_len % 4 = 0
             /\ At(b, o).name_len + Header <= At(b, o).rec_len
             /\ o + At(b, o).rec_len \in Offsets => o + At(b, o).rec_len \in s
  <2>1. At(b, o).rec_len = At(c, o).rec_len /\ At(b, o).name_len = At(c, o).name_len
    BY AlikeAt
  <2>2. At(b, o).rec_len \in Nat /\ At(b, o).name_len \in Nat
    BY <1>2, AnyEntry
  <2>3. o \in Nat /\ o < BlockSize /\ o % 4 = 0 /\ BlockSize \in Nat /\ BlockSize % 4 = 0
    BY <1>2, OffsetFacts
  <2>4. At(b, o).rec_len >= Header + At(b, o).name_len /\ o + At(b, o).rec_len \in s \cup {BlockSize}
    BY <1>1, <2>1
  <2>5. (o + At(b, o).rec_len) % 4 = 0
    BY <1>2, <2>3, <2>4, OffsetFacts
  <2>6. At(b, o).rec_len % 4 = 0
    BY <2>2, <2>3, <2>5
  <2>7. BlockSize \notin Offsets
    BY <2>3, OffsetFacts
  <2>. QED BY <2>2, <2>3, <2>4, <2>6, <2>7 DEF Header
<1> DEFINE Bad == {n \in 0 .. BlockSize : \E o \in s : n = BlockSize - o /\ ~ ok[o]}
<1>5. Bad = {}
  <2> SUFFICES ASSUME Bad # {} PROVE FALSE
    OBVIOUS
  <2>1. PICK n \in Bad : \A m \in Bad : n <= m
    <3>1. Bad \in SUBSET Nat
      OBVIOUS
    <3> HIDE DEF Bad
    <3>. QED BY <3>1, LeastNumber
  <2>2. PICK o \in s : n = BlockSize - o /\ ~ ok[o]
    OBVIOUS
  <2> DEFINE nx == o + At(b, o).rec_len
  <2>3. ~ SwapAt(b, o, ok)
    BY <1>2, <1>3, <2>2
  <2>4. nx \in Offsets /\ ~ ok[nx]
    BY <1>4, <2>3 DEF SwapAt, Header
  <2>5. nx \in s /\ nx \in Nat /\ nx > o /\ nx < BlockSize
    BY <1>4, <2>4
  <2>6. BlockSize - nx \in Bad /\ ~ (n <= BlockSize - nx)
    <3>1. BlockSize \in Nat /\ o \in Nat
      BY <1>4, OffsetFacts
    <3> HIDE DEF nx
    <3>. QED BY <2>2, <2>4, <2>5, <3>1
  <2> HIDE DEF Bad
  <2>. QED BY <2>1, <2>6
<1>6. ok[0]
  <2>1. BlockSize - 0 \in 0 .. BlockSize
    BY OffsetFacts
  <2>. QED BY <1>1, <1>5, <2>1
<1>. QED BY <1>3, <1>6

\* In a sound block every live offset has an entry that leads to the next.
LEMMA SoundLeads ==
    ASSUME NEW b, IsBlock(b), Sound(b), NEW o \in Reach(b)
    PROVE  Leads(b, o)
<1>1. PICK s \in SUBSET DOMAIN b :
         /\ 0 \in s
         /\ \A x \in s : /\ At(b, x).rec_len >= Header + At(b, x).name_len
                         /\ x + At(b, x).rec_len \in s \cup {BlockSize}
  BY DEF Sound
<1>2. s \subseteq Offsets
  BY DEF IsBlock
<1>3. \A x \in Reach(b) : x \in Nat /\ x \in Offsets /\ x < BlockSize /\ At(b, x).rec_len \in Nat
  BY ReachMeans, OffsetFacts, AnyEntry
<1> DEFINE Bad == {x \in Reach(b) : x \notin s}
<1>4. Bad = {}
  <2> SUFFICES ASSUME Bad # {} PROVE FALSE
    OBVIOUS
  <2>1. PICK x \in Bad : \A y \in Bad : x <= y
    <3>1. Bad \in SUBSET Nat
      BY <1>3
    <3> HIDE DEF Bad
    <3>. QED BY <3>1, LeastNumber
  <2>2. PICK y \in Reach(b) : Leads(b, y) /\ y + At(b, y).rec_len = x
    BY <1>1, <1>3, ReachMeans
  <2>3. y \in Nat /\ x \in Nat /\ At(b, y).rec_len \in Nat /\ At(b, y).rec_len >= 8
    BY <1>3, <2>2 DEF Leads, Plausible
  <2>4. y < x
    BY <2>2, <2>3
  <2>5. y \in s
    <3>1. ~ (x <= y)
      BY <2>3, <2>4
    <3>. QED BY <2>1, <3>1
  <2>6. x \in s \cup {BlockSize} /\ x < BlockSize
    BY <1>1, <1>3, <2>2, <2>5
  <2>. QED BY <2>6, OffsetFacts
<1>5. o \in s
  BY <1>4
<1>6. At(b, o).rec_len \in Nat /\ At(b, o).name_len \in Nat /\ o \in Nat /\ o % 4 = 0
  BY <1>3, AnyEntry, OffsetFacts
<1>7. At(b, o).rec_len >= Header + At(b, o).name_len /\ o + At(b, o).rec_len \in s \cup {BlockSize}
  BY <1>1, <1>5
<1>8. o + At(b, o).rec_len <= BlockSize /\ (o + At(b, o).rec_len) % 4 = 0
  BY <1>2, <1>7, OffsetFacts
<1>9. At(b, o).rec_len % 4 = 0
  BY <1>6, <1>8
<1>. QED BY <1>6, <1>7, <1>8, <1>9 DEF Leads, Plausible, Header

-----------------------------------------------------------------------------
(* The blocks of the file.                                                 *)

\* Where block b of the file is, if it is in record r.
Where(r, b) == Recs[r].blkno + b - Recs[r].cpos * ClusterBlocks

\* What the blocks of a record are.
LEMMA RecBlocks ==
    ASSUME inode \in Directories, NEW r \in 1 .. Len(Recs)
    PROVE  /\ \A b \in Nat : InRec(r, b) => [block |-> b, blkno |-> Where(r, b)] \in Blocks(r)
           /\ \A x \in Blocks(r) : /\ x.block \in Nat /\ InRec(r, x.block)
                                   /\ x.blkno = Where(r, x.block)
                                   /\ x = [block |-> x.block, blkno |-> Where(r, x.block)]
<1> DEFINE p == Recs[r].cpos * ClusterBlocks
           k == Recs[r].blkno
           n == Recs[r].clusters * ClusterBlocks
<1>1. p \in Nat /\ k \in Nat /\ n \in Nat /\ End(r) = p + n
  <2> DEFINE q == Recs[r].cpos
             m == Recs[r].clusters
             B == ClusterBlocks
  <2>1. q \in Nat /\ m \in Nat /\ B \in Nat /\ k \in Nat
    BY RecFacts, DirAssumption
  <2>2. (q + m) * B = q * B + m * B /\ q * B \in Nat /\ m * B \in Nat
    <3> HIDE DEF q, m, B
    <3>. QED BY <2>1
  <2>. QED BY <2>1, <2>2 DEF End
<1>2. Blocks(r) = {[block |-> p + i, blkno |-> k + i] : i \in 0 .. n - 1}
  BY DEF Blocks
<1>3. \A b : InRec(r, b) <=> p <= b /\ b < p + n
  BY <1>1 DEF InRec
<1>4. \A b : Where(r, b) = k + b - p
  BY DEF Where
<1> HIDE DEF p, k, n
<1>5. ASSUME NEW b \in Nat, InRec(r, b) PROVE [block |-> b, blkno |-> Where(r, b)] \in Blocks(r)
  <2>1. b - p \in 0 .. n - 1 /\ b = p + (b - p) /\ Where(r, b) = k + (b - p)
    BY <1>1, <1>3, <1>4, <1>5
  <2>. QED BY <1>2, <2>1
<1>6. ASSUME NEW x \in Blocks(r)
      PROVE  /\ x.block \in Nat /\ InRec(r, x.block) /\ x.blkno = Where(r, x.block)
             /\ x = [block |-> x.block, blkno |-> Where(r, x.block)]
  <2>1. PICK i \in 0 .. n - 1 : x = [block |-> p + i, blkno |-> k + i]
    BY <1>2
  <2>2. x.block = p + i /\ x.blkno = k + i /\ x = [block |-> x.block, blkno |-> x.blkno]
    BY <2>1
  <2>3. x.block \in Nat /\ x.blkno = k + x.block - p /\ p <= x.block /\ x.block < p + n
    BY <1>1, <2>2
  <2>. QED BY <1>3, <1>4, <2>2, <2>3
<1>. QED BY <1>5, <1>6

\* The blocks of the file are those of its records, as far as its size goes.
LEMMA FileFacts ==
    ASSUME inode \in Directories
    PROVE  /\ \A r \in 1 .. Len(Recs), b \in Nat : InRec(r, b) /\ b * BlockSize < inode.size =>
                  [block |-> b, blkno |-> Where(r, b)] \in FileBlocks
           /\ \A x \in FileBlocks :
                  /\ x.block \in Nat /\ x.block * BlockSize < inode.size
                  /\ x = [block |-> x.block, blkno |-> x.blkno]
                  /\ \E r \in 1 .. Len(Recs) : InRec(r, x.block) /\ x.blkno = Where(r, x.block)
<1>1. DOMAIN Recs = 1 .. Len(Recs)
  BY RecFacts, LenProperties
<1>2. ASSUME NEW r \in 1 .. Len(Recs), NEW b \in Nat, InRec(r, b), b * BlockSize < inode.size
      PROVE  [block |-> b, blkno |-> Where(r, b)] \in FileBlocks
  <2>1. [block |-> b, blkno |-> Where(r, b)] \in Blocks(r)
    BY <1>2, RecBlocks
  <2>. QED BY <1>1, <1>2, <2>1 DEF FileBlocks
<1>3. ASSUME NEW x \in FileBlocks
      PROVE  /\ x.block \in Nat /\ x.block * BlockSize < inode.size
             /\ x = [block |-> x.block, blkno |-> x.blkno]
             /\ \E r \in 1 .. Len(Recs) : InRec(r, x.block) /\ x.blkno = Where(r, x.block)
  <2>1. PICK r \in 1 .. Len(Recs) : x \in Blocks(r)
    BY <1>1 DEF FileBlocks
  <2>2. /\ x.block \in Nat /\ InRec(r, x.block) /\ x.blkno = Where(r, x.block)
        /\ x = [block |-> x.block, blkno |-> Where(r, x.block)]
    BY <2>1, RecBlocks
  <2>3. x.block * BlockSize < inode.size
    BY DEF FileBlocks
  <2>. QED BY <2>2, <2>3
<1>. QED BY <1>2, <1>3

\* Records are in the order of the file, and no two share a block.
LEMMA RecsApart ==
    ASSUME inode \in Directories, NEW r \in 1 .. Len(Recs), NEW s \in 1 .. Len(Recs), r < s,
           NEW b \in Nat, InRec(r, b)
    PROVE  /\ b < Recs[s].cpos * ClusterBlocks
           /\ \A c \in Nat : InRec(s, c) => b < c /\ Where(r, b) # Where(s, c)
<1> DEFINE p == Recs[r].cpos
           m == Recs[r].clusters
           k == Recs[r].blkno
           q == Recs[s].cpos
           n == Recs[s].clusters
           l == Recs[s].blkno
           B == ClusterBlocks
<1>1. p \in Nat /\ m \in Nat /\ k \in Nat /\ q \in Nat /\ n \in Nat /\ l \in Nat /\ B \in Nat
  BY RecFacts, DirAssumption
<1>2. DOMAIN inode.recs = 1 .. Len(Recs)
  BY RecFacts, LenProperties DEF Recs
<1>3. p + m <= q /\ (k + m * B <= l \/ l + n * B <= k)
  BY <1>2, OrderAssumption DEF Recs
<1>4. \A c : InRec(s, c) <=> q * B <= c /\ c < (q + n) * B
  BY DEF InRec, End
<1>5. p * B <= b /\ b < (p + m) * B
  BY DEF InRec, End
<1>6. \A c : Where(s, c) = l + c - q * B
  BY DEF Where
<1>7. Where(r, b) = k + b - p * B
  BY DEF Where
<1> HIDE DEF p, m, k, q, n, l, B
<1>8. /\ p * B \in Nat /\ q * B \in Nat /\ m * B \in Nat /\ n * B \in Nat
      /\ (p + m) * B = p * B + m * B /\ (q + n) * B = q * B + n * B
  BY <1>1
<1>9. (p + m) * B <= q * B
  <2>1. \E d \in Nat : q = p + m + d
    <3>1. q - (p + m) \in Nat /\ q = p + m + (q - (p + m))
      BY <1>1, <1>3
    <3>. QED BY <3>1
  <2>2. PICK d \in Nat : q = p + m + d
    BY <2>1
  <2>3. q * B = (p + m) * B + d * B /\ d * B \in Nat
    BY <1>1, <2>2
  <2>. QED BY <1>1, <1>8, <2>3
<1>10. b < q * B
  BY <1>5, <1>8, <1>9
<1>11. ASSUME NEW c \in Nat, InRec(s, c) PROVE b < c /\ Where(r, b) # Where(s, c)
  <2>1. q * B <= c /\ c < q * B + n * B
    BY <1>4, <1>8, <1>11
  <2>2. b < c
    BY <1>8, <1>10, <2>1
  <2>3. k <= Where(r, b) /\ Where(r, b) < k + m * B
    BY <1>1, <1>5, <1>7, <1>8
  <2>4. l <= Where(s, c) /\ Where(s, c) < l + n * B
    BY <1>1, <1>6, <1>8, <2>1
  <2>5. Where(r, b) \in Int /\ Where(s, c) \in Int
    BY <1>1, <1>6, <1>7, <1>8
  <2>. QED BY <1>1, <1>3, <1>8, <2>2, <2>3, <2>4, <2>5
<1>. QED BY <1>10, <1>11 DEF q, B

\* A block of the file is in one place, and no other block of it is there.
LEMMA BlocksApart ==
    ASSUME inode \in Directories, NEW x \in FileBlocks, NEW y \in FileBlocks,
           x.block = y.block \/ x.blkno = y.blkno
    PROVE  x = y
<1>1. PICK r \in 1 .. Len(Recs) : InRec(r, x.block) /\ x.blkno = Where(r, x.block)
  BY FileFacts
<1>2. PICK s \in 1 .. Len(Recs) : InRec(s, y.block) /\ y.blkno = Where(s, y.block)
  BY FileFacts
<1>3. /\ x.block \in Nat /\ y.block \in Nat /\ r \in Nat /\ s \in Nat
      /\ x = [block |-> x.block, blkno |-> x.blkno] /\ y = [block |-> y.block, blkno |-> y.blkno]
  BY FileFacts
<1>4. CASE r < s
  <2>1. x.block < y.block /\ x.blkno # y.blkno
    BY <1>1, <1>2, <1>3, <1>4, RecsApart
  <2>. QED BY <1>3, <2>1
<1>5. CASE s < r
  <2>1. y.block < x.block /\ x.blkno # y.blkno
    BY <1>1, <1>2, <1>3, <1>5, RecsApart
  <2>. QED BY <1>3, <2>1
<1>6. CASE r = s
  <2>1. Recs[r].blkno \in Nat /\ Recs[r].cpos * ClusterBlocks \in Nat
    BY RecFacts, RecStart
  <2>2. /\ x.blkno = Recs[r].blkno + x.block - Recs[r].cpos * ClusterBlocks
        /\ y.blkno = Recs[r].blkno + y.block - Recs[r].cpos * ClusterBlocks
    BY <1>1, <1>2, <1>6 DEF Where
  <2> DEFINE p == Recs[r].cpos * ClusterBlocks
  <2>3. p \in Nat /\ x.blkno = Recs[r].blkno + x.block - p /\ y.blkno = Recs[r].blkno + y.block - p
    BY <2>1, <2>2
  <2> HIDE DEF p
  <2>4. x.block = y.block /\ x.blkno = y.blkno
    BY <1>3, <2>1, <2>3
  <2>. QED BY <1>3, <2>4
<1>. QED BY <1>3, <1>4, <1>5, <1>6

\* The file, and what is asked of it, stay the same during a walk.
LEMMA SameFile ==
    ASSUME UNCHANGED files
    PROVE  /\ Recs' = Recs /\ FileBlocks' = FileBlocks /\ Listing' = Listing
           /\ first' = first /\ inode' = inode /\ walk' = walk
           /\ \A x : Of(x)' = Of(x) /\ (Named(x)' <=> Named(x))
           /\ \A r, b : InRec(r, b)' <=> InRec(r, b)
<1>1. first' = first /\ inode' = inode /\ walk' = walk
  BY DEF files
<1>2. Recs' = Recs
  BY <1>1 DEF Recs
<1>3. FileBlocks' = FileBlocks
  BY <1>1, <1>2 DEF FileBlocks, Blocks
<1>4. \A x : Of(x)' = Of(x)
  BY <1>1 DEF Of, At
<1>5. \A x : Named(x)' <=> Named(x)
  BY <1>1, <1>4 DEF Named
<1>6. \A r, b : InRec(r, b)' <=> InRec(r, b)
  BY <1>2 DEF InRec, End
<1>7. \A n : Live(first[n])' = Live(first[n])
  BY <1>1
<1>8. Listing' = Listing
  BY <1>1, <1>3, <1>4, <1>7 DEF Listing, Asked
<1>. QED BY <1>1, <1>2, <1>3, <1>4, <1>5, <1>6, <1>8

\* What is shown changes with a callback only.
LEMMA SameShown ==
    ASSUME UNCHANGED calls
    PROVE  Real' = Real /\ Shown' = Shown /\ \A i : Place(i)' = Place(i)
<1>1. Real' = Real
  BY DEF Real
<1>2. \A i : Place(i)' = Place(i)
  BY DEF Place
<1>. QED BY <1>1, <1>2 DEF Shown

\* What an entry of the listing is.
LEMMA ListingFacts ==
    \A x : x \in Listing <=>
        \E f \in FileBlocks : \E o \in Live(first[f.blkno]) :
            /\ x = [block |-> f.block, blkno |-> f.blkno, offset |-> o]
            /\ Asked(At(first[f.blkno], o))
<1> SUFFICES ASSUME NEW x
             PROVE  x \in Listing <=>
                        \E f \in FileBlocks : \E o \in Live(first[f.blkno]) :
                            /\ x = [block |-> f.block, blkno |-> f.blkno, offset |-> o]
                            /\ Asked(At(first[f.blkno], o))
  OBVIOUS
<1>1. ASSUME x \in Listing
      PROVE  \E f \in FileBlocks : \E o \in Live(first[f.blkno]) :
                 /\ x = [block |-> f.block, blkno |-> f.blkno, offset |-> o]
                 /\ Asked(At(first[f.blkno], o))
  <2>1. PICK f \in FileBlocks :
           /\ x \in {[block |-> f.block, blkno |-> f.blkno, offset |-> o] : o \in Live(first[f.blkno])}
           /\ Asked(Of(x))
    BY <1>1 DEF Listing
  <2>2. PICK o \in Live(first[f.blkno]) : x = [block |-> f.block, blkno |-> f.blkno, offset |-> o]
    BY <2>1
  <2>3. Of(x) = At(first[f.blkno], o)
    BY <2>2 DEF Of
  <2>. QED BY <2>1, <2>2, <2>3
<1>2. ASSUME NEW f \in FileBlocks, NEW o \in Live(first[f.blkno]),
             x = [block |-> f.block, blkno |-> f.blkno, offset |-> o],
             Asked(At(first[f.blkno], o))
      PROVE  x \in Listing
  <2>1. Of(x) = At(first[f.blkno], o)
    BY <1>2 DEF Of
  <2>. QED BY <1>2, <2>1 DEF Listing
<1>. QED BY <1>1, <1>2

\* A block of the file is on the device and was a block before the walk.
LEMMA FileBlockThere ==
    ASSUME Shape, NEW x \in FileBlocks
    PROVE  x.blkno \in DOMAIN first /\ IsBlock(first[x.blkno]) /\ Alike(disk[x.blkno], first[x.blkno])
<1>1. inode \in Directories /\ first \in Volumes
  BY DEF Shape
<1>2. x.block \in Nat /\ \E r \in 1 .. Len(Recs) : InRec(r, x.block) /\ x.blkno = Where(r, x.block)
  BY <1>1, FileFacts
<1>3. PICK r \in 1 .. Len(Recs) : InRec(r, x.block) /\ x.blkno = Where(r, x.block)
  BY <1>2
<1> DEFINE p == Recs[r].cpos
           n == Recs[r].clusters
           B == ClusterBlocks
           i == x.block - p * B
<1>4. p \in Nat /\ n \in Nat /\ Recs[r].blkno \in Nat /\ B \in Nat
  BY <1>1, RecFacts, DirAssumption
<1>5. p * B <= x.block /\ x.block < (p + n) * B /\ x.blkno = Recs[r].blkno + x.block - p * B
  BY <1>3 DEF InRec, End, Where
<1>6. i \in 0 .. n * B - 1 /\ x.blkno = Recs[r].blkno + i
  <2> DEFINE k == Recs[r].blkno
  <2>1. k \in Nat /\ x.blkno = k + x.block - p * B
    BY <1>4, <1>5
  <2> HIDE DEF p, n, B, k
  <2>2. (p + n) * B = p * B + n * B /\ p * B \in Nat /\ n * B \in Nat
    BY <1>4
  <2>3. i \in 0 .. n * B - 1 /\ x.blkno = k + i
    BY <1>2, <1>5, <2>1, <2>2
  <2>. QED BY <2>3 DEF k
<1>7. DOMAIN inode.recs = 1 .. Len(Recs)
  BY <1>1, RecFacts, LenProperties DEF Recs
<1>8. Recs[r].blkno + i \in DOMAIN first
  <2>1. i \in 0 .. inode.recs[r].clusters * ClusterBlocks - 1
    BY <1>6 DEF Recs
  <2> HIDE DEF i
  <2>. QED BY <1>1, <1>7, <2>1, ExtentsAssumption DEF Recs
<1>9. x.blkno \in DOMAIN first
  BY <1>6, <1>8
<1>. QED BY <1>9 DEF Shape, Alike

\* Where an entry of the listing is.
LEMMA ListedAt ==
    ASSUME Shape, NEW x \in Listing
    PROVE  /\ [block |-> x.block, blkno |-> x.blkno] \in FileBlocks
           /\ x = [block |-> x.block, blkno |-> x.blkno, offset |-> x.offset]
           /\ x.offset \in Live(first[x.blkno]) /\ x.offset \in Offsets /\ x.offset \in Nat
           /\ x.offset < BlockSize /\ x.block \in Nat /\ Asked(Of(x))
<1>1. PICK f \in FileBlocks : \E o \in Live(first[f.blkno]) :
         /\ x = [block |-> f.block, blkno |-> f.blkno, offset |-> o]
         /\ Asked(At(first[f.blkno], o))
  BY ListingFacts
<1>2. PICK o \in Live(first[f.blkno]) :
         /\ x = [block |-> f.block, blkno |-> f.blkno, offset |-> o]
         /\ Asked(At(first[f.blkno], o))
  BY <1>1
<1>3. x.block = f.block /\ x.blkno = f.blkno /\ x.offset = o
  BY <1>2
<1>4. f.block \in Nat /\ f = [block |-> f.block, blkno |-> f.blkno]
  BY FileFacts DEF Shape
<1>5. IsBlock(first[f.blkno])
  BY FileBlockThere
<1>6. o \in Offsets
  BY <1>5, ReachMeans DEF Live
<1>7. o \in Nat /\ o < BlockSize
  BY <1>6, OffsetFacts
<1>8. Of(x) = At(first[f.blkno], o)
  BY <1>3 DEF Of
<1>. QED BY <1>2, <1>3, <1>4, <1>6, <1>7, <1>8

\* The block the walk is in, or about to read, is one of the file.
LEMMA HereInFile ==
    ASSUME Shape, pc \in InBlockOf \cup {"block"}, bcount < End(rec), ~ PastSize
    PROVE  /\ [block |-> bcount, blkno |-> Blkno] \in FileBlocks
           /\ rec \in 1 .. Len(Recs) /\ InRec(rec, bcount) /\ bcount \in Nat
<1>1. inode \in Directories /\ rec \in 1 .. Len(Recs) + 1 /\ bcount \in Nat
  BY DEF Shape, TypeOK
<1>2. rec <= Len(Recs) /\ bcount >= Recs[rec].cpos * ClusterBlocks
  BY DEF Shape
<1>3. rec \in 1 .. Len(Recs)
  BY <1>1, <1>2, RecFacts
<1>4. InRec(rec, bcount)
  <2>1. Recs[rec].cpos * ClusterBlocks \in Nat
    BY <1>1, <1>3, RecStart
  <2> DEFINE q == Recs[rec].cpos * ClusterBlocks
  <2>2. q \in Nat /\ bcount >= q
    BY <1>2, <2>1
  <2> HIDE DEF q
  <2>3. q <= bcount
    BY <1>1, <2>2
  <2>. QED BY <2>3 DEF InRec, q
<1>5. bcount * BlockSize < inode.size
  <2>1. inode.size \in Nat /\ BlockSize \in Nat
    BY <1>1, OrderAssumption, DirAssumption
  <2>2. bcount * BlockSize \in Nat
    BY <1>1, <2>1
  <2>. QED BY <2>1, <2>2 DEF PastSize
<1>6. Blkno = Where(rec, bcount)
  BY DEF Blkno, Where
<1>. QED BY <1>1, <1>3, <1>4, <1>5, <1>6, FileFacts

\* Records are in the order of the file.
LEMMA RecsInOrder ==
    ASSUME inode \in Directories, NEW r \in 1 .. Len(Recs)
    PROVE  /\ Recs[r].cpos * ClusterBlocks \in Nat /\ End(r) \in Nat
           /\ Recs[r].cpos * ClusterBlocks <= End(r)
           /\ \A s \in 1 .. Len(Recs) : r < s => End(r) <= Recs[s].cpos * ClusterBlocks
<1> DEFINE p == Recs[r].cpos
           m == Recs[r].clusters
           B == ClusterBlocks
<1>1. p \in Nat /\ m \in Nat /\ B \in Nat
  BY RecFacts, DirAssumption
<1>2. End(r) = (p + m) * B
  BY DEF End
<1>3. p * B \in Nat /\ m * B \in Nat /\ (p + m) * B = p * B + m * B
  <2> HIDE DEF p, m, B
  <2>. QED BY <1>1
<1>4. ASSUME NEW s \in 1 .. Len(Recs), r < s PROVE End(r) <= Recs[s].cpos * ClusterBlocks
  <2> DEFINE q == Recs[s].cpos
  <2>1. q \in Nat
    BY RecFacts
  <2>2. DOMAIN inode.recs = 1 .. Len(Recs)
    BY RecFacts, LenProperties DEF Recs
  <2>3. p + m <= q
    BY <1>4, <2>2, OrderAssumption DEF Recs
  <2> DEFINE d == q - (p + m)
  <2>4. d \in Nat /\ q = p + m + d
    <3> HIDE DEF p, m, q
    <3>. QED BY <1>1, <2>1, <2>3
  <2> HIDE DEF d, p, m, q, B
  <2>5. q * B = (p + m) * B + d * B /\ d * B \in Nat /\ (p + m) * B \in Nat
    BY <1>1, <2>4
  <2>6. End(r) <= q * B
    BY <1>2, <2>5
  <2>. QED BY <2>6 DEF q, B
<1>5. End(r) \in Nat /\ p * B <= End(r)
  <2> HIDE DEF p, m, B
  <2>. QED BY <1>1, <1>2, <1>3
<1>. QED BY <1>3, <1>4, <1>5

-----------------------------------------------------------------------------
(* Steps without a callback.                                               *)

\* What was shown stays right.
LEMMA OnceKept ==
    ASSUME EachEntryOnce, UNCHANGED <<files, calls>>,
           pc' = "done" /\ errcode' = "ok" /\ doAbort' = 0 => Shown = Listing
    PROVE  EachEntryOnce'
<1>1. Listing' = Listing
  BY SameFile
<1>2. Real' = Real /\ Shown' = Shown /\ \A i : Place(i)' = Place(i)
  BY SameShown
<1>3. /\ \A i, j \in Real : i < j => Before(Place(i), Place(j))
      /\ Shown \subseteq Listing
      /\ \A x \in Shown, y \in Listing : Before(y, x) => y \in Shown
  BY DEF EachEntryOnce
<1>4. \A i, j \in Real' : i < j => Before(Place(i)', Place(j)')
  BY <1>2, <1>3
<1>. QED BY <1>1, <1>2, <1>3, <1>4 DEF EachEntryOnce, Before

\* A lookup is where it was.
LEMMA LookedUpKept ==
    ASSUME LookedUp, UNCHANGED <<files, calls, found, doAbort>>
    PROVE  LookedUp'
<1>1. walk' = walk /\ \A x : Of(x)' = Of(x) /\ (Named(x)' <=> Named(x))
  BY SameFile
<1>2. Real' = Real /\ \A i : Place(i)' = Place(i)
  BY SameShown
<1>3. \A i : Place(i) = [block |-> calls[i].block, blkno |-> calls[i].blkno, offset |-> calls[i].offset]
  BY DEF Place
<1>4. \A i : Named(Place(i))' <=> Named(Place(i))
  BY DEF Named, Of, At, Place, files
<1>5. \A i : Of(Place(i))' = Of(Place(i))
  BY DEF Of, At, Place, files
<1>6. \A i : Hit(i)' <=> Hit(i)
  BY <1>2, <1>4, <1>5 DEF Hit
<1>. QED BY <1>1, <1>2, <1>4, <1>6 DEF LookedUp

\* A walk that does not find a block corrupted now said so before or not at all.
LEMMA AcceptedKept ==
    ASSUME SoundAccepted, UNCHANGED files,
           errcode' = "corrupted" =>
               errcode = "corrupted" \/ \E x \in FileBlocks : ~ Sound(first[x.blkno])
    PROVE  SoundAccepted'
<1>1. FileBlocks' = FileBlocks /\ first' = first
  BY SameFile
<1>2. errcode' = "corrupted" => \E x \in FileBlocks : ~ Sound(first[x.blkno])
  BY DEF SoundAccepted
<1>. QED BY <1>1, <1>2 DEF SoundAccepted

\* The walk goes on to where it has passed the same entries.
LEMMA PlaceKept ==
    ASSUME Shape, ListInv, UNCHANGED <<disk, files, calls>>,
           pc \notin {"entry", "end", "done"}, pc' # "done", pc' = "entry" => nextReal' = 0,
           \A f \in FileBlocks : Behind(f.block)' <=> Behind(f.block)
    PROVE  /\ \A f \in FileBlocks' : (~ Behind(f.block) => disk[f.blkno] = first[f.blkno])'
           /\ ShownSoFar'
<1>1. FileBlocks' = FileBlocks /\ Listing' = Listing /\ first' = first
  BY SameFile
<1>2. Shown' = Shown
  BY SameShown
<1>3. ASSUME NEW f \in FileBlocks', ~ Behind(f.block)' PROVE disk'[f.blkno] = first'[f.blkno]
  BY <1>1, <1>3 DEF ListInv, Untouched
<1>4. ASSUME NEW x \in Listing PROVE x \in Shown <=> Reached(x)'
  <2>1. x.offset \in Nat /\ [block |-> x.block, blkno |-> x.blkno] \in FileBlocks
    BY ListedAt
  <2>2. Behind(x.block)' <=> Behind(x.block)
    <3> DEFINE f == [block |-> x.block, blkno |-> x.blkno]
    <3>1. f \in FileBlocks /\ f.block = x.block
      BY <2>1
    <3> HIDE DEF f
    <3>2. Behind(f.block)' <=> Behind(f.block)
      BY <3>1
    <3>. QED BY <3>1, <3>2
  <2>3. Reached(x)' <=> Reached(x)
    BY <2>1, <2>2 DEF Reached
  <2>. QED BY <2>3 DEF ListInv, ShownSoFar
<1>5. ShownSoFar'
  BY <1>1, <1>2, <1>4 DEF ShownSoFar
<1>. QED BY <1>3, <1>5

\* Nothing is shown before the walk begins.
LEMMA ListInit == Init => ListInv
<1> SUFFICES ASSUME Init PROVE ListInv
  OBVIOUS
<1>1. Real = {} /\ Shown = {}
  BY DEF Init, Real, Shown
<1>2. \A b : ~ Behind(b)
  BY DEF Init, Behind, InBlockOf
<1>3. Placed
  BY DEF Init, Placed, InBlockOf
<1>4. Untouched /\ OnLive
  BY DEF Init, Untouched, OnLive
<1>5. ShownSoFar
  BY <1>1, <1>2 DEF Init, ShownSoFar, Reached
<1>6. EachEntryOnce
  BY <1>1 DEF Init, EachEntryOnce
<1>7. SoundAccepted /\ LookedUp
  BY <1>1 DEF Init, SoundAccepted, LookedUp
<1>. QED BY <1>3, <1>4, <1>5, <1>6, <1>7 DEF ListInv

\* The walk begins at the first record.
LEMMA ListStart == ASSUME Shape, ListInv, Start PROVE ListInv'
<1>1. UNCHANGED <<disk, files, rec, bcount, cursor, found, calls, wanted>> /\ pc = "start"
  BY DEF Start
<1>2. \/ pc' = "record" /\ errcode' = errcode
      \/ pc' = "done" /\ errcode' \notin {"ok", "corrupted"}
  BY DEF Start, Return
<1>3. /\ UNCHANGED <<doAbort, walk>> /\ doAbort = 0 /\ walk \in Walks
  BY <1>1 DEF ListInv, Placed, cursor, files
<1>4. Placed'
  BY <1>2, <1>3 DEF Placed, InBlockOf
<1>5. EachEntryOnce'
  BY <1>1, <1>2, OnceKept DEF ListInv
<1>6. LookedUp'
  BY <1>1, <1>3, LookedUpKept DEF ListInv
<1>7. SoundAccepted'
  BY <1>1, <1>2, AcceptedKept DEF ListInv
<1>8. OnLive'
  BY <1>2 DEF OnLive
<1>9. Untouched' /\ ShownSoFar'
  <2>1. CASE pc' = "done"
    BY <2>1 DEF Untouched, ShownSoFar
  <2>2. CASE pc' = "record"
    <3>1. \A r, b : InRec(r, b)' <=> InRec(r, b)
      BY <1>1, SameFile
    <3>2. \A f \in FileBlocks : Behind(f.block)' <=> Behind(f.block)
      BY <1>1, <2>2, <3>1 DEF Behind, InBlockOf
    <3>3. /\ \A f \in FileBlocks' : (~ Behind(f.block) => disk[f.blkno] = first[f.blkno])'
          /\ ShownSoFar'
      BY <1>1, <2>2, <3>2, PlaceKept
    <3>. QED BY <2>2, <3>3 DEF Untouched
  <2>. QED BY <1>2, <2>1, <2>2
<1>. QED BY <1>4, <1>5, <1>6, <1>7, <1>8, <1>9 DEF ListInv

\* At the end of the records everything is shown; otherwise the blocks behind
\* the next record are those of the records before it.
LEMMA ListNextExtent == ASSUME Shape, ListInv, NextExtent PROVE ListInv'
<1>1. UNCHANGED <<disk, files, rec, cursor, found, calls, wanted, errcode>> /\ pc = "record"
  BY DEF NextExtent, Return
<1>2. inode \in Directories /\ rec \in 1 .. Len(Recs) + 1 /\ Len(Recs) \in Nat
  BY RecFacts DEF Shape, TypeOK
<1>3. \/ pc' = "done" /\ rec > Len(Recs)
      \/ /\ pc' = "block" /\ bcount' = Recs[rec].cpos * ClusterBlocks /\ rec \in 1 .. Len(Recs)
  BY <1>2 DEF NextExtent, Return
<1>4. UNCHANGED <<doAbort, walk>> /\ doAbort = 0 /\ walk \in Walks
  BY <1>1 DEF ListInv, Placed, cursor, files
<1>5. Recs' = Recs /\ \A r, b : InRec(r, b)' <=> InRec(r, b)
  BY <1>1, SameFile
<1>6. Placed'
  <2>1. pc' = "block" => bcount' <= End(rec)'
    <3>1. End(rec)' = End(rec)
      BY <1>1, <1>5 DEF End
    <3>. QED BY <1>2, <1>3, <3>1, RecsInOrder
  <2>. QED BY <1>3, <1>4, <2>1 DEF Placed, InBlockOf
<1>7. EachEntryOnce'
  <2>1. pc' = "done" => Shown = Listing
    <3> SUFFICES ASSUME rec > Len(Recs) PROVE \A x \in Listing : x \in Shown
      BY <1>3 DEF ListInv, EachEntryOnce
    <3> SUFFICES ASSUME NEW x \in Listing PROVE Reached(x)
      BY <1>1 DEF ListInv, ShownSoFar
    <3>1. [block |-> x.block, blkno |-> x.blkno] \in FileBlocks
      BY ListedAt
    <3>2. PICK r \in 1 .. Len(Recs) : InRec(r, x.block)
      <4> DEFINE f == [block |-> x.block, blkno |-> x.blkno]
      <4>1. f \in FileBlocks /\ f.block = x.block
        BY <3>1
      <4> HIDE DEF f
      <4>. QED BY <1>2, <4>1, FileFacts
    <3>3. r \in 1 .. rec - 1
      BY <1>2
    <3>. QED BY <1>1, <3>2, <3>3 DEF Reached, Behind
  <2>. QED BY <1>1, <2>1, OnceKept DEF ListInv
<1>8. LookedUp'
  BY <1>1, <1>4, LookedUpKept DEF ListInv
<1>9. SoundAccepted'
  BY <1>1, AcceptedKept DEF ListInv
<1>10. OnLive'
  BY <1>3 DEF OnLive
<1>11. Untouched' /\ ShownSoFar'
  <2>1. CASE pc' = "done"
    BY <2>1 DEF Untouched, ShownSoFar
  <2>2. CASE pc' = "block"
    <3>1. bcount' = Recs[rec].cpos * ClusterBlocks /\ rec \in 1 .. Len(Recs) /\ bcount' \in Nat
      BY <1>2, <1>3, <2>2, RecsInOrder
    <3>2. ASSUME NEW f \in FileBlocks
          PROVE  (\E r \in 1 .. rec - 1 : InRec(r, f.block)) <=> f.block < bcount'
      <4>1. f.block \in Nat
        BY <1>2, FileFacts
      <4>2. ASSUME NEW r \in 1 .. rec - 1, InRec(r, f.block) PROVE f.block < bcount'
        <5>1. r \in 1 .. Len(Recs) /\ r < rec
          BY <1>2, <3>1
        <5>2. f.block < Recs[rec].cpos * ClusterBlocks
          BY <1>2, <3>1, <4>1, <4>2, <5>1, RecsApart
        <5>. QED BY <3>1, <5>2
      <4>3. ASSUME f.block < bcount' PROVE \E r \in 1 .. rec - 1 : InRec(r, f.block)
        <5>1. PICK s \in 1 .. Len(Recs) : InRec(s, f.block)
          BY <1>2, FileFacts
        <5> DEFINE q == Recs[s].cpos * ClusterBlocks
        <5>2. q \in Nat /\ q <= f.block
          BY <1>2, <5>1, RecsInOrder DEF InRec
        <5>3. CASE rec < s
          <6>1. Recs[rec].cpos * ClusterBlocks <= End(rec) /\ End(rec) <= q /\ End(rec) \in Nat
            BY <1>2, <3>1, <5>3, RecsInOrder
          <6>2. bcount' <= End(rec)
            BY <3>1, <6>1
          <6> HIDE DEF q
          <6>. QED BY <3>1, <4>1, <4>3, <5>2, <6>1, <6>2
        <5>4. CASE rec = s
          <6>1. bcount' = q
            BY <3>1, <5>4
          <6> HIDE DEF q
          <6>. QED BY <4>1, <4>3, <5>2, <6>1
        <5>5. CASE s < rec
          <6>1. s \in 1 .. rec - 1
            BY <3>1, <5>5
          <6>. QED BY <5>1, <6>1
        <5>. QED BY <3>1, <5>3, <5>4, <5>5
      <4>. QED BY <4>2, <4>3
    <3>3. \A f \in FileBlocks : Behind(f.block)' <=> Behind(f.block)
      BY <1>1, <2>2, <3>2 DEF Behind, InBlockOf
    <3>4. /\ \A f \in FileBlocks' : (~ Behind(f.block) => disk[f.blkno] = first[f.blkno])'
          /\ ShownSoFar'
      BY <1>1, <2>2, <3>3, PlaceKept
    <3>. QED BY <2>2, <3>4 DEF Untouched
  <2>. QED BY <1>3, <2>1, <2>2
<1>. QED BY <1>6, <1>7, <1>8, <1>9, <1>10, <1>11 DEF ListInv

\* A record is left when all of its blocks, or all of the file, are behind.
LEMMA ListEndExtent == ASSUME Shape, ListInv, EndExtent PROVE ListInv'
<1>1. /\ UNCHANGED <<disk, files, bcount, cursor, errcode, found, calls, wanted>>
      /\ pc = "block" /\ pc' = "record" /\ rec' = rec + 1
      /\ bcount >= End(rec) \/ PastSize
  BY DEF EndExtent
<1>2. /\ inode \in Directories /\ rec \in 1 .. Len(Recs) /\ bcount \in Nat
      /\ bcount >= Recs[rec].cpos * ClusterBlocks /\ bcount <= End(rec) /\ Len(Recs) \in Nat
  <2>1. /\ inode \in Directories /\ rec \in 1 .. Len(Recs) + 1 /\ rec <= Len(Recs) /\ bcount \in Nat
        /\ bcount >= Recs[rec].cpos * ClusterBlocks /\ bcount <= End(rec)
    BY <1>1 DEF Shape, TypeOK, ListInv, Placed
  <2>. QED BY <2>1, RecFacts
<1>3. UNCHANGED <<doAbort, walk>> /\ doAbort = 0 /\ walk \in Walks
  BY <1>1 DEF ListInv, Placed, cursor, files
<1>4. Placed'
  BY <1>1, <1>3 DEF Placed, InBlockOf
<1>5. EachEntryOnce'
  BY <1>1, OnceKept DEF ListInv
<1>6. LookedUp'
  BY <1>1, <1>3, LookedUpKept DEF ListInv
<1>7. SoundAccepted'
  BY <1>1, AcceptedKept DEF ListInv
<1>8. OnLive'
  BY <1>1 DEF OnLive
<1>9. ASSUME NEW f \in FileBlocks
      PROVE  (\E r \in 1 .. rec : InRec(r, f.block)) <=> f.block < bcount
  <2>1. f.block \in Nat /\ f.block * BlockSize < inode.size
    BY <1>2, FileFacts
  <2> DEFINE q == Recs[rec].cpos * ClusterBlocks
  <2>2. q \in Nat /\ End(rec) \in Nat /\ bcount >= q
    BY <1>2, RecsInOrder
  <2>3. ASSUME NEW r \in 1 .. rec, InRec(r, f.block) PROVE f.block < bcount
    <3>1. r \in 1 .. Len(Recs) /\ r \in Nat /\ rec \in Nat
      BY <1>2
    <3>2. CASE r # rec
      <4>1. r < rec
        BY <3>1, <3>2
      <4>2. f.block < q
        BY <1>2, <2>1, <2>3, <3>1, <4>1, RecsApart
      <4> HIDE DEF q
      <4>. QED BY <1>2, <2>1, <2>2, <4>2
    <3>3. CASE r = rec
      <4>1. f.block < End(rec)
        BY <2>3, <3>3 DEF InRec
      <4>2. CASE bcount >= End(rec)
        <5> HIDE DEF q
        <5>. QED BY <1>2, <2>1, <2>2, <4>1, <4>2
      <4>3. CASE PastSize
        <5>1. BlockSize \in Nat /\ BlockSize > 0 /\ inode.size \in Nat
          BY <1>2, DirAssumption, OrderAssumption
        <5>2. bcount * BlockSize >= inode.size
          BY <4>3 DEF PastSize
        <5>3. SUFFICES ASSUME ~ (f.block < bcount) PROVE FALSE
          OBVIOUS
        <5> DEFINE d == f.block - bcount
        <5>4. d \in Nat /\ f.block = bcount + d
          <6> HIDE DEF q
          <6>. QED BY <1>2, <2>1, <5>3
        <5> HIDE DEF d
        <5>5. f.block * BlockSize = bcount * BlockSize + d * BlockSize
          <6> HIDE DEF q
          <6>. QED BY <1>2, <5>1, <5>4
        <5>6. d * BlockSize \in Nat /\ bcount * BlockSize \in Nat
          <6> HIDE DEF q
          <6>. QED BY <1>2, <5>1, <5>4
        <5> HIDE DEF q
        <5>. QED BY <2>1, <5>1, <5>2, <5>5, <5>6
      <4>. QED BY <1>1, <4>2, <4>3
    <3>. QED BY <3>2, <3>3
  <2>4. ASSUME f.block < bcount PROVE \E r \in 1 .. rec : InRec(r, f.block)
    <3>1. PICK s \in 1 .. Len(Recs) : InRec(s, f.block)
      BY <1>2, FileFacts
    <3> DEFINE k == Recs[s].cpos * ClusterBlocks
    <3>2. k \in Nat /\ k <= f.block
      BY <1>2, <3>1, RecsInOrder DEF InRec
    <3>3. CASE rec < s
      <4>1. End(rec) <= k
        BY <1>2, <3>3, RecsInOrder
      <4> HIDE DEF k, q
      <4>. QED BY <1>2, <2>1, <2>2, <2>4, <3>2, <4>1
    <3>4. CASE ~ (rec < s)
      <4>1. s \in 1 .. rec
        BY <1>2, <3>4
      <4>. QED BY <3>1, <4>1
    <3>. QED BY <3>3, <3>4
  <2>. QED BY <2>3, <2>4
<1>10. \A f \in FileBlocks : Behind(f.block)' <=> Behind(f.block)
  <2>1. \A r, b : InRec(r, b)' <=> InRec(r, b)
    BY <1>1, SameFile
  <2>2. rec' - 1 = rec
    BY <1>1, <1>2
  <2>. QED BY <1>1, <1>9, <2>1, <2>2 DEF Behind, InBlockOf
<1>11. /\ \A f \in FileBlocks' : (~ Behind(f.block) => disk[f.blkno] = first[f.blkno])'
       /\ ShownSoFar'
  BY <1>1, <1>10, PlaceKept
<1>12. Untouched'
  BY <1>1, <1>11 DEF Untouched
<1>. QED BY <1>4, <1>5, <1>6, <1>7, <1>8, <1>11, <1>12 DEF ListInv

\* A block is entered as it was before the walk.
LEMMA ListReadBlock == ASSUME Shape, ListInv, ReadBlock PROVE ListInv'
<1>1. /\ UNCHANGED <<disk, files, rec, bcount, found, calls, wanted>> /\ pc = "block"
      /\ offset' = 0 /\ nextReal' = 0 /\ doAbort' = 0
      /\ ~ (bcount >= End(rec)) /\ ~ PastSize
  BY DEF ReadBlock
<1>2. PICK code \in {"ok", "corrupted", "io"} :
         ReadDirBlock(buf', code) /\ errcode' = code /\ pc' = IF code = "ok" THEN "entry" ELSE "done"
  BY DEF ReadBlock
<1>3. UNCHANGED <<doAbort, walk>> /\ doAbort = 0 /\ walk \in Walks
  BY <1>1 DEF ListInv, Placed, files
<1>4. bcount < End(rec)
  <2>1. inode \in Directories /\ rec \in 1 .. Len(Recs) + 1 /\ rec <= Len(Recs) /\ bcount \in Nat
    BY <1>1 DEF Shape, TypeOK
  <2>2. rec \in 1 .. Len(Recs)
    BY <2>1, RecFacts
  <2>3. End(rec) \in Nat
    BY <2>1, <2>2, RecsInOrder
  <2>. QED BY <1>1, <2>1, <2>3
<1> DEFINE here == [block |-> bcount, blkno |-> Blkno]
<1>5. here \in FileBlocks /\ bcount \in Nat /\ here.block = bcount /\ here.blkno = Blkno
  BY <1>1, <1>4, HereInFile
<1> HIDE DEF here
<1>6. Recs' = Recs /\ Blkno' = Blkno /\ FileBlocks' = FileBlocks /\ first' = first /\ inode' = inode
  <2>1. Recs' = Recs /\ FileBlocks' = FileBlocks /\ first' = first /\ inode' = inode
    BY <1>1, SameFile
  <2>. QED BY <1>1, <2>1 DEF Blkno
<1>7. disk[Blkno] = first[Blkno] /\ IsBlock(first[Blkno]) /\ Alike(disk[Blkno], first[Blkno])
  <2>1. ~ Behind(bcount)
    BY <1>1, <1>5 DEF Behind, InBlockOf
  <2>2. disk[Blkno] = first[Blkno]
    BY <1>1, <1>5, <2>1 DEF ListInv, Untouched
  <2>. QED BY <1>5, <2>2, FileBlockThere
<1>8. pc' \in {"entry", "done"} /\ (pc' = "entry" => buf' = disk[Blkno])
  BY <1>2 DEF ReadDirBlock
<1>9. Placed'
  <2>1. PastSize' <=> PastSize
    BY <1>1, <1>6 DEF PastSize
  <2>. QED BY <1>1, <1>3, <1>8, <2>1 DEF Placed
<1>10. EachEntryOnce'
  <2>1. ~ (pc' = "done" /\ errcode' = "ok")
    BY <1>2
  <2>. QED BY <1>1, <2>1, OnceKept DEF ListInv
<1>11. LookedUp'
  BY <1>1, <1>3, LookedUpKept DEF ListInv
<1>12. SoundAccepted'
  <2>1. errcode' = "corrupted" => ~ Sound(first[Blkno])
    <3> SUFFICES ASSUME errcode' = "corrupted", Sound(first[Blkno]) PROVE FALSE
      OBVIOUS
    <3>1. SwapOk(disk[Blkno])
      BY <1>7, SoundSwaps
    <3>. QED BY <1>2, <3>1 DEF ReadDirBlock
  <2>. QED BY <1>1, <1>5, <2>1, AcceptedKept DEF ListInv
<1>13. OnLive'
  <2>1. 0 \in Reach(first[Blkno])
    BY <1>7, ReachMeans, OffsetFacts
  <2>2. (Reach(first[Blkno]))' = Reach(first[Blkno])
    BY <1>6
  <2>. QED BY <1>1, <2>1, <2>2 DEF OnLive
<1>14. Untouched' /\ ShownSoFar'
  <2>1. CASE pc' = "done"
    BY <2>1 DEF Untouched, ShownSoFar
  <2>2. CASE pc' = "entry"
    <3>1. \A f \in FileBlocks : Behind(f.block)' <=> Behind(f.block)
      BY <1>1, <2>2 DEF Behind, InBlockOf
    <3>2. /\ \A f \in FileBlocks' : (~ Behind(f.block) => disk[f.blkno] = first[f.blkno])'
          /\ ShownSoFar'
      BY <1>1, <2>2, <3>1, PlaceKept
    <3>3. buf' = first'[Blkno']
      BY <1>6, <1>7, <1>8, <2>2
    <3>. QED BY <2>2, <3>2, <3>3 DEF Untouched
  <2>. QED BY <1>8, <2>1, <2>2
<1>. QED BY <1>9, <1>10, <1>11, <1>12, <1>13, <1>14 DEF ListInv

\* The two cursors are numbers up to the block size.
LEMMA CursorFacts ==
    ASSUME Shape
    PROVE  /\ BlockSize \in Nat /\ offset \in Nat /\ offset <= BlockSize
           /\ nextReal \in Nat /\ nextReal <= BlockSize
           /\ offset < BlockSize => offset \in Offsets
           /\ nextReal < BlockSize => nextReal \in Offsets
<1>1. \A o \in Offsets \cup {BlockSize} :
        /\ o \in Nat /\ o <= BlockSize
        /\ o < BlockSize => o \in Offsets
  BY OffsetFacts
<1>2. offset \in Offsets \cup {BlockSize} /\ nextReal \in Offsets \cup {BlockSize}
  BY DEF Shape, TypeOK
<1>. QED BY <1>1, <1>2, OffsetFacts

\* Inside a block of the file.
LEMMA HereNow ==
    ASSUME Shape, ListInv, pc \in InBlockOf
    PROVE  /\ [block |-> bcount, blkno |-> Blkno] \in FileBlocks /\ bcount \in Nat
           /\ Alike(buf, first[Blkno]) /\ IsBlock(buf) /\ IsBlock(first[Blkno])
<1>1. bcount < End(rec) /\ ~ PastSize /\ Alike(buf, first[Blkno])
  BY DEF Shape, ListInv, Placed
<1>2. [block |-> bcount, blkno |-> Blkno] \in FileBlocks /\ bcount \in Nat
  BY <1>1, HereInFile
<1>. QED BY <1>1, <1>2 DEF Alike

\* In a sound block no entry is refused.
LEMMA SoundFits ==
    ASSUME WalkInv, ListInv, pc = "entry", offset < BlockSize, Sound(first[Blkno])
    PROVE  Fits
<1>1. Alike(buf, first[Blkno]) /\ IsBlock(buf) /\ IsBlock(first[Blkno])
  BY HereNow DEF WalkInv, InBlockOf
<1>2. /\ offset \in Offsets /\ offset \in Nat /\ nextReal \in Nat /\ nextReal <= BlockSize
      /\ BlockSize \in Nat
  BY CursorFacts DEF WalkInv
<1>3. PICK C : offset \in C /\ Linked(buf, C, nextReal)
  BY DEF WalkInv, OnChain
<1>4. CASE offset = nextReal
  <2>1. nextReal \in Reach(first[Blkno])
    BY <1>2, <1>4 DEF ListInv, OnLive
  <2>2. Leads(first[Blkno], offset)
    BY <1>1, <1>4, <2>1, SoundLeads
  <2>3. e0.rec_len = At(first[Blkno], offset).rec_len /\ e0.name_len = At(first[Blkno], offset).name_len
    BY <1>1, AlikeAt DEF e0
  <2>. QED BY <2>2, <2>3 DEF Leads, Fits, Plausible
<1>5. CASE offset # nextReal
  <2>1. Plausible(e0) /\ offset + e0.rec_len <= nextReal
    BY <1>3, <1>5 DEF Linked, e0
  <2>2. e0.rec_len \in Nat
    BY <1>1, AnyEntry DEF e0
  <2>. QED BY <1>2, <2>1, <2>2 DEF Fits
<1>. QED BY <1>4, <1>5

\* A refused entry is one of a block that is not sound.
LEMMA ListCorrupt == ASSUME WalkInv, ListInv, CorruptEntry PROVE ListInv'
<1>1. /\ UNCHANGED <<disk, files, rec, bcount, cursor, found, calls, wanted>>
      /\ pc' = "done" /\ errcode' = "corrupted" /\ pc = "entry" /\ offset < BlockSize /\ ~ Fits
  BY DEF CorruptEntry, Return
<1>2. UNCHANGED <<doAbort, walk>> /\ doAbort = 0 /\ walk \in Walks
  BY <1>1 DEF ListInv, Placed, cursor, files
<1>3. Placed'
  BY <1>1, <1>2 DEF Placed, InBlockOf
<1>4. EachEntryOnce'
  BY <1>1, OnceKept DEF ListInv
<1>5. LookedUp'
  BY <1>1, <1>2, LookedUpKept DEF ListInv
<1>6. SoundAccepted'
  <2> DEFINE here == [block |-> bcount, blkno |-> Blkno]
  <2>1. here \in FileBlocks /\ here.blkno = Blkno
    BY <1>1, HereNow DEF WalkInv, InBlockOf
  <2> HIDE DEF here
  <2>2. ~ Sound(first[Blkno])
    BY <1>1, SoundFits
  <2>. QED BY <1>1, <2>1, <2>2, AcceptedKept DEF ListInv
<1>7. OnLive' /\ Untouched' /\ ShownSoFar'
  BY <1>1 DEF OnLive, Untouched, ShownSoFar
<1>. QED BY <1>3, <1>4, <1>5, <1>6, <1>7 DEF ListInv

\* At the end of a block all its entries are behind, or the walk is over.
LEMMA ListEndBlock == ASSUME WalkInv, ListInv, EndBlock PROVE ListInv'
<1>1. /\ pc \in InBlockOf /\ UNCHANGED <<files, rec, cursor, found, calls, wanted>>
      /\ pc = "end" \/ (pc = "entry" /\ offset >= BlockSize)
  BY DEF EndBlock, InBlockOf
<1>2. PICK code \in {"ok", "io", "corrupted"} :
        /\ IF changed > 0 THEN WriteDirBlock(code) ELSE code = "ok" /\ UNCHANGED disk
        /\ IF code # "ok" \/ doAbort > 0 THEN Return(code) /\ UNCHANGED bcount
           ELSE bcount' = bcount + 1 /\ pc' = "block" /\ UNCHANGED errcode
  BY DEF EndBlock
<1>3. UNCHANGED <<doAbort, walk>> /\ doAbort \in Nat /\ walk \in Walks
  BY <1>1 DEF ListInv, Placed, cursor, files
<1>4. \/ /\ pc' = "done" /\ errcode' = code /\ bcount' = bcount
         /\ code # "ok" \/ doAbort > 0
      \/ /\ pc' = "block" /\ errcode' = errcode /\ bcount' = bcount + 1 /\ code = "ok"
         /\ doAbort = 0
  BY <1>2, <1>3 DEF Return
<1>5. Shape
  BY DEF WalkInv
<1> DEFINE here == [block |-> bcount, blkno |-> Blkno]
<1>6. here \in FileBlocks /\ here.block = bcount /\ here.blkno = Blkno /\ bcount \in Nat
  BY <1>1, <1>5, HereNow
<1> HIDE DEF here
<1>7. Alike(buf, first[Blkno])
  BY <1>1, <1>5, HereNow
<1>8. Recs' = Recs /\ FileBlocks' = FileBlocks /\ first' = first /\ Listing' = Listing
  BY <1>1, SameFile
<1>9. Placed'
  <2>1. bcount < End(rec)
    BY <1>1, <1>5 DEF Shape
  <2>2. End(rec)' = End(rec)
    BY <1>1, <1>8 DEF End
  <2>3. End(rec) \in Nat
    <3>1. inode \in Directories /\ rec \in 1 .. Len(Recs)
      BY <1>1, <1>5, Inside DEF Shape
    <3>. QED BY <3>1, RecsInOrder
  <2>4. pc' = "block" => bcount' <= End(rec)'
    BY <1>4, <1>6, <2>1, <2>2, <2>3
  <2>. QED BY <1>3, <1>4, <2>4 DEF Placed, InBlockOf
<1>10. EachEntryOnce'
  <2>1. ~ (pc' = "done" /\ errcode' = "ok" /\ doAbort' = 0)
    BY <1>3, <1>4
  <2>. QED BY <1>1, <2>1, OnceKept DEF ListInv
<1>11. LookedUp'
  BY <1>1, <1>3, LookedUpKept DEF ListInv
<1>12. SoundAccepted'
  <2>1. code = "corrupted" => ~ Sound(first[Blkno])
    <3> SUFFICES ASSUME code = "corrupted", Sound(first[Blkno]) PROVE FALSE
      OBVIOUS
    <3>1. SwapOk(buf)
      BY <1>7, SoundSwaps
    <3>. QED BY <1>2, <3>1 DEF WriteDirBlock
  <2>. QED BY <1>1, <1>4, <1>6, <2>1, AcceptedKept DEF ListInv
<1>13. OnLive'
  BY <1>4 DEF OnLive
<1>14. Untouched' /\ ShownSoFar'
  <2>1. CASE pc' = "done"
    BY <2>1 DEF Untouched, ShownSoFar
  <2>2. CASE pc' = "block"
    <3>1. pc = "entry" /\ offset >= BlockSize /\ bcount' = bcount + 1
      BY <1>1, <1>4, <2>2 DEF ListInv, Placed
    <3>2. nextReal = BlockSize
      <4>1. PICK C : offset \in C /\ Linked(buf, C, nextReal)
        BY <3>1 DEF WalkInv, OnChain
      <4>2. offset <= nextReal /\ offset \in Nat
        BY <4>1 DEF Linked
      <4>3. nextReal \in Nat /\ nextReal <= BlockSize /\ BlockSize \in Nat
        BY <1>5, CursorFacts
      <4>. QED BY <3>1, <4>2, <4>3
    <3>3. ASSUME NEW f \in FileBlocks', ~ Behind(f.block)' PROVE disk'[f.blkno] = first'[f.blkno]
      <4>1. f \in FileBlocks /\ f.block \in Nat
        BY <1>5, <1>8, FileFacts DEF Shape
      <4>2. ~ (f.block < bcount + 1)
        BY <2>2, <3>1, <3>3 DEF Behind
      <4>3. f.block # bcount /\ ~ Behind(f.block)
        BY <1>6, <3>1, <4>1, <4>2 DEF Behind, InBlockOf
      <4>4. f.blkno # Blkno
        BY <1>5, <1>6, <4>1, <4>3, BlocksApart DEF Shape
      <4>5. disk[f.blkno] = first[f.blkno]
        BY <3>1, <4>1, <4>3 DEF ListInv, Untouched
      <4>6. disk'[f.blkno] = disk[f.blkno]
        <5>1. disk' = disk \/ disk' = [disk EXCEPT ![Blkno] = buf]
          BY <1>2 DEF WriteDirBlock
        <5>2. f.blkno \in DOMAIN disk
          BY <1>5, <4>1, FileBlockThere DEF Shape
        <5>. QED BY <4>4, <5>1, <5>2
      <4>. QED BY <1>8, <4>5, <4>6
    <3>4. ASSUME NEW x \in Listing PROVE x \in Shown <=> Reached(x)'
      <4>1. x.block \in Nat /\ x.offset \in Nat /\ x.offset < BlockSize
        BY <1>5, ListedAt
      <4>2. Reached(x)' <=> x.block < bcount + 1
        BY <2>2, <3>1 DEF Reached, Behind
      <4>3. Reached(x) <=> x.block < bcount \/ x.block = bcount
        BY <3>1, <3>2, <4>1 DEF Reached, Behind, InBlockOf
      <4>4. Reached(x)' <=> Reached(x)
        BY <1>6, <4>1, <4>2, <4>3
      <4>. QED BY <3>1, <4>4 DEF ListInv, ShownSoFar
    <3>5. Shown' = Shown
      BY <1>1, SameShown
    <3>. QED BY <1>8, <2>2, <3>3, <3>4, <3>5 DEF Untouched, ShownSoFar
  <2>. QED BY <1>4, <2>1, <2>2
<1>. QED BY <1>9, <1>10, <1>11, <1>12, <1>13, <1>14 DEF ListInv

-----------------------------------------------------------------------------
(* Steps over an entry.                                                    *)

\* An entry of the listing with the number of this block is in this block.
LEMMA ListedHere ==
    ASSUME Shape, ListInv, pc \in InBlockOf, NEW x \in Listing, x.block = bcount
    PROVE  x.blkno = Blkno /\ x = [block |-> bcount, blkno |-> Blkno, offset |-> x.offset]
<1> DEFINE f == [block |-> x.block, blkno |-> x.blkno]
           h == [block |-> bcount, blkno |-> Blkno]
<1>1. f \in FileBlocks /\ x = [block |-> x.block, blkno |-> x.blkno, offset |-> x.offset]
  BY ListedAt
<1>2. h \in FileBlocks
  BY HereNow
<1>3. f.block = x.block /\ h.block = bcount /\ f.blkno = x.blkno /\ h.blkno = Blkno
  OBVIOUS
<1> HIDE DEF f, h
<1>4. f = h
  BY <1>1, <1>2, <1>3, BlocksApart DEF Shape
<1>. QED BY <1>1, <1>3, <1>4

\* On to the next entry: a live one is passed if the walk was at it, and no
\* other.
LEMMA NextLive ==
    ASSUME WalkInv, ListInv, pc = "entry", offset < BlockSize, Fits, Advance
    PROVE  /\ nextReal' \in Nat /\ nextReal <= nextReal' /\ offset < nextReal'
           /\ nextReal' # BlockSize => nextReal' \in Reach(first[Blkno])
           /\ "removed" \notin walk.flags => offset' = nextReal'
           /\ \A x \in Listing : x.block = bcount =>
                  (x.offset < nextReal' <=> x.offset < nextReal \/ (offset = nextReal /\ x.offset = offset))
           /\ offset = nextReal => offset \in Live(first[Blkno]) /\ e0 = At(first[Blkno], offset)
<1> DEFINE b == first[Blkno]
           final == offset + e0.rec_len
<1>1. Shape /\ Alike(buf, b) /\ IsBlock(buf) /\ IsBlock(b)
  BY HereNow DEF WalkInv, InBlockOf
<1>2. /\ offset \in Offsets /\ offset \in Nat /\ nextReal \in Nat /\ e0.rec_len \in Nat
      /\ BlockSize \in Nat /\ offset <= nextReal /\ Plausible(e0) /\ final <= BlockSize
      /\ final \in Offsets \cup {BlockSize}
  BY EntryFacts, OffsetFacts
<1>3. e0.rec_len >= 8
  BY <1>2 DEF Plausible
<1>4. final \in Nat /\ offset < final
  BY <1>2, <1>3
<1>5. offset' = NextOffset(buf, offset)
  BY DEF Advance
<1>6. CASE offset = nextReal
  <2>1. nextReal' = final
    BY <1>2, <1>6 DEF Advance
  <2>2. e0 = At(b, offset)
    BY <1>2, <1>6 DEF ListInv, Untouched, e0
  <2>3. offset \in Reach(b)
    BY <1>2, <1>6 DEF ListInv, OnLive
  <2>4. Leads(b, offset)
    BY <1>2, <2>2 DEF Leads
  <2> HIDE DEF b
  <2>5. /\ offset \in Live(b)
        /\ final \in Offsets => final \in Reach(b)
    BY <1>1, <2>2, <2>3, <2>4, LiveNext
  <2>6. nextReal' # BlockSize => nextReal' \in Reach(b)
    BY <1>2, <2>1, <2>5
  <2>7. "removed" \notin walk.flags => offset' = nextReal'
    BY <1>5, <2>1 DEF NextOffset, e0
  <2>8. ASSUME NEW x \in Listing, x.block = bcount
        PROVE  x.offset < nextReal' <=> x.offset < nextReal \/ (offset = nextReal /\ x.offset = offset)
    <3>1. x.offset \in Live(b) /\ x.offset \in Nat
      <4>1. x.blkno = Blkno
        BY <1>1, <2>8, ListedHere DEF InBlockOf
      <4>2. x.offset \in Live(first[x.blkno]) /\ x.offset \in Nat
        BY <1>1, ListedAt
      <4>. QED BY <4>1, <4>2 DEF b
    <3>2. x.offset \in Reach(b)
      BY <3>1 DEF Live
    <3>3. offset < x.offset => offset + At(b, offset).rec_len <= x.offset
      BY <1>1, <2>5, <3>2, LiveApart
    <3>4. offset < x.offset => final <= x.offset
      BY <2>2, <3>3
    <3> HIDE DEF final
    <3>. QED BY <1>2, <1>4, <1>6, <2>1, <3>1, <3>4
  <2> HIDE DEF final
  <2>9. nextReal' \in Nat /\ nextReal <= nextReal' /\ offset < nextReal'
    BY <1>2, <1>4, <1>6, <2>1
  <2>. QED BY <2>2, <2>5, <2>6, <2>7, <2>8, <2>9 DEF b
<1>7. CASE offset # nextReal
  <2>1. nextReal' = nextReal
    BY <1>2, <1>7 DEF Advance
  <2>2. nextReal # BlockSize => nextReal \in Reach(b)
    BY DEF ListInv, OnLive
  <2>3. "removed" \in walk.flags
    BY <1>7 DEF ListInv, OnLive
  <2> HIDE DEF b, final
  <2>. QED BY <1>2, <1>7, <2>1, <2>2, <2>3 DEF b
<1>. QED BY <1>6, <1>7

\* What is ahead of the walk behind an entry is as it was, if nothing but the
\* entry was changed.
LEMMA AheadKept ==
    ASSUME WalkInv, ListInv, pc = "entry", offset < BlockSize, Fits, pc' = "entry", Advance,
           UNCHANGED <<disk, files, rec, bcount>>,
           \A o \in Offsets : o # offset => At(buf', o) = At(buf, o)
    PROVE  Untouched' /\ OnLive'
<1>1. /\ FileBlocks' = FileBlocks /\ first' = first /\ Recs' = Recs /\ walk' = walk
  BY SameFile
<1>2. Blkno' = Blkno
  BY <1>1 DEF Blkno
<1>3. /\ nextReal' \in Nat /\ nextReal <= nextReal' /\ offset < nextReal'
      /\ nextReal' # BlockSize => nextReal' \in Reach(first[Blkno])
      /\ "removed" \notin walk.flags => offset' = nextReal'
  BY NextLive
<1>4. OnLive'
  <2>1. (Reach(first[Blkno]))' = Reach(first[Blkno])
    BY <1>1, <1>2
  <2>. QED BY <1>1, <1>3, <2>1 DEF OnLive
<1>5. \A f \in FileBlocks : Behind(f.block)' <=> Behind(f.block)
  BY DEF Behind, InBlockOf
<1>6. ASSUME NEW o \in Offsets, o >= nextReal' PROVE At(buf', o) = At(first'[Blkno'], o)
  <2>1. o \in Nat /\ nextReal \in Nat /\ offset \in Nat
    BY OffsetFacts, CursorFacts DEF WalkInv
  <2>2. o >= nextReal /\ o # offset
    BY <1>3, <1>6, <2>1
  <2>3. At(buf, o) = At(first[Blkno], o)
    BY <2>2 DEF ListInv, Untouched
  <2>. QED BY <1>1, <1>2, <2>2, <2>3
<1>7. ASSUME NEW f \in FileBlocks', ~ Behind(f.block)' PROVE disk'[f.blkno] = first'[f.blkno]
  BY <1>1, <1>5, <1>7 DEF ListInv, Untouched
<1>8. \A o \in Offsets : o >= nextReal' => (At(buf, o) = At(first[Blkno], o))'
  BY <1>6 DEF At
<1>9. Untouched'
  BY <1>7, <1>8 DEF Untouched, Offsets
<1>. QED BY <1>4, <1>9

\* An entry that is not handed over is not one of the listing.
LEMMA ListSkip == ASSUME WalkInv, ListInv, SkipEntry PROVE ListInv'
<1>1. /\ pc = "entry" /\ offset < BlockSize /\ Fits /\ Advance /\ Passed(e0, walk.flags)
      /\ UNCHANGED <<disk, files, pc, rec, bcount, buf, entry, changed, doAbort, errcode, found,
                     calls, wanted>>
  BY DEF SkipEntry
<1>2. Shape
  BY DEF WalkInv
<1>3. walk' = walk /\ walk \in Walks /\ doAbort = 0
  BY <1>1 DEF ListInv, Placed, files
<1>4. FileBlocks' = FileBlocks /\ first' = first /\ Recs' = Recs /\ Listing' = Listing /\ inode' = inode
  BY <1>1, SameFile
<1>5. Placed'
  <2>1. PastSize' <=> PastSize
    BY <1>1, <1>4 DEF PastSize
  <2>2. ~ PastSize
    BY <1>1 DEF ListInv, Placed, InBlockOf
  <2>. QED BY <1>1, <1>3, <2>1, <2>2 DEF Placed
<1>6. Untouched' /\ OnLive'
  <2>1. pc' = "entry" /\ \A o \in Offsets : o # offset => At(buf', o) = At(buf, o)
    BY <1>1
  <2>. QED BY <1>1, <2>1, AheadKept
<1>7. EachEntryOnce'
  BY <1>1, OnceKept DEF ListInv
<1>8. LookedUp'
  BY <1>1, LookedUpKept DEF ListInv
<1>9. SoundAccepted'
  BY <1>1, AcceptedKept DEF ListInv
<1>10. ShownSoFar'
  <2>1. ASSUME NEW x \in Listing PROVE x \in Shown <=> Reached(x)'
    <3>1. x.block = bcount => x.offset # offset \/ offset # nextReal
      <4> SUFFICES ASSUME x.block = bcount, x.offset = offset, offset = nextReal PROVE FALSE
        OBVIOUS
      <4>1. x.blkno = Blkno
        BY <1>1, <1>2, ListedHere DEF InBlockOf
      <4>2. Of(x) = e0
        BY <1>1, <4>1, NextLive DEF Of
      <4>3. Asked(e0)
        BY <1>2, <4>2, ListedAt
      <4>. QED BY <1>1, <4>3 DEF Asked, Passed
    <3>2. x.block = bcount => (x.offset < nextReal' <=> x.offset < nextReal)
      BY <1>1, <3>1, NextLive
    <3>3. Behind(x.block)' <=> Behind(x.block)
      BY <1>1 DEF Behind, InBlockOf
    <3>4. Reached(x)' <=> Reached(x)
      BY <1>1, <3>2, <3>3 DEF Reached
    <3>. QED BY <1>1, <3>4 DEF ListInv, ShownSoFar
  <2>2. Shown' = Shown
    BY <1>1, SameShown
  <2>. QED BY <1>4, <2>1, <2>2 DEF ShownSoFar
<1>. QED BY <1>5, <1>6, <1>7, <1>8, <1>9, <1>10 DEF ListInv

-----------------------------------------------------------------------------
(* Callbacks.                                                              *)

\* The entry at the next live offset is a live one, as it was before the walk.
LEMMA AtLive ==
    ASSUME WalkInv, ListInv, pc = "entry", offset < BlockSize, Fits, offset = nextReal
    PROVE  offset \in Live(first[Blkno]) /\ e0 = At(first[Blkno], offset)
<1>1. offset \in Offsets /\ offset \in Nat /\ BlockSize \in Nat /\ offset + e0.rec_len <= BlockSize
  BY EntryFacts, OffsetFacts
<1>2. e0 = At(first[Blkno], offset)
  BY <1>1 DEF ListInv, Untouched, e0
<1>3. offset \in Reach(first[Blkno])
  BY <1>1 DEF ListInv, OnLive
<1>. QED BY <1>1, <1>2, <1>3, EntryFacts DEF Live, Leads

\* A callback is recorded behind the others, as real if it is for a live entry.
LEMMA CallMade ==
    ASSUME WalkInv, pc = "entry", offset < BlockSize, Fits,
           NEW change, NEW abort, AfterCall(change, abort)
    PROVE  \E n \in Nat :
               /\ \A i \in Real : i \in Nat /\ i < n /\ Place(i)' = Place(i)
               /\ Real' = IF offset = nextReal THEN Real \cup {n} ELSE Real
               /\ Place(n)' = [block |-> bcount, blkno |-> Blkno, offset |-> offset]
<1> DEFINE c == [block |-> bcount, blkno |-> Blkno, offset |-> offset, kind |-> Kind]
           n == Len(calls) + 1
<1>1. calls' = Append(calls, c)
  BY DEF AfterCall
<1>2. calls \in Seq(CallType) /\ entry \in 0 .. Other
  BY DEF WalkInv, Shape, TypeOK
<1>3. offset \in Nat /\ nextReal \in Nat /\ offset <= nextReal
  BY EntryFacts, OffsetFacts
<1>4. Kind # Deleted <=> offset = nextReal
  BY <1>2, <1>3 DEF Kind, Deleted, Other
<1>5. c.block = bcount /\ c.blkno = Blkno /\ c.offset = offset /\ c.kind = Kind
  OBVIOUS
<1> HIDE DEF c
<1>6. /\ Len(calls) \in Nat /\ DOMAIN calls = 1 .. Len(calls)
      /\ DOMAIN calls' = 1 .. Len(calls) + 1
      /\ \A i \in 1 .. Len(calls) : calls'[i] = calls[i]
      /\ calls'[Len(calls) + 1] = c
  <2>1. Len(calls) \in Nat /\ DOMAIN calls = 1 .. Len(calls)
    BY <1>2, LenProperties
  <2>2. c \in CallType
    <3>1. bcount \in Nat /\ Blkno \in Nat
      BY Inside DEF WalkInv, InBlockOf
    <3>2. Kind \in Nat
      BY <1>2 DEF Kind, Deleted, Other
    <3>. QED BY <1>3, <3>1, <3>2 DEF c, CallType
  <2>3. /\ Append(calls, c) \in Seq(CallType) /\ Len(Append(calls, c)) = Len(calls) + 1
        /\ \A i \in 1 .. Len(calls) : Append(calls, c)[i] = calls[i]
        /\ Append(calls, c)[Len(calls) + 1] = c
    BY <1>2, <2>2, AppendProperties
  <2>4. DOMAIN calls' = 1 .. Len(calls) + 1
    BY <1>1, <2>3, LenProperties
  <2>. QED BY <1>1, <2>1, <2>3, <2>4
<1>7. n \in Nat
  BY <1>6
<1>8. ASSUME NEW i \in Real PROVE i \in Nat /\ i < n /\ Place(i)' = Place(i)
  <2>1. i \in 1 .. Len(calls)
    BY <1>6 DEF Real
  <2>. QED BY <1>6, <2>1 DEF Place
<1>9. ASSUME NEW m, m = n
      PROVE  Place(m)' = [block |-> bcount, blkno |-> Blkno, offset |-> offset]
  <2>1. calls'[m] = c
    BY <1>6, <1>9
  <2>. QED BY <1>5, <2>1 DEF Place
<1>10. Real' = IF offset = nextReal THEN Real \cup {n} ELSE Real
  <2>1. Real' = {i \in 1 .. Len(calls) + 1 : calls'[i].kind # Deleted}
    BY <1>6 DEF Real
  <2>2. Real = {i \in 1 .. Len(calls) : calls[i].kind # Deleted}
    BY <1>6 DEF Real
  <2>3. ASSUME NEW i PROVE i \in 1 .. Len(calls) + 1 <=> i \in 1 .. Len(calls) \/ i = n
    BY <1>6
  <2>4. n \notin 1 .. Len(calls)
    BY <1>6
  <2>. QED BY <1>4, <1>5, <1>6, <2>1, <2>2, <2>3, <2>4
<1> HIDE DEF n
<1>. QED BY <1>7, <1>8, <1>9, <1>10

\* The entries ahead of the one the callback gets are not shown yet, and the
\* ones before it are: it is the next of the listing.
LEMMA CallShown ==
    ASSUME WalkInv, ListInv, pc = "entry", offset < BlockSize, Fits, ~ Passed(e0, walk.flags),
           UNCHANGED files, UNCHANGED <<rec, bcount>>,
           NEW change, NEW abort, AfterCall(change, abort)
    PROVE  /\ EachEntryOnce' /\ ShownSoFar'
           /\ offset = nextReal =>
                  [block |-> bcount, blkno |-> Blkno, offset |-> offset] \in Listing
<1> DEFINE here == [block |-> bcount, blkno |-> Blkno, offset |-> offset]
<1>1. PICK n \in Nat :
         /\ \A i \in Real : i \in Nat /\ i < n /\ Place(i)' = Place(i)
         /\ Real' = IF offset = nextReal THEN Real \cup {n} ELSE Real
         /\ Place(n)' = here
  BY CallMade
<1>2. Listing' = Listing
  BY SameFile
<1>3. pc' = "end" \/ (pc' = "entry" /\ Advance)
  BY DEF AfterCall
<1>4. /\ \A i, j \in Real : i < j => Before(Place(i), Place(j))
      /\ Shown \subseteq Listing
      /\ \A x \in Shown, y \in Listing : Before(y, x) => y \in Shown
  BY DEF ListInv, EachEntryOnce
<1>5. \A x \in Listing : x \in Shown <=> Reached(x)
  BY DEF ListInv, ShownSoFar
<1>6. /\ offset \in Nat /\ nextReal \in Nat /\ bcount \in Nat
      /\ \A x \in Listing : x.block \in Nat /\ x.offset \in Nat
  BY CursorFacts, ListedAt, HereNow DEF WalkInv, InBlockOf
<1>7. \A x \in Listing : Reached(x) <=> x.block < bcount \/ (x.block = bcount /\ x.offset < nextReal)
  BY DEF Reached, Behind, InBlockOf
<1>8. ASSUME pc' = "entry", NEW x \in Listing
      PROVE  Reached(x)' <=> Reached(x) \/ (x.block = bcount /\ offset = nextReal /\ x.offset = offset)
  <2>1. Reached(x)' <=> x.block < bcount \/ (x.block = bcount /\ x.offset < nextReal')
    BY <1>8 DEF Reached, Behind, InBlockOf
  <2>2. x.block = bcount =>
            (x.offset < nextReal' <=> x.offset < nextReal \/ (offset = nextReal /\ x.offset = offset))
    BY <1>3, <1>8, NextLive
  <2>. QED BY <1>7, <2>1, <2>2
<1>9. here.block = bcount /\ here.offset = offset /\ here.blkno = Blkno
  OBVIOUS
<1>10. offset = nextReal => here \in Listing
  <2> SUFFICES ASSUME offset = nextReal PROVE here \in Listing
    OBVIOUS
  <2>1. offset \in Live(first[Blkno]) /\ e0 = At(first[Blkno], offset)
    BY AtLive
  <2>2. Asked(e0)
    BY DEF Asked, Passed
  <2> DEFINE f == [block |-> bcount, blkno |-> Blkno]
  <2>3. f \in FileBlocks /\ f.block = bcount /\ f.blkno = Blkno
    BY HereNow DEF WalkInv, InBlockOf
  <2> HIDE DEF f
  <2>. QED BY <2>1, <2>2, <2>3, ListingFacts
<1>11. CASE offset # nextReal
  <2>1. Real' = Real
    BY <1>1, <1>11
  <2>2. Shown' = Shown
    BY <1>1, <2>1 DEF Shown
  <2>3. \A i, j \in Real' : i < j => Before(Place(i)', Place(j)')
    BY <1>1, <1>4, <2>1
  <2>4. EachEntryOnce'
    BY <1>2, <1>3, <1>4, <2>2, <2>3 DEF EachEntryOnce, Before
  <2>5. ShownSoFar'
    BY <1>2, <1>3, <1>5, <1>8, <1>11, <2>2 DEF ShownSoFar
  <2>. QED BY <1>10, <2>4, <2>5
<1>12. CASE offset = nextReal
  <2>1. Real' = Real \cup {n}
    BY <1>1, <1>12
  <2>2. Shown' = Shown \cup {here}
    <3>1. Shown' = {Place(i)' : i \in Real'}
      BY DEF Shown
    <3>2. Shown = {Place(i) : i \in Real}
      BY DEF Shown
    <3> HIDE DEF here
    <3>. QED BY <1>1, <2>1, <3>1, <3>2
  <2>3. \A y \in Listing : Before(y, here) <=> y \in Shown
    BY <1>5, <1>7, <1>9, <1>12 DEF Before
  <2> HIDE DEF here
  <2>4. ASSUME NEW i \in Real', NEW j \in Real', i < j PROVE Before(Place(i)', Place(j)')
    <3>1. i \in Real
      BY <1>1, <2>1, <2>4
    <3>2. CASE j \in Real
      BY <1>1, <1>4, <2>4, <3>1, <3>2
    <3>3. CASE j = n
      <4>1. Place(i) \in Shown
        BY <3>1 DEF Shown
      <4>2. Before(Place(i), here)
        BY <1>4, <2>3, <4>1
      <4>. QED BY <1>1, <3>1, <3>3, <4>2
    <3>. QED BY <2>1, <3>2, <3>3
  <2>5. Shown' \subseteq Listing
    BY <1>4, <1>10, <1>12, <2>2
  <2>6. ASSUME NEW x \in Shown', NEW y \in Listing, Before(y, x) PROVE y \in Shown'
    BY <1>4, <2>2, <2>3, <2>6
  <2>7. EachEntryOnce'
    BY <1>2, <1>3, <2>4, <2>5, <2>6 DEF EachEntryOnce, Before
  <2>8. ASSUME pc' = "entry", NEW x \in Listing PROVE x \in Shown' <=> Reached(x)'
    <3>1. x.block = bcount /\ x.offset = offset => x = here
      BY ListedHere DEF WalkInv, InBlockOf, here
    <3>2. x = here => x.block = bcount /\ x.offset = offset
      BY <1>9
    <3>. QED BY <1>5, <1>8, <1>12, <2>2, <2>8, <3>1, <3>2
  <2>9. ShownSoFar'
    BY <1>2, <1>3, <2>8 DEF ShownSoFar
  <2>. QED BY <1>10, <2>7, <2>9 DEF here
<1>. QED BY <1>11, <1>12

\* After a callback the walk is in the file, and stopped only by it.
LEMMA CallPlaced ==
    ASSUME WalkInv, ListInv, pc = "entry", UNCHANGED files, UNCHANGED <<rec, bcount>>,
           NEW change, NEW abort \in BOOLEAN, AfterCall(change, abort)
    PROVE  /\ Placed' /\ doAbort = 0 /\ doAbort' = IF abort THEN 1 ELSE 0
           /\ pc' = IF abort THEN "end" ELSE "entry"
<1>1. FileBlocks' = FileBlocks /\ Recs' = Recs /\ walk' = walk /\ inode' = inode
  BY SameFile
<1>2. walk \in Walks /\ doAbort = 0 /\ ~ PastSize
  BY DEF ListInv, Placed, InBlockOf
<1>3. PastSize' <=> PastSize
  BY <1>1 DEF PastSize
<1>4. doAbort' = IF abort THEN 1 ELSE 0
  BY <1>2 DEF AfterCall
<1>5. pc' = IF abort THEN "end" ELSE "entry"
  BY DEF AfterCall
<1>. QED BY <1>1, <1>2, <1>3, <1>4, <1>5 DEF Placed

\* When a callback stops the walk, the blocks ahead of it are as they were.
LEMMA StopKept ==
    ASSUME ListInv, pc = "entry", pc' = "end", UNCHANGED <<disk, files, rec, bcount>>
    PROVE  Untouched' /\ OnLive'
<1>1. FileBlocks' = FileBlocks /\ first' = first
  BY SameFile
<1>2. ASSUME NEW f \in FileBlocks', ~ Behind(f.block)' PROVE disk'[f.blkno] = first'[f.blkno]
  <2>1. Behind(f.block)' <=> Behind(f.block)
    BY DEF Behind, InBlockOf
  <2>. QED BY <1>1, <1>2, <2>1 DEF ListInv, Untouched
<1>. QED BY <1>2 DEF Untouched, OnLive

\* cmfs_lookup's callback stops at the entry of the name.
LEMMA ListLookup == ASSUME WalkInv, ListInv, CallLookup PROVE ListInv'
<1> DEFINE match == e0.name_len = NameLen[walk.name] /\ e0.name = walk.name
           here == [block |-> bcount, blkno |-> Blkno, offset |-> offset]
<1>1. /\ pc = "entry" /\ offset < BlockSize /\ Fits /\ AfterCall(FALSE, match)
      /\ ~ Passed(e0, walk.flags) /\ walk.name # NoName
      /\ found' = IF match THEN e0.inode ELSE found
      /\ UNCHANGED <<disk, files, rec, bcount, buf, errcode, wanted>>
  BY DEF CallLookup
<1>2. match \in BOOLEAN
  OBVIOUS
<1>3. Named(here) <=> match
  <2>1. Alike(buf, first[Blkno])
    BY <1>1, HereNow DEF WalkInv, InBlockOf
  <2>2. Of(here).name = e0.name /\ Of(here).name_len = e0.name_len
    BY <2>1, AlikeAt DEF Of, e0
  <2>. QED BY <2>2 DEF Named
<1> HIDE DEF match
<1>4. /\ Placed' /\ doAbort = 0 /\ doAbort' = IF match THEN 1 ELSE 0
      /\ pc' = IF match THEN "end" ELSE "entry"
  BY <1>1, <1>2, CallPlaced
<1>5. EachEntryOnce' /\ ShownSoFar'
  BY <1>1, CallShown
<1>6. SoundAccepted'
  BY <1>1, AcceptedKept DEF ListInv
<1>7. Untouched' /\ OnLive'
  <2>1. CASE match
    BY <1>1, <1>4, <2>1, StopKept
  <2>2. CASE ~ match
    <3>1. Advance
      BY <1>1, <2>2 DEF AfterCall
    <3>. QED BY <1>1, <1>4, <2>2, <3>1, AheadKept
  <2>. QED BY <2>1, <2>2
<1>8. offset = nextReal
  BY <1>1, LookupAssumption DEF ListInv, OnLive, Placed
<1>9. e0.inode = Of(here).inode
  BY <1>1, <1>8, AtLive DEF Of
<1>10. PICK n \in Nat :
         /\ \A i \in Real : i \in Nat /\ i < n /\ Place(i)' = Place(i)
         /\ Real' = IF offset = nextReal THEN Real \cup {n} ELSE Real
         /\ Place(n)' = here
  BY <1>1, CallMade
<1> HIDE DEF here
<1>11. Real' = Real \cup {n}
  BY <1>8, <1>10
<1>12. found = NotFound /\ \A i \in Real : ~ Named(Place(i))
  BY <1>1, <1>4 DEF ListInv, LookedUp
<1>13. first' = first /\ walk' = walk
  BY <1>1, SameFile
<1>14. /\ \A i \in Real : ~ Named(Place(i))'
       /\ Named(Place(n))' <=> match
       /\ Of(Place(n))' = Of(here)
  <2>1. ASSUME NEW i, NEW x, Place(i)' = x PROVE Of(Place(i))' = Of(x)
    BY <1>13, <2>1 DEF Of, At
  <2>2. ASSUME NEW i, NEW x, Place(i)' = x PROVE Named(Place(i))' <=> Named(x)
    BY <1>13, <2>1, <2>2 DEF Named
  <2>. QED BY <1>3, <1>10, <1>12, <2>1, <2>2
<1>15. LookedUp'
  <2>1. CASE match
    <3>1. Hit(n)'
      BY <1>1, <1>9, <1>11, <1>14, <2>1 DEF Hit
    <3>2. doAbort' = 1 /\ n \in Real'
      BY <1>4, <1>11, <2>1
    <3>. QED BY <3>1, <3>2 DEF LookedUp
  <2>2. CASE ~ match
    <3>1. found' = NotFound /\ doAbort' = 0
      BY <1>1, <1>4, <1>12, <2>2
    <3>2. \A i \in Real' : ~ Named(Place(i))'
      BY <1>11, <1>14, <2>2
    <3>. QED BY <3>1, <3>2 DEF LookedUp
  <2>. QED BY <2>1, <2>2
<1>. QED BY <1>4, <1>5, <1>6, <1>7, <1>15 DEF ListInv

\* Another callback changes the entry it got and nothing ahead of it.
LEMMA ListEdit == ASSUME WalkInv, ListInv, CallEdit PROVE ListInv'
<1>1. /\ pc = "entry" /\ offset < BlockSize /\ Fits
      /\ ~ Passed(e0, walk.flags) /\ walk.name = NoName
      /\ UNCHANGED <<disk, files, rec, bcount, errcode, found>>
  BY DEF CallEdit
<1>2. PICK ino \in {e0.inode, 0}, abort \in BOOLEAN :
        /\ buf' = [buf EXCEPT ![offset].inode = ino]
        /\ AfterCall(ino # e0.inode, abort)
  BY DEF CallEdit
<1>3. Placed' /\ pc' = IF abort THEN "end" ELSE "entry"
  BY <1>1, <1>2, CallPlaced
<1>4. EachEntryOnce' /\ ShownSoFar'
  BY <1>1, <1>2, CallShown
<1>5. SoundAccepted'
  BY <1>1, AcceptedKept DEF ListInv
<1>6. LookedUp'
  BY <1>1, SameFile DEF LookedUp
<1>7. Untouched' /\ OnLive'
  <2>1. CASE abort
    BY <1>1, <1>3, <2>1, StopKept
  <2>2. CASE ~ abort
    <3>1. Advance /\ pc' = "entry"
      BY <1>2, <1>3, <2>2 DEF AfterCall
    <3>2. \A o \in Offsets : o # offset => At(buf', o) = At(buf, o)
      BY <1>2 DEF At
    <3>. QED BY <1>1, <3>1, <3>2, AheadKept
  <2>. QED BY <2>1, <2>2
<1>. QED BY <1>3, <1>4, <1>5, <1>6, <1>7 DEF ListInv

\* Every step of the walk keeps what is known of the listing.
LEMMA ListStep == WalkInv /\ ListInv /\ [Next]_vars => ListInv'
<1> SUFFICES ASSUME WalkInv, ListInv, [Next]_vars PROVE ListInv'
  OBVIOUS
<1>1. CASE Next
  <2>1. Shape
    BY DEF WalkInv
  <2>. QED BY <1>1, <2>1, ListStart, ListNextExtent, ListEndExtent, ListReadBlock, ListCorrupt,
              ListSkip, ListLookup, ListEdit, ListEndBlock DEF Next
<1>2. CASE UNCHANGED vars
  <2>1. /\ UNCHANGED <<disk, inode, walk, first, pc, rec, bcount, buf, offset, entry, nextReal>>
        /\ UNCHANGED <<changed, doAbort, errcode, found, calls, wanted>> /\ UNCHANGED files
    BY <1>2 DEF vars, files, cursor
  <2>2. /\ Recs' = Recs /\ FileBlocks' = FileBlocks /\ Listing' = Listing
        /\ \A r, b : InRec(r, b)' <=> InRec(r, b)
    BY <2>1, SameFile
  <2>3. Shown' = Shown
    BY <2>1, SameShown
  <2>4. Blkno' = Blkno /\ (PastSize' <=> PastSize) /\ End(rec)' = End(rec)
    BY <2>1, <2>2 DEF Blkno, PastSize, End
  <2>5. Placed'
    BY <2>1, <2>4 DEF ListInv, Placed
  <2>6. ASSUME NEW b PROVE Behind(b)' <=> Behind(b)
    BY <2>1, <2>2 DEF Behind
  <2>7. Untouched'
    <3>1. ASSUME pc' # "done", NEW f \in FileBlocks', ~ Behind(f.block)'
          PROVE  disk'[f.blkno] = first'[f.blkno]
      BY <2>1, <2>2, <2>6, <3>1 DEF ListInv, Untouched
    <3>2. pc' = "entry" => \A o \in Offsets : o >= nextReal' => (At(buf, o) = At(first[Blkno], o))'
      BY <2>1, <2>4 DEF ListInv, Untouched, At
    <3>. QED BY <3>1, <3>2 DEF Untouched, Offsets
  <2>8. OnLive'
    <3>1. (Reach(first[Blkno]))' = Reach(first[Blkno])
      BY <2>1, <2>4
    <3>. QED BY <2>1, <3>1 DEF ListInv, OnLive
  <2>9. ShownSoFar'
    <3>1. \A x \in Listing : Reached(x)' <=> Reached(x)
      BY <2>1, <2>6 DEF Reached
    <3>. QED BY <2>1, <2>2, <2>3, <3>1 DEF ListInv, ShownSoFar
  <2>10. EachEntryOnce'
    <3>1. pc = "done" /\ errcode = "ok" /\ doAbort = 0 => Shown = Listing
      BY DEF ListInv, EachEntryOnce
    <3>. QED BY <2>1, <3>1, OnceKept DEF ListInv
  <2>11. SoundAccepted' /\ LookedUp'
    BY <2>1, AcceptedKept, LookedUpKept DEF ListInv
  <2>. QED BY <2>5, <2>7, <2>8, <2>9, <2>10, <2>11 DEF ListInv
<1>. QED BY <1>1, <1>2

-----------------------------------------------------------------------------
(* What is shown.                                                          *)

\* Whatever lengths a directory holds, cmfs_process_dir_entry keeps its cursor
\* aligned and inside the block; a live entry it hands over that begins before
\* the last header ends inside the block with its name, and no other entry it
\* hands over reaches further than four bytes behind.
THEOREM WalkStaysInside == Spec => []InBlock
<1>1. WalkInv => InBlock
  BY DEF WalkInv, Shape, InBlock
<1>. QED BY <1>1, WalkInit, WalkStep, PTL DEF Spec

\* A walk of cmfs_dir_iterate that returns success has written every change
\* its callback reported, also the ones before an abort.
THEOREM ChangesReachDevice == Spec => []ChangesWritten
<1>1. WalkInv => ChangesWritten
  BY DEF WalkInv, Unwritten
<1>. QED BY <1>1, WalkInit, WalkStep, PTL DEF Spec
\* cmfs_dir_iterate hands its callback the live entries the caller asked for,
\* each once and in the order of the directory, also while it searches for
\* removed ones and whatever the callback changes; a walk that was not stopped
\* and returns success has shown them all, and a sound directory is not called
\* corrupted.
THEOREM ShowsTheDirectory == Spec => []ShowsDirectory
<1>1. ListInv => ShowsDirectory
  BY DEF ListInv, ShowsDirectory
<1>. QED BY <1>1, WalkInit, WalkStep, ListInit, ListStep, PTL DEF Spec

\* A cmfs_lookup that returns success has found the first entry of the name,
\* and the one that says not found has seen every entry.
THEOREM LookupFindsFirst == Spec => []LookupFirst
<1>1. ASSUME WalkInv, ListInv PROVE LookupFirst
  <2> SUFFICES ASSUME pc = "done", walk.name # NoName, errcode = "ok"
               PROVE  LET named == {x \in Listing : Named(x)}
                      IN  IF named = {} THEN LookupResult = "not found"
                          ELSE \E x \in named : /\ \A y \in named : ~ Before(y, x)
                                                /\ LookupResult = "ok" /\ found = Of(x).inode
    BY DEF LookupFirst
  <2> DEFINE named == {x \in Listing : Named(x)}
  <2>1. doAbort = 0 \/ doAbort > 0
    BY <1>1 DEF ListInv, Placed
  <2>2. /\ Shown \subseteq Listing
        /\ \A x \in Shown, y \in Listing : Before(y, x) => y \in Shown
        /\ doAbort = 0 => Shown = Listing
    BY <1>1 DEF ListInv, EachEntryOnce
  <2>3. CASE doAbort = 0
    <3>1. found = NotFound /\ \A i \in Real : ~ Named(Place(i))
      BY <1>1, <2>3 DEF ListInv, LookedUp
    <3>2. named = {}
      BY <2>2, <2>3, <3>1 DEF Shown
    <3>3. LookupResult = "not found"
      BY <3>1 DEF LookupResult
    <3>. QED BY <3>2, <3>3
  <2>4. CASE doAbort > 0
    <3>1. PICK i \in Real : Hit(i)
      BY <1>1, <2>4 DEF ListInv, LookedUp
    <3> DEFINE x == Place(i)
    <3>2. x \in Shown /\ x \in named /\ found = Of(x).inode
      BY <2>2, <3>1 DEF Shown, Hit
    <3>3. x.block \in Nat /\ x.offset \in Nat /\ [block |-> x.block, blkno |-> x.blkno] \in FileBlocks
      BY <1>1, <3>2, ListedAt DEF WalkInv
    <3>4. ASSUME NEW y \in named, Before(y, x) PROVE FALSE
      <4>1. PICK j \in Real : y = Place(j)
        BY <2>2, <3>2, <3>4 DEF Shown
      <4>2. y = x
        BY <3>1, <3>4, <4>1 DEF Hit
      <4>. QED BY <3>3, <3>4, <4>2 DEF Before
    <3>5. LookupResult = "ok"
      <4> DEFINE f == [block |-> x.block, blkno |-> x.blkno]
      <4>1. f \in FileBlocks /\ f.blkno = x.blkno
        BY <3>3
      <4> HIDE DEF f
      <4>2. IsBlock(first[x.blkno])
        BY <1>1, <4>1, FileBlockThere DEF WalkInv
      <4>3. Of(x).inode \in Nat
        BY <4>2, AnyEntry DEF Of, Entries
      <4>4. found # NotFound
        BY <3>2, <4>3 DEF NotFound
      <4>. QED BY <4>4 DEF LookupResult
    <3> HIDE DEF x
    <3>6. named # {}
      BY <3>2
    <3>. QED BY <3>2, <3>4, <3>5, <3>6
  <2>. QED BY <2>1, <2>3, <2>4
<1>. QED BY <1>1, WalkInit, WalkStep, ListInit, ListStep, PTL DEF Spec
=============================================================================
