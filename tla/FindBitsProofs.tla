--------------------------- MODULE FindBitsProofs ---------------------------
(***************************************************************************)
(* find_clear_bits returns the first run of num clear bits of the bitmap   *)
(* if there is one, for every width of a byte, bitmap, size and num.       *)
(***************************************************************************)
EXTENDS FindBits, WellFoundedInduction, TLAPS

\* A set of naturals that is not empty has a least member.
LEMMA LeastExists ==
    ASSUME NEW S, S \subseteq Nat, S # {}
    PROVE  \E x \in S : \A y \in S : x <= y
<1>1. PICK x \in S : \A y \in S : ~ (<<y, x>> \in OpToRel(<, Nat))
  BY WFMin, NatLessThanWellFounded
<1>2. ASSUME NEW y \in S PROVE x <= y
  <2>1. ~ (<<y, x>> \in OpToRel(<, Nat))
    BY <1>1
  <2>2. x \in Nat /\ y \in Nat
    OBVIOUS
  <2>3. ~ (y < x)
    BY <2>1, <2>2 DEF OpToRel
  <2>. QED BY <2>2, <2>3
<1>. QED BY <1>2

\* The width of a word and the size of a map are whole numbers.
LEMMA WidthFacts == W \in Nat /\ W > 0 /\ NBytes \in Nat /\ W * NBytes \in Nat
BY WidthAssumption

\* First is the least member of a set of naturals.
LEMMA FirstLeast ==
    ASSUME NEW S, S \subseteq Nat, S # {}
    PROVE  First(S) \in S /\ \A y \in S : First(S) <= y
BY LeastExists DEF First

\* The bit of a word that an offset names (offset & 31) lies in the word.
LEMMA ModFact == ASSUME NEW o \in Nat PROVE o % W \in Nat /\ o % W < W
BY WidthFacts

\* What the scans of bitops.c return: the first hit at or behind the offset,
\* or a number that is not below size.
LEMMA ScanFact ==
    ASSUME NEW S, S \subseteq Bits, size \in Nat, size > 0, NEW o \in 0 .. size - 1
    PROVE  /\ Scan(S, o) \in Nat
           /\ o <= Scan(S, o)
           /\ Scan(S, o) < size => Scan(S, o) \in S
           /\ \A x \in o .. Scan(S, o) - 1 : x < size => x \notin S
<1> DEFINE head == {x \in S : o <= x /\ x < ByteEnd(o)}
           from == IF o % W = 0 THEN o ELSE ByteEnd(o)
           tail == {x \in S : from <= x /\ x < size}
           z == Scan(S, o)
<1>1. o \in Nat /\ o < size /\ S \subseteq Nat
  BY WidthFacts DEF Bits
<1>2. o % W \in Nat /\ o % W < W
  BY <1>1, ModFact
<1>3. ByteEnd(o) \in Nat /\ o < ByteEnd(o)
  <2>1. o % W <= o
    BY <1>1, WidthFacts
  <2>. QED BY <1>1, <1>2, <2>1, WidthFacts DEF ByteEnd
<1>4. from \in Nat /\ o <= from
  BY <1>1, <1>3
<1>5. CASE o % W # 0 /\ head # {}
  <2>1. z = First(head)
    BY <1>5 DEF Scan
  <2>2. head \subseteq Nat
    BY <1>1
  <2> HIDE DEF head
  <2>3. z \in head /\ \A y \in head : z <= y
    BY <1>5, <2>1, <2>2, FirstLeast
  <2> USE DEF head
  <2>4. z \in Nat /\ o <= z /\ z \in S
    BY <1>1, <2>3
  <2>5. ASSUME NEW x \in o .. z - 1 PROVE x \notin S
    <3>1. x \in Nat /\ o <= x /\ x < z
      BY <1>1, <2>4
    <3>2. z < ByteEnd(o)
      BY <2>3
    <3> SUFFICES ASSUME x \in S PROVE FALSE
      OBVIOUS
    <3>3. x < ByteEnd(o)
      BY <3>1, <3>2, <1>3, <2>4
    <3>4. x \in head
      BY <3>1, <3>3
    <3>5. z <= x
      BY <3>4, <2>3
    <3>. QED BY <3>1, <3>5, <2>4
  <2>. QED BY <2>4, <2>5
<1>6. CASE ~ (o % W # 0 /\ head # {})
  <2>1. z = First(tail)
    BY <1>6 DEF Scan
  <2>2. ASSUME NEW x \in S, o <= x, x < from PROVE FALSE
    <3>1. o % W # 0
      BY <2>2, <1>1, <1>4
    <3>2. x \in head
      BY <3>1, <2>2
    <3>. QED BY <3>1, <3>2, <1>6
  <2>3. CASE tail = {}
    <3>1. z = size
      BY <2>1, <2>3 DEF First
    <3>2. ASSUME NEW x \in o .. z - 1 PROVE x \notin S
      <4>1. x \in Nat /\ o <= x /\ x < size
        BY <3>1, <1>1
      <4> SUFFICES ASSUME x \in S PROVE FALSE
        OBVIOUS
      <4>2. x < from
        BY <4>1, <2>3, <1>4
      <4>. QED BY <4>1, <4>2, <2>2
    <3>. QED BY <3>1, <3>2, <1>1
  <2>4. CASE tail # {}
    <3>1. tail \subseteq Nat
      BY <1>1
    <3> HIDE DEF tail
    <3>2. z \in tail /\ \A y \in tail : z <= y
      BY <2>1, <2>4, <3>1, FirstLeast
    <3> USE DEF tail
    <3>3. z \in Nat /\ from <= z /\ z < size /\ z \in S
      BY <1>1, <3>2
    <3>4. o <= z
      BY <3>3, <1>4, <1>1
    <3>5. ASSUME NEW x \in o .. z - 1 PROVE x \notin S
      <4>1. x \in Nat /\ o <= x /\ x < z /\ x < size
        BY <3>3, <1>1
      <4> SUFFICES ASSUME x \in S PROVE FALSE
        OBVIOUS
      <4>2. CASE x < from
        BY <4>1, <4>2, <2>2
      <4>3. CASE ~ (x < from)
        <5>1. from <= x
          BY <4>1, <4>3, <1>4
        <5>2. x \in tail
          BY <4>1, <5>1
        <5>3. z <= x
          BY <5>2, <3>2
        <5>. QED BY <5>3, <4>1, <3>3
      <4>. QED BY <4>2, <4>3
    <3>. QED BY <3>3, <3>4, <3>5
  <2>. QED BY <2>3, <2>4
<1>. QED BY <1>5, <1>6

-----------------------------------------------------------------------------
\* The scans keep their promise for every offset below size, whatever the
\* bits behind size are.
LEMMA ScanIsCorrect == TypeOK => ScanCorrect
<1> SUFFICES ASSUME TypeOK, NEW o \in 0 .. size - 1
             PROVE  /\ LET z == FindNextBitClear(o)
                       IN  /\ o <= z /\ \A x \in o .. z - 1 : x < size => x \in bits
                           /\ z < size => z \notin bits
                    /\ LET z == FindNextBitSet(o)
                       IN  /\ o <= z /\ \A x \in o .. z - 1 : x < size => x \notin bits
                           /\ z < size => z \in bits
  BY DEF ScanCorrect
<1>1. size \in Nat /\ size > 0 /\ size <= W * NBytes /\ bits \subseteq Bits
  BY WidthFacts DEF TypeOK
<1>2. \A x \in Nat : x < size => x \in Bits
  BY <1>1, WidthFacts DEF Bits
<1>3. o \in Nat
  BY <1>1
<1>4. /\ Scan(Bits \ bits, o) \in Nat
      /\ o <= Scan(Bits \ bits, o)
      /\ Scan(Bits \ bits, o) < size => Scan(Bits \ bits, o) \in Bits \ bits
      /\ \A x \in o .. Scan(Bits \ bits, o) - 1 : x < size => x \notin Bits \ bits
  BY <1>1, ScanFact
<1>5. /\ Scan(bits, o) \in Nat
      /\ o <= Scan(bits, o)
      /\ Scan(bits, o) < size => Scan(bits, o) \in bits
      /\ \A x \in o .. Scan(bits, o) - 1 : x < size => x \notin bits
  BY <1>1, ScanFact
<1>6. ASSUME NEW x \in o .. Scan(Bits \ bits, o) - 1, x < size PROVE x \in bits
  <2>1. x \in Nat
    <3>1. Scan(Bits \ bits, o) \in Int
      BY <1>4
    <3>. QED BY <1>3, <3>1
  <2>2. x \notin Bits \ bits
    BY <1>4, <1>6
  <2>3. x \in Bits
    BY <1>2, <1>6, <2>1
  <2>. QED BY <2>2, <2>3
<1>. QED BY <1>4, <1>5, <1>6 DEF FindNextBitClear, FindNextBitSet

\* The inductive invariant: types, what the loop keeps, and the two results.
IInv == TypeOK /\ LoopInv /\ FoundIsClear /\ FoundIsFirst

\* Before the first step nothing is found and the search is at its start.
LEMMA InitEstablishes == Init => IInv
<1> SUFFICES ASSUME Init PROVE IInv
  OBVIOUS
<1>1. size \in Nat /\ size > 0 /\ num \in Nat /\ num > 0 /\ bits \subseteq Bits
  BY WidthFacts DEF Init
<1>2. TypeOK
  BY <1>1, WidthFacts DEF Init, TypeOK, None
<1>3. LoopInv
  BY <1>1 DEF Init, LoopInv, None
<1>. QED BY <1>2, <1>3 DEF IInv, Init, FoundIsClear, FoundIsFirst

\* The values of a state in which the loop runs.
LEMMA LoopFacts ==
    ASSUME IInv, pc = "loop"
    PROVE  /\ size \in Nat /\ size > 0 /\ num \in Nat /\ num > 0
           /\ off \in Nat /\ off <= size /\ count \in Nat /\ count < num /\ count <= off
           /\ bits \subseteq Bits /\ ret = None
           /\ first_zero \in {None} \cup 0 .. size - 1
           /\ count > 0 => first_zero = off - count
           /\ \A x \in off - count .. off - 1 : x \notin bits
           /\ \A s \in 0 .. size - 1 : RunAt(s, num) => s >= off - count
BY WidthFacts DEF IInv, TypeOK, LoopInv

\* The loop ends by its condition: what is left is too short for a run.
LEMMA LoopEndPreserves == IInv /\ LoopEnd => IInv'
<1> SUFFICES ASSUME IInv, LoopEnd PROVE IInv'
  OBVIOUS
<1> DEFINE u == off - count
<1>1. pc = "loop" /\ size - off + count < num
  BY DEF LoopEnd
<1>2. /\ pc' = "done" /\ ret' = None
      /\ bits' = bits /\ size' = size /\ num' = num
      /\ off' = off /\ count' = count /\ first_zero' = first_zero
  BY DEF LoopEnd, Return
<1>3. TypeOK' /\ LoopInv' /\ FoundIsClear'
  BY <1>2 DEF IInv, TypeOK, LoopInv, FoundIsClear, None
<1>4. ASSUME NEW s \in 0 .. size - 1, RunAt(s, num) PROVE FALSE
  <2>1. s \in Nat /\ s >= off - count
    BY <1>1, <1>4, LoopFacts
  <2>2. s + num <= size
    BY <1>4 DEF RunAt
  <2>. QED BY <1>1, <2>1, <2>2, LoopFacts
<1>5. FoundIsFirst'
  BY <1>2, <1>4 DEF FoundIsFirst, RunAt
<1>. QED BY <1>3, <1>5 DEF IInv

\* One turn of the loop.
LEMMA LoopPreserves == IInv /\ Loop => IInv'
<1> SUFFICES ASSUME IInv, Loop PROVE IInv'
  OBVIOUS
<1> DEFINE z == FindNextBitClear(off)
<1>1. pc = "loop" /\ size - off + count >= num
  BY DEF Loop
<1>2. off \in 0 .. size - 1
  BY <1>1, LoopFacts
<1>3. /\ z \in Nat /\ off <= z
      /\ z < size => z \notin bits
      /\ \A x \in off .. z - 1 : x < size => x \in bits
  <2>1. TypeOK
    BY DEF IInv
  <2>2. z \in Nat
    BY <1>1, <1>2, LoopFacts, ScanFact DEF FindNextBitClear
  <2>. QED BY <1>2, <2>1, <2>2, ScanIsCorrect DEF ScanCorrect
<1>4. \A s \in 0 .. size - 1 : RunAt(s, num) => s >= off - count
  BY <1>1, LoopFacts
\* No run starts at or before off - 1 when off itself is set.
<1>5. ASSUME z # off, NEW s \in 0 .. size - 1, RunAt(s, num) PROVE s >= z
  <2>1. s \in Nat /\ s >= off - count /\ s + num <= size
    BY <1>1, <1>4, <1>5, LoopFacts DEF RunAt
  <2>2. \A x \in s .. s + num - 1 : x \notin bits
    BY <1>5 DEF RunAt
  <2>3. s + num > off
    BY <1>1, <2>1, LoopFacts
  <2>4. SUFFICES ASSUME s < z PROVE FALSE
    BY <1>3, <2>1
  <2>5. CASE s < off
    <3>1. off \in s .. s + num - 1
      BY <2>1, <2>3, <2>5, <1>1, LoopFacts
    <3>2. off \in off .. z - 1 /\ off < size
      BY <1>2, <1>3, <1>5, <1>1, LoopFacts
    <3>. QED BY <3>1, <3>2, <2>2, <1>3
  <2>6. CASE s >= off
    <3>1. s \in off .. z - 1 /\ s < size
      BY <2>1, <2>4, <2>6, <1>3, <1>1, LoopFacts
    <3>2. s \in s .. s + num - 1
      BY <2>1, <1>1, LoopFacts
    <3>. QED BY <3>1, <3>2, <2>2, <1>3
  <2>. QED BY <2>5, <2>6, <2>1, <1>1, LoopFacts
<1>6. CASE z >= size
  <2>1. /\ pc' = "done" /\ ret' = None
        /\ bits' = bits /\ size' = size /\ num' = num
        /\ off' = off /\ count' = count /\ first_zero' = first_zero
    BY <1>6 DEF Loop, Return, Exhausted
  <2>2. TypeOK' /\ LoopInv' /\ FoundIsClear'
    BY <2>1 DEF IInv, TypeOK, LoopInv, FoundIsClear, None
  <2>3. z # off
    BY <1>6, <1>2, <1>1, LoopFacts
  <2>4. ASSUME NEW s \in 0 .. size - 1, RunAt(s, num) PROVE FALSE
    BY <1>5, <1>6, <2>3, <2>4, <1>1, <1>3, LoopFacts
  <2>5. FoundIsFirst'
    BY <2>1, <2>4 DEF FoundIsFirst, RunAt
  <2>. QED BY <2>2, <2>5 DEF IInv
<1>7. CASE ~ (z >= size)
  <2> DEFINE c == IF z # off THEN 1 ELSE count + 1
             fz == IF z # off \/ count = 0 THEN z ELSE first_zero
  <2>1. /\ first_zero' = fz /\ off' = z + 1 /\ count' = c
        /\ bits' = bits /\ size' = size /\ num' = num
        /\ IF c = num THEN pc' = "done" /\ ret' = Bail(fz) ELSE pc' = pc /\ ret' = ret
    BY <1>7 DEF Loop, Found, Return, Exhausted
  <2>2. z < size /\ z \notin bits
    BY <1>3, <1>7, <1>1, LoopFacts
  <2>3. c \in Nat /\ c > 0 /\ c <= num /\ c <= z + 1 /\ fz = z + 1 - c
    <3>1. CASE z # off
      BY <3>1, <1>3, <1>1, LoopFacts
    <3>2. CASE z = off
      BY <3>2, <1>3, <1>1, LoopFacts
    <3>. QED BY <3>1, <3>2
  <2>4. fz \in 0 .. size - 1
    BY <2>2, <2>3, <1>3, <1>1, LoopFacts
  <2>5. \A x \in z + 1 - c .. z : x \notin bits
    <3>1. CASE z # off
      <4>1. \A x \in z + 1 - c .. z : x = z
        BY <3>1, <1>3
      <4>. QED BY <4>1, <2>2
    <3>2. CASE z = off
      <4>1. \A x \in z + 1 - c .. z : x = z \/ x \in off - count .. off - 1
        BY <3>2, <1>3, <1>1, LoopFacts
      <4>. QED BY <4>1, <2>2, <1>1, LoopFacts
    <3>. QED BY <3>1, <3>2
  <2>6. \A s \in 0 .. size - 1 : RunAt(s, num) => s >= z + 1 - c
    <3>1. CASE z # off
      BY <3>1, <1>5, <1>3
    <3>2. CASE z = off
      BY <3>2, <1>4, <1>3, <1>1, LoopFacts
    <3>. QED BY <3>1, <3>2
  <2> HIDE DEF c, fz, z
  <2>7. fz \in Nat /\ fz < size /\ Bail(fz) = fz /\ fz # None
    BY <2>4, <1>1, LoopFacts DEF Bail, None
  <2>8. TypeOK'
    <3>1. off' \in 0 .. size' /\ count' \in 0 .. num' /\ first_zero' \in 0 .. size' - 1
      BY <2>1, <2>2, <2>3, <2>4, <1>3, <1>1, LoopFacts
    <3>2. ret' \in {None} \cup 0 .. size' - 1 /\ pc' \in {"loop", "done"}
      BY <2>1, <2>4, <2>7, <1>1, LoopFacts
    <3>3. bits' \in SUBSET Bits /\ size' \in 1 .. W * NBytes /\ num' \in 1 .. W * NBytes
      BY <2>1 DEF IInv, TypeOK
    <3>. QED BY <3>1, <3>2, <3>3 DEF TypeOK
  <2>9. CASE c = num
    <3>1. pc' = "done" /\ ret' = fz
      BY <2>1, <2>7, <2>9
    <3>2. RunAt(fz, num)
      <4>1. fz + num <= size
        BY <2>2, <2>3, <2>9, <1>3, <1>1, LoopFacts
      <4>2. fz + num - 1 = z
        BY <2>3, <2>9, <1>3
      <4>. QED BY <4>1, <4>2, <2>3, <2>5 DEF RunAt
    <3>3. FoundIsClear'
      BY <2>1, <3>1, <3>2 DEF FoundIsClear, RunAt
    <3>4. FoundIsFirst'
      BY <2>1, <2>3, <2>6, <2>7, <3>1 DEF FoundIsFirst, RunAt
    <3>5. LoopInv'
      BY <3>1 DEF LoopInv
    <3>. QED BY <2>8, <3>3, <3>4, <3>5 DEF IInv
  <2>10. CASE c # num
    <3>1. pc' = "loop" /\ ret' = None
      BY <2>1, <2>10, <1>1, LoopFacts
    <3>2. FoundIsClear' /\ FoundIsFirst'
      BY <3>1 DEF FoundIsClear, FoundIsFirst
    <3>3. count' < num' /\ count' <= off' /\ first_zero' = off' - count'
      BY <2>1, <2>3, <2>10, <1>3, <1>1, LoopFacts
    <3>4. off' - count' = z + 1 - c /\ off' - 1 = z
      BY <2>1, <2>3, <1>3
    <3>5. \A x \in off' - count' .. off' - 1 : x \notin bits'
      BY <2>1, <2>5, <3>4
    <3>6. \A s \in 0 .. size' - 1 : RunAt(s, num)' => s >= off' - count'
      BY <2>1, <2>6, <3>4 DEF RunAt
    <3>7. LoopInv'
      BY <3>1, <3>3, <3>5, <3>6 DEF LoopInv, RunAt
    <3>. QED BY <2>8, <3>2, <3>7 DEF IInv
  <2>. QED BY <2>9, <2>10
<1>. QED BY <1>6, <1>7

\* IInv holds in every reachable state.
LEMMA Inductive == Spec => []IInv
<1>1. Init => IInv
  BY InitEstablishes
<1>2. IInv /\ [Next]_vars => IInv'
  <2> SUFFICES ASSUME IInv, [Next]_vars PROVE IInv'
    OBVIOUS
  <2>1. CASE Loop
    BY <2>1, LoopPreserves
  <2>2. CASE LoopEnd
    BY <2>2, LoopEndPreserves
  <2>3. CASE UNCHANGED vars
    BY <2>3 DEF IInv, vars, TypeOK, LoopInv, FoundIsClear, FoundIsFirst, RunAt
  <2>. QED BY <2>1, <2>2, <2>3 DEF Next
<1>. QED BY <1>1, <1>2, PTL DEF Spec

\* Offset, count and result of find_clear_bits stay inside the bitmap.
THEOREM TypeCorrect == Spec => []TypeOK
BY Inductive, PTL DEF IInv

\* Between turns of the loop of find_clear_bits the bits counted so far are
\* clear and end at the offset, and no run starts before them.
THEOREM LoopCorrect == Spec => []LoopInv
BY Inductive, PTL DEF IInv

\* A bit number that find_clear_bits returns starts a run of num clear bits
\* inside the bitmap, for every bitmap.
THEOREM ReturnsClearRun == Spec => []FoundIsClear
BY Inductive, PTL DEF IInv

\* find_clear_bits finds the first such run and gives up only without one.
THEOREM ReturnsFirstRun == Spec => []FoundIsFirst
BY Inductive, PTL DEF IInv

\* The byte-wise scans return the first hit at or behind a valid offset.
THEOREM ScansCorrect == Spec => []ScanCorrect
BY Inductive, ScanIsCorrect, PTL DEF IInv
=============================================================================
