------------------------------ MODULE FindBits ------------------------------
(***************************************************************************)
(* Searching a bitmap: the byte-wise scans of libcmfs/bitops.c and the     *)
(* loop of find_clear_bits in mkfs.cmfs/mkfs.c that looks for a run of     *)
(* clear bits with them.  A bitmap is the set of its set bits.  The buffer *)
(* is whole bytes, so it has bits behind `size' that the scans may see.    *)
(***************************************************************************)
EXTENDS Integers, FiniteSets

CONSTANTS
    W,        \* bits of a byte
    NBytes    \* length of the buffer

ASSUME WidthAssumption == W \in Nat \ {0} /\ NBytes \in Nat \ {0}

Bits == 0 .. W * NBytes - 1
None == -1

VARIABLES
    bits,     \* the set bits of the buffer
    size,     \* number of valid bits
    num,      \* num_bits, the length of the run wanted
    pc, off, count, first_zero,
    ret       \* the value returned

vars == <<bits, size, num, pc, off, count, first_zero, ret>>

\* The first member of S, or size.  Every scan goes upwards.
First(S) == IF S = {} THEN size ELSE CHOOSE x \in S : \A y \in S : x <= y

ByteEnd(o) == o - (o % W) + W            \* first bit of the byte after o's

\* Both scans: hits in the rest of a byte entered in its middle are taken
\* wherever they are, behind `size' too; whole bytes are masked with `size'.
Scan(S, o) ==
    LET head == {x \in S : o <= x /\ x < ByteEnd(o)}
        from == IF o % W = 0 THEN o ELSE ByteEnd(o)
        tail == {x \in S : from <= x /\ x < size}
    IN  IF size = 0 THEN 0
        ELSE IF o % W # 0 /\ head # {} THEN First(head) ELSE First(tail)

\* Mutant of FindNextBitClear: the scan starts behind the offset.
FindNextBitClearAfter(o) == Scan(Bits \ bits, o + 1)

FindNextBitClear(o) == Scan(Bits \ bits, o)
FindNextBitSet(o) == Scan(bits, o)

Init ==
    /\ bits \in SUBSET Bits
    /\ size \in 1 .. W * NBytes
    /\ num \in 1 .. W * NBytes
    /\ pc = "loop" /\ off = 0 /\ count = 0 /\ first_zero = None /\ ret = None

Return(r) ==
    /\ pc' = "done"
    /\ ret' = r
    /\ UNCHANGED <<bits, size, num>>

\* The last check of find_clear_bits.
Bail(z) == IF z # None /\ z >= size THEN None ELSE z

\* Mutant of Found: the run goes on across a set bit.
FoundAcross(z) == /\ first_zero' = (IF count = 0 THEN z ELSE first_zero)
                  /\ off' = z + 1
                  /\ count' = count + 1

\* The next clear bit z starts a new run, or continues the one before off.
Found(z) == /\ first_zero' = (IF z # off \/ count = 0 THEN z ELSE first_zero)
            /\ off' = z + 1
            /\ count' = (IF z # off THEN 1 ELSE count + 1)

\* The scan met no clear bit of the bitmap.
Exhausted(z) == z >= size

Loop ==
    /\ pc = "loop"
    /\ size - off + count >= num
    /\ LET z == FindNextBitClear(off)
       IN  IF Exhausted(z) THEN Return(None) /\ UNCHANGED <<off, count, first_zero>>
           ELSE /\ Found(z)
                /\ IF count' = num THEN Return(Bail(first_zero'))
                   ELSE UNCHANGED <<bits, size, num, pc, ret>>

\* Mutant of LoopEnd: one bit too early.
LoopEndEarly ==
    /\ pc = "loop"
    /\ size - off + count <= num
    /\ Return(None)
    /\ UNCHANGED <<off, count, first_zero>>

LoopEnd ==
    /\ pc = "loop"
    /\ size - off + count < num
    /\ Return(None)
    /\ UNCHANGED <<off, count, first_zero>>

Next == Loop \/ LoopEnd

Spec == Init /\ [][Next]_vars
-----------------------------------------------------------------------------
TypeOK ==
    /\ bits \in SUBSET Bits
    /\ size \in 1 .. W * NBytes
    /\ num \in 1 .. W * NBytes
    /\ pc \in {"loop", "done"}
    /\ off \in 0 .. size
    /\ count \in 0 .. num
    /\ first_zero \in {None} \cup 0 .. size - 1
    /\ ret \in {None} \cup 0 .. size - 1

\* A run of n clear valid bits starts at s.
RunAt(s, n) == s + n <= size /\ \A x \in s .. s + n - 1 : x \notin bits

\* What a scan promises whoever calls it with a valid offset: the first clear
\* (set) bit at or behind it, or something that is not below size
\* (cmfs_find_next_bit_clear, cmfs_find_next_bit_set).
ScanCorrect ==
    \A o \in 0 .. size - 1 :
        /\ LET z == FindNextBitClear(o)
           IN  /\ o <= z /\ \A x \in o .. z - 1 : x < size => x \in bits
               /\ z < size => z \notin bits
        /\ LET z == FindNextBitSet(o)
           IN  /\ o <= z /\ \A x \in o .. z - 1 : x < size => x \notin bits
               /\ z < size => z \in bits

\* A bit number that is returned starts a run of num clear bits inside the
\* bitmap, so alloc_from_bitmap marks nothing that is in use or outside.
FoundIsClear == pc = "done" /\ ret # None => RunAt(ret, num)

\* The search gives up only when there is no such run, and it finds the
\* first one.
FoundIsFirst ==
    pc = "done" => \A s \in 0 .. size - 1 : RunAt(s, num) => ret # None /\ ret <= s

\* What the loop keeps: the count bits before off are clear and start at
\* first_zero, and no run starts before them.
LoopInv ==
    pc = "loop" =>
        /\ count < num
        /\ ret = None
        /\ count > 0 => first_zero = off - count
        /\ count <= off
        /\ \A x \in off - count .. off - 1 : x \notin bits
        /\ \A s \in 0 .. size - 1 : RunAt(s, num) => s >= off - count
=============================================================================
