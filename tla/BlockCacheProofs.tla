-------------------------- MODULE BlockCacheProofs --------------------------
(***************************************************************************)
(* Proofs about BlockCache for every number of channels, caches, blocks    *)
(* and buffers, every hunk size and every combination of faults.           *)
(***************************************************************************)
EXTENDS BlockCache, FiniteSetTheorems, TLAPS

-----------------------------------------------------------------------------
(* The LRU list stays a permutation of the icbs.                           *)

IsPermutation(q) ==
    /\ q \in [Slots -> Slots]
    /\ \A s \in Slots : \E k \in Slots : q[k] = s
    /\ \A k, l \in Slots : q[k] = q[l] => k = l

\* Moving an icb to the tail of the LRU list (io_cache_seen) keeps every icb
\* on the list exactly once and makes it the last victim.
LEMMA TailPermutation ==
    ASSUME NEW q, IsPermutation(q), NEW s \in Slots
    PROVE  IsPermutation(MoveToTail(q, s)) /\ MoveToTail(q, s)[NrBlocks] = s
<1> DEFINE p == CHOOSE k \in Slots : q[k] = s
<1>1. p \in Slots /\ q[p] = s
  BY DEF IsPermutation
<1>2. p \in Int /\ 1 <= p /\ p <= NrBlocks /\ NrBlocks \in Nat \ {0}
  BY <1>1, SizeAssumption DEF Slots
<1> DEFINE r == [k \in Slots |-> IF k < p THEN q[k]
                                 ELSE IF k < NrBlocks THEN q[k + 1] ELSE s]
<1>3. MoveToTail(q, s) = r
  BY DEF MoveToTail
<1> HIDE DEF p
<1> DEFINE v(k) == IF k < p THEN q[k] ELSE IF k < NrBlocks THEN q[k + 1] ELSE s
<1>0. \A k \in Slots : k < NrBlocks => k + 1 \in Slots
  BY <1>2 DEF Slots
<1>4. r \in [Slots -> Slots]
  <2>1. ASSUME NEW k \in Slots PROVE v(k) \in Slots
    BY <1>0 DEF IsPermutation
  <2>. QED BY <2>1
<1>5. ASSUME NEW t \in Slots PROVE \E k \in Slots : r[k] = t
  <2>1. PICK k \in Slots : q[k] = t
    BY DEF IsPermutation
  <2>2. CASE k < p
    BY <2>1, <2>2
  <2>3. CASE k = p
    <3>1. NrBlocks \in Slots /\ ~ (NrBlocks < p) /\ ~ (NrBlocks < NrBlocks)
      BY <1>2 DEF Slots
    <3>2. r[NrBlocks] = s
      BY <3>1
    <3>. QED BY <3>1, <3>2, <2>1, <2>3, <1>1
  <2>4. CASE k > p
    <3>1. k - 1 \in Slots /\ ~ (k - 1 < p) /\ k - 1 < NrBlocks /\ (k - 1) + 1 = k
      BY <1>2, <2>4 DEF Slots
    <3>2. r[k - 1] = q[k]
      BY <3>1
    <3>. QED BY <3>1, <3>2, <2>1
  <2>. QED BY <2>2, <2>3, <2>4, <1>2 DEF Slots
<1>6. ASSUME NEW k \in Slots, NEW l \in Slots, r[k] = r[l] PROVE k = l
  <2>1. r[k] = v(k) /\ r[l] = v(l)
    OBVIOUS
  <2> DEFINE at(x) == IF x < p THEN x ELSE IF x < NrBlocks THEN x + 1 ELSE p
  <2>2. at(k) \in Slots /\ at(l) \in Slots /\ v(k) = q[at(k)] /\ v(l) = q[at(l)]
    BY <1>0, <1>1
  <2>3. at(k) = at(l)
    BY <2>1, <2>2, <1>6 DEF IsPermutation
  <2>4. k \in Int /\ l \in Int /\ k >= 1 /\ l >= 1 /\ k <= NrBlocks /\ l <= NrBlocks
    BY <1>2 DEF Slots
  <2>. QED BY <2>3, <2>4, <1>2
<1>7. r[NrBlocks] = s
  BY <1>2 DEF Slots
<1> HIDE DEF r
<1>8. IsPermutation(r)
  BY <1>4, <1>5, <1>6 DEF IsPermutation
<1>. QED BY <1>3, <1>7, <1>8

\* Moving an icb to the head (io_cache_unsee) keeps the list a permutation and
\* makes the icb the next victim.
LEMMA HeadPermutation ==
    ASSUME NEW q, IsPermutation(q), NEW s \in Slots
    PROVE  IsPermutation(MoveToHead(q, s)) /\ MoveToHead(q, s)[1] = s
<1> DEFINE p == CHOOSE k \in Slots : q[k] = s
<1>1. p \in Slots /\ q[p] = s
  BY DEF IsPermutation
<1>2. p \in Int /\ 1 <= p /\ p <= NrBlocks /\ NrBlocks \in Nat \ {0}
  BY <1>1, SizeAssumption DEF Slots
<1> DEFINE r == [k \in Slots |-> IF k > p THEN q[k]
                                 ELSE IF k > 1 THEN q[k - 1] ELSE s]
<1>3. MoveToHead(q, s) = r
  BY DEF MoveToHead
<1> HIDE DEF p
<1> DEFINE v(k) == IF k > p THEN q[k] ELSE IF k > 1 THEN q[k - 1] ELSE s
<1>0. \A k \in Slots : k > 1 => k - 1 \in Slots
  BY <1>2 DEF Slots
<1>4. r \in [Slots -> Slots]
  <2>1. ASSUME NEW k \in Slots PROVE v(k) \in Slots
    BY <1>0 DEF IsPermutation
  <2>. QED BY <2>1
<1>5. ASSUME NEW t \in Slots PROVE \E k \in Slots : r[k] = t
  <2>1. PICK k \in Slots : q[k] = t
    BY DEF IsPermutation
  <2>2. CASE k > p
    BY <2>1, <2>2
  <2>3. CASE k = p
    <3>1. 1 \in Slots /\ ~ (1 > p) /\ ~ (1 > 1)
      BY <1>2 DEF Slots
    <3>2. r[1] = s
      BY <3>1
    <3>. QED BY <3>1, <3>2, <2>1, <2>3, <1>1
  <2>4. CASE k < p
    <3>1. k + 1 \in Slots /\ ~ (k + 1 > p) /\ k + 1 > 1 /\ (k + 1) - 1 = k
      BY <1>2, <2>4 DEF Slots
    <3>2. r[k + 1] = q[k]
      BY <3>1
    <3>. QED BY <3>1, <3>2, <2>1
  <2>. QED BY <2>2, <2>3, <2>4, <1>2 DEF Slots
<1>6. ASSUME NEW k \in Slots, NEW l \in Slots, r[k] = r[l] PROVE k = l
  <2>1. r[k] = v(k) /\ r[l] = v(l)
    OBVIOUS
  <2> DEFINE at(x) == IF x > p THEN x ELSE IF x > 1 THEN x - 1 ELSE p
  <2>2. at(k) \in Slots /\ at(l) \in Slots /\ v(k) = q[at(k)] /\ v(l) = q[at(l)]
    BY <1>0, <1>1
  <2>3. at(k) = at(l)
    BY <2>1, <2>2, <1>6 DEF IsPermutation
  <2>4. k \in Int /\ l \in Int /\ k >= 1 /\ l >= 1 /\ k <= NrBlocks /\ l <= NrBlocks
    BY <1>2 DEF Slots
  <2>. QED BY <2>3, <2>4, <1>2
<1>7. r[1] = s
  BY <1>2 DEF Slots
<1> HIDE DEF r
<1>8. IsPermutation(r)
  BY <1>4, <1>5, <1>6 DEF IsPermutation
<1>. QED BY <1>3, <1>7, <1>8

-----------------------------------------------------------------------------
(* Types, and which call may be where.                                     *)

Lists == \A m \in Caches : IsPermutation(lru[m])
Shape == TypeOK /\ CallShape /\ Lists

USE DEF chanVars, icVars, lookupVars, callVars

\* A call that has left its caller has proper arguments.
LEMMA Running ==
    ASSUME Shape, pc # "idle"
    PROVE  /\ call \in Calls /\ call.chan \in Chans /\ call.nocache \in BOOLEAN
           /\ call.op \in {"read", "write", "vec"}
           /\ call.n \in Nat /\ call.n <= MaxCount
           /\ M \in Caches \cup {NoCache}
           /\ \A p \in Pos : Blk(p) \in Requested
           /\ \A p \in 0 .. call.n - 1 : p \in Pos
BY SizeAssumption DEF Shape, TypeOK, Calls, M, Blk, Pos

\* In the loop over the blocks, the position is inside the request.
LEMMA Looping ==
    ASSUME Shape, Stepping
    PROVE  /\ pc = "sync" /\ M \in Caches /\ Here \in Pos
           /\ Here \in 0 .. call.n - 1 /\ Blk(Here) \in Requested
           /\ off \in Nat /\ i \in Nat /\ todo \in Nat /\ good \in Nat
           /\ i + 1 <= todo /\ i + 1 <= MaxCount
<1>1. pc = "sync" /\ pc # "idle"
  BY DEF Stepping
<1>2. /\ M # NoCache /\ off + todo <= call.n /\ i < todo
      /\ off \in Nat /\ i \in Nat /\ todo \in Nat /\ good \in Nat
  BY <1>1, SizeAssumption DEF Shape, TypeOK, CallShape, Stepping
<1>3. call.n \in Nat /\ call.n <= MaxCount
  BY <1>1, Running
<1>4. Here \in 0 .. call.n - 1 /\ i + 1 <= todo /\ i + 1 <= MaxCount
  BY <1>2, <1>3, SizeAssumption DEF Here
<1>. QED BY <1>1, <1>2, <1>3, <1>4, Running

\* The icb that a step marks seen keeps the LRU list a permutation.
LEMMA SeenLists ==
    ASSUME Shape, Stepping, NEW s \in Slots, Seen(M, s)
    PROVE  Lists' /\ lru' \in [Caches -> [Slots -> Slots]]
<1>1. M \in Caches
  BY Looping
<1>2. IsPermutation(lru[M])
  BY <1>1 DEF Shape, Lists
<1>3. /\ IsPermutation(MoveToHead(lru[M], s))
      /\ IsPermutation(MoveToTail(lru[M], s))
  BY <1>2, HeadPermutation, TailPermutation
<1>4. lru \in [Caches -> [Slots -> Slots]]
  BY DEF Shape, TypeOK
<1>5. PICK q : IsPermutation(q) /\ lru' = [lru EXCEPT ![M] = q]
  BY <1>3 DEF Seen
<1>6. \A m \in Caches : IsPermutation(lru[m])
  BY DEF Shape, Lists
<1>7. \A m \in Caches : IsPermutation(lru'[m])
  BY <1>1, <1>4, <1>5, <1>6
<1>8. lru' \in [Caches -> [Slots -> Slots]]
  BY <1>1, <1>4, <1>5 DEF IsPermutation
<1>9. Lists'
  BY <1>7 DEF Lists, IsPermutation
<1>. QED BY <1>8, <1>9

\* Every step of the library and of its callers keeps the types and the
\* bookkeeping of the running call.
LEMMA ShapeStep == Shape /\ [Next]_vars => Shape'
<1> SUFFICES ASSUME Shape, [Next]_vars PROVE Shape'
  OBVIOUS
<1> USE SizeAssumption, CachesAssumption, DataAssumption
<1>1. ASSUME NEW c \in Chans, Open(c) PROVE Shape'
  BY <1>1 DEF Open, Shape, TypeOK, CallShape, Lists, M
<1>2. ASSUME NEW c \in Chans, DestroyCache(c) PROVE Shape'
  BY <1>2 DEF DestroyCache, DropCache, Shape, TypeOK, CallShape, Lists, M
<1>3. ASSUME NEW c \in Chans, Close(c) PROVE Shape'
  BY <1>3 DEF Close, DropCache, Shape, TypeOK, CallShape, Lists, M
<1>4. ASSUME NEW c \in Chans, SetNocache(c) PROVE Shape'
  BY <1>4 DEF SetNocache, Shape, TypeOK, CallShape, Lists, M
<1>5. ASSUME NEW c \in Chans, NEW m \in Caches, InitCache(c, m) PROVE Shape'
  <2>1. IsPermutation([s \in Slots |-> s])
    BY DEF IsPermutation
  <2>2. Lists'
    BY <1>5, <2>1 DEF InitCache, Shape, TypeOK, Lists, IsPermutation
  <2>3. TypeOK'
    BY <1>5 DEF InitCache, Shape, TypeOK, Contents
  <2>4. CallShape'
    BY <1>5 DEF InitCache, Shape, CallShape
  <2>. QED BY <2>2, <2>3, <2>4 DEF Shape
<1>6. ASSUME NEW c \in Chans, NEW d \in Chans, ShareCache(c, d) PROVE Shape'
  BY <1>6 DEF ShareCache, Shape, TypeOK, CallShape, Lists, M
<1>7. ASSUME NEW c \in Chans, NEW b \in Blocks, NEW n \in 0 .. MaxCount,
             NEW f \in BOOLEAN, StartRead(c, b, n, f)
      PROVE  Shape'
  BY <1>7 DEF StartRead, Start, Run, Untouched, Shape, TypeOK, CallShape, Lists, M,
              Calls, Pos, Requested, Blocks, Contents
<1>8. ASSUME NEW c \in Chans, NEW b \in Blocks, NEW n \in 0 .. MaxCount,
             NEW f \in BOOLEAN, NEW d \in [Pos -> Contents],
             StartWrite(c, b, n, f, d)
      PROVE  Shape'
  BY <1>8 DEF StartWrite, Start, Run, Shape, TypeOK, CallShape, Lists, M,
              Calls, Pos, Requested, Blocks
<1>9. ASSUME NEW c \in Chans, NEW n \in 0 .. MaxVec, NEW u \in [Pos -> Blocks],
             StartVec(c, n, u)
      PROVE  Shape'
  BY <1>9 DEF StartVec, Start, Untouched, Shape, TypeOK, CallShape, Lists, M,
              Calls, Pos, Requested, Blocks, Contents
<1>10. CASE RawRead
  <2>1. data' \in [Pos -> Contents] /\ err' \in BOOLEAN
    BY <1>10 DEF RawRead, Transfer, Blk, Shape, TypeOK, Pos
  <2>2. TypeOK'
    BY <1>10, <2>1 DEF RawRead, Shape, TypeOK
  <2>3. CallShape' /\ Lists'
    BY <1>10 DEF RawRead, Shape, CallShape, Lists, M
  <2>. QED BY <2>2, <2>3 DEF Shape
<1>11. CASE ReadHunk
  <2>1. data' \in [Pos -> Contents] /\ err' \in BOOLEAN
    <3>1. /\ \/ Transfer(off + good', off + todo') /\ UNCHANGED err
             \/ err' = TRUE /\ UNCHANGED data
          /\ data \in [Pos -> Contents] /\ err \in BOOLEAN /\ disk \in [Blocks -> Contents]
      BY <1>11 DEF ReadHunk, Shape, TypeOK
    <3>. QED BY <3>1 DEF Transfer, Blk
  <2>2. /\ call.n \in Nat /\ call.n <= MaxCount
        /\ off \in Nat /\ todo \in Nat /\ off < call.n /\ call.op = "read"
    BY <1>11, Running DEF ReadHunk, Shape, TypeOK, CallShape
  <2>3. /\ todo' \in Nat /\ off + todo' <= call.n
        /\ good' \in 0 .. todo' /\ i' = 0
    BY <1>11, <2>2 DEF ReadHunk
  <2>4. todo' <= MaxCount /\ good' \in 0 .. MaxCount
    BY <2>2, <2>3
  <2>5. TypeOK'
    BY <1>11, <2>1, <2>3, <2>4 DEF ReadHunk, Shape, TypeOK
  <2>6. CallShape' /\ Lists'
    BY <1>11, <2>2, <2>3 DEF ReadHunk, Shape, CallShape, Lists, M
  <2>. QED BY <2>5, <2>6 DEF Shape
<1>12. CASE ReadEnd
  BY <1>12 DEF ReadEnd, Shape, TypeOK, CallShape, Lists, M
<1>13. CASE WriteBlocks
  <2>1. call.n \in Nat /\ call.n <= MaxCount /\ call.op = "write" /\ off = 0
    BY <1>13, Running DEF WriteBlocks, Shape, CallShape
  <2>2. PICK k \in 0 .. call.n, torn \in BOOLEAN : WriteBlocks!2!(k, torn)
    BY <1>13 DEF WriteBlocks
  <2>3. \A p, q \in Pos : Blk(p) - Blk(q) = p - q
    BY <1>13, <2>1 DEF WriteBlocks, Shape, CallShape, Blk
  <2>4. \A p \in 0 .. call.n - 1 : p \in Pos /\ Blk(p) \in Nat
    BY <1>13, Running DEF WriteBlocks, Requested
  <2>5. ASSUME NEW p \in 0 .. k - 1 PROVE Blk(p) - Blk(0) \in Pos
    <3>1. p \in Pos /\ 0 \in Pos
      BY <2>1, <2>4
    <3>2. Blk(p) - Blk(0) = p - 0
      BY <3>1, <2>3
    <3>. QED BY <3>1, <3>2 DEF Pos
  <2>6. disk' \in [Blocks -> Contents]
    BY <2>2, <2>5 DEF Shape, TypeOK, Contents
  <2>7. Blocks \subseteq Requested
    BY DEF Blocks, Requested
  <2>8. stale' \in [Caches -> SUBSET Requested]
    BY <2>2, <2>7 DEF Shape, TypeOK
  <2>9. todo' = k /\ k \in Nat /\ k <= call.n /\ err' \in BOOLEAN /\ i' = 0
    BY <1>13, <2>2, <2>1 DEF WriteBlocks
  <2>10. TypeOK'
    BY <1>13, <2>6, <2>8, <2>9 DEF WriteBlocks, Shape, TypeOK
  <2>11. CallShape' /\ Lists'
    BY <1>13, <2>1, <2>9 DEF WriteBlocks, Shape, CallShape, Lists, M
  <2>. QED BY <2>10, <2>11 DEF Shape
<1>14. CASE VecReadBlocks
  <2>1. call.n \in Nat /\ call.n <= MaxCount /\ call.op = "vec" /\ off = 0
    BY <1>14, Running DEF VecReadBlocks, Shape, CallShape
  <2>2. /\ data' \in [Pos -> Contents] /\ err' \in BOOLEAN
        /\ bad' \subseteq 0 .. call.n - 1 /\ todo' \in Nat
        /\ pc' \in {"sync", "done"} /\ pc' = "sync" => todo' = call.n /\ M # NoCache
    <3>1. /\ data \in [Pos -> Contents] /\ disk \in [Blocks -> Contents] /\ err \in BOOLEAN
          /\ bad \subseteq 0 .. call.n - 1 /\ todo \in Nat
      BY <1>14 DEF VecReadBlocks, Shape, TypeOK, CallShape
    <3>2. CASE err' = TRUE /\ pc' = "done" /\ UNCHANGED <<bad, data, todo>>
      BY <3>1, <3>2
    <3>3. ASSUME NEW B \in SUBSET (0 .. call.n - 1),
                 \A p \in (0 .. call.n - 1) \ B : Blk(p) \in Blocks, bad' = B,
                 data' = [p \in Pos |-> IF p \in (0 .. call.n - 1) \ B THEN disk[Blk(p)]
                                                                     ELSE data[p]],
                 todo' = call.n, pc' = IF M = NoCache THEN "done" ELSE "sync", UNCHANGED err
          PROVE  /\ data' \in [Pos -> Contents] /\ err' \in BOOLEAN
                 /\ bad' \subseteq 0 .. call.n - 1 /\ todo' \in Nat
                 /\ pc' \in {"sync", "done"} /\ pc' = "sync" => todo' = call.n /\ M # NoCache
      BY <2>1, <3>1, <3>3
    <3>. QED BY <1>14, <3>2, <3>3 DEF VecReadBlocks
  <2>3. bad' \in SUBSET Pos
    BY <2>1, <2>2 DEF Pos
  <2>4. TypeOK'
    BY <1>14, <2>2, <2>3 DEF VecReadBlocks, Shape, TypeOK
  <2>5. CallShape' /\ Lists'
    BY <1>14, <2>1, <2>2 DEF VecReadBlocks, Shape, CallShape, Lists, M
  <2>. QED BY <2>4, <2>5 DEF Shape
<1>15. CASE ReadHit
  <2>1. Stepping /\ call.op = "read" /\ call.n \in Nat
    BY <1>15, Running DEF ReadHit, Stepping
  <2>2. PICK s \in Lookup(M, Blk(Here)) : ReadHit!3!(s)
    BY <1>15 DEF ReadHit
  <2>3. s \in Slots /\ buf[M][s] \in Contents
    BY <2>1, Looping DEF Lookup, Shape, TypeOK
  <2>4. Lists' /\ lru' \in [Caches -> [Slots -> Slots]]
    BY <2>1, <2>2, <2>3, SeenLists
  <2>5. data' \in [Pos -> Contents]
    BY <2>1, <2>2, <2>3, Looping DEF Shape, TypeOK
  <2>6. i' = i + 1 /\ i' \in 0 .. MaxCount /\ i' <= todo
    BY <1>15, <2>1, Looping DEF ReadHit
  <2>7. TypeOK'
    BY <1>15, <2>4, <2>5, <2>6 DEF ReadHit, Shape, TypeOK
  <2>8. CallShape'
    BY <1>15, <2>1, <2>6 DEF ReadHit, Stepping, Shape, CallShape, M
  <2>. QED BY <2>4, <2>7, <2>8 DEF Shape
<1>16. CASE ReadLost
  BY <1>16 DEF ReadLost, Stepping, Shape, TypeOK, CallShape, Lists, M
<1>17. CASE StoreHit
  <2>1. Stepping /\ call.op # "read" /\ call.n \in Nat
    BY <1>17, Running DEF StoreHit, Stepping
  <2>2. PICK s \in Lookup(M, Blk(Here)) : StoreHit!3!(s)
    BY <1>17 DEF StoreHit
  <2>3. s \in Slots /\ data[Here] \in Contents
    BY <2>1, Looping DEF Lookup, Shape, TypeOK
  <2>4. Lists' /\ lru' \in [Caches -> [Slots -> Slots]]
    BY <2>1, <2>2, <2>3, SeenLists
  <2>5. buf' \in [Caches -> [Slots -> Contents]]
    BY <2>1, <2>2, <2>3, Looping DEF Shape, TypeOK
  <2>6. stale' \in [Caches -> SUBSET Requested]
    BY <1>17, <2>1, Looping DEF StoreHit, Refreshed, Shape, TypeOK
  <2>7. i' = i + 1 /\ i' \in 0 .. MaxCount /\ i' <= todo
    BY <1>17, <2>1, Looping DEF StoreHit
  <2>8. TypeOK'
    BY <1>17, <2>4, <2>5, <2>6, <2>7 DEF StoreHit, Shape, TypeOK
  <2>9. CallShape'
    BY <1>17, <2>1, <2>7 DEF StoreHit, Stepping, Shape, CallShape, M
  <2>. QED BY <2>4, <2>8, <2>9 DEF Shape
<1>18. CASE Skip
  BY <1>18 DEF Skip, Stepping, Shape, TypeOK, CallShape, Lists, M, Calls
<1>19. CASE Steal
  <2>1. Stepping /\ call.n \in Nat
    BY <1>19, Running DEF Steal, Stepping
  <2> DEFINE s == Victim(M)
             rest == Disconnect(M, s)
  <2>2. s \in Slots /\ data[Here] \in Contents /\ rest \subseteq Slots
    BY <2>1, Looping, SizeAssumption DEF Victim, Disconnect, Shape, TypeOK, Slots
  <2>3. blkno' \in [Caches -> [Slots -> Requested \cup {NoBlk}]]
    BY <1>19, <2>1, <2>2, Looping DEF Steal, Shape, TypeOK
  <2>4. CASE pc' = "abort"
    <3>1. tree' \in [Caches -> SUBSET Slots]
      BY <1>19, <2>1, <2>2, <2>4, Looping DEF Steal, Shape, TypeOK
    <3>2. UNCHANGED <<lru, buf, i, stale>>
      BY <1>19, <2>4, <2>1, Looping DEF Steal
    <3>3. TypeOK'
      <4>1. UNCHANGED <<disk, open, cache, nocache, live, use, call, data, off,
                        todo, good, err, bad>>
        BY <1>19 DEF Steal
      <4>2. TypeOK /\ pc # "idle"
        BY <2>1 DEF Shape, Stepping
      <4>. QED BY <2>3, <2>4, <3>1, <3>2, <4>1, <4>2 DEF TypeOK
    <3>4. CallShape' /\ Lists'
      BY <1>19, <2>1, <2>4, <3>2 DEF Steal, Stepping, Shape, CallShape, Lists, M
    <3>. QED BY <3>3, <3>4 DEF Shape
  <2>5. CASE pc' # "abort"
    <3>1. /\ tree' = [tree EXCEPT ![M] = rest \cup {s}]
          /\ buf' = [buf EXCEPT ![M][s] = data[Here]]
          /\ Seen(M, s) /\ Refreshed /\ i' = i + 1 /\ pc' = pc
      BY <1>19, <2>5 DEF Steal
    <3>2. Lists' /\ lru' \in [Caches -> [Slots -> Slots]]
      BY <2>1, <2>2, <3>1, SeenLists
    <3>3. tree' \in [Caches -> SUBSET Slots]
      BY <2>1, <2>2, <3>1, Looping DEF Shape, TypeOK
    <3>4. buf' \in [Caches -> [Slots -> Contents]]
      BY <2>1, <2>2, <3>1, Looping DEF Shape, TypeOK
    <3>5. stale' \in [Caches -> SUBSET Requested]
      BY <2>1, <3>1, Looping DEF Refreshed, Shape, TypeOK
    <3>6. i' = i + 1 /\ i' \in 0 .. MaxCount /\ i' <= todo
      BY <2>1, <3>1, Looping
    <3>7. TypeOK'
      BY <1>19, <2>3, <3>1, <3>2, <3>3, <3>4, <3>5, <3>6 DEF Steal, Shape, TypeOK
    <3>8. CallShape'
      BY <1>19, <2>1, <3>1, <3>6 DEF Steal, Stepping, Shape, CallShape, M
    <3>. QED BY <3>2, <3>7, <3>8 DEF Shape
  <2>. QED BY <2>4, <2>5
<1>20. CASE SyncEnd
  BY <1>20 DEF SyncEnd, Shape, TypeOK, CallShape, Lists, M, Calls
<1>21. CASE Return
  <2>1. data' \in [Pos -> Contents]
    BY <1>21 DEF Return, Untouched, Contents
  <2>2. /\ pc' = "idle" /\ off' \in 0 .. MaxCount /\ good' \in 0 .. MaxCount
        /\ i' \in 0 .. MaxCount /\ todo' \in Nat /\ bad' \in SUBSET Pos
    BY <1>21 DEF Return
  <2>4. TypeOK
    BY DEF Shape
  <2>5. UNCHANGED <<disk, open, cache, nocache, live, use, lru, tree, blkno, buf, stale>>
    BY <1>21 DEF Return
  <2>7. err' \in BOOLEAN
    BY <1>21, Zenon DEF Return
  <2>6. TypeOK'
    BY <2>1, <2>2, <2>4, <2>5, <2>7 DEF TypeOK
  <2>3. CallShape' /\ Lists'
    BY <1>21 DEF Return, Shape, CallShape, Lists
  <2>. QED BY <2>3, <2>6 DEF Shape
<1>22. CASE UNCHANGED vars
  BY <1>22 DEF vars, Shape, TypeOK, CallShape, Lists, M
<1>23. ASSUME NEW c \in Chans, NEW b \in Blocks, NEW n \in 0 .. MaxCount,
              NEW f \in BOOLEAN, NEW d \in [0 .. n - 1 -> Data],
              StartWrite(c, b, n, f, [p \in Pos |-> IF p < n THEN d[p] ELSE Garbage])
       PROVE  Shape'
  <2>1. [p \in Pos |-> IF p < n THEN d[p] ELSE Garbage] \in [Pos -> Contents]
    BY DEF Pos, Contents
  <2>. QED BY <1>8, <1>23, <2>1
<1>24. ASSUME NEW c \in Chans, NEW n \in 0 .. MaxVec, NEW u \in [0 .. n - 1 -> Blocks],
              StartVec(c, n, [p \in Pos |-> IF p < n THEN u[p] ELSE 0])
       PROVE  Shape'
  <2>1. [p \in Pos |-> IF p < n THEN u[p] ELSE 0] \in [Pos -> Blocks]
    BY DEF Pos, Blocks
  <2>. QED BY <1>9, <1>24, <2>1
<1>25. CASE Step
  BY <1>25, <1>10, <1>11, <1>12, <1>13, <1>14, <1>15, <1>16, <1>17, <1>18, <1>19, <1>20, <1>21
     DEF Step, ReadSync
<1>26. ASSUME NEW c \in Chans, NEW b \in Blocks, NEW n \in 0 .. MaxCount, NEW f \in BOOLEAN,
              \/ StartRead(c, b, n, f)
              \/ \E d \in [0 .. n - 1 -> Data] :
                    n <= MaxWrite /\ StartWrite(c, b, n, f,
                        [p \in Pos |-> IF p < n THEN d[p] ELSE Garbage])
       PROVE  Shape'
  BY <1>26, <1>7, <1>23
<1>. QED
  BY <1>1, <1>2, <1>3, <1>4, <1>5, <1>6, <1>22, <1>24, <1>25, <1>26 DEF Next

\* The zeroed structures of a program that has opened nothing yet.
LEMMA ShapeInit == Init => Shape
<1> SUFFICES ASSUME Init PROVE Shape
  OBVIOUS
<1>1. Lists
  BY DEF Init, Lists, IsPermutation
<1>2. err \in BOOLEAN /\ nocache \in [Chans -> BOOLEAN]
  BY Zenon DEF Init
<1>3. data \in [Pos -> Contents]
  BY DEF Init, Untouched, Contents
<1>4. TypeOK
  BY <1>2, <1>3, SizeAssumption DEF Init, TypeOK, Contents
<1>5. CallShape
  BY DEF Init, CallShape
<1>. QED BY <1>1, <1>4, <1>5 DEF Shape

\* Every variable of the channels, the caches and the running call keeps its
\* type, for all sizes: positions never leave the caller's buffer, cached
\* block numbers are blocks that were requested.
THEOREM TypeCorrect == Spec => []TypeOK
<1>1. Shape => TypeOK
  BY DEF Shape
<1>. QED BY <1>1, ShapeInit, ShapeStep, PTL DEF Spec

-----------------------------------------------------------------------------
(* The lookup tree.                                                        *)

TreeInv ==
    \A m \in Caches :
        /\ tree[m] = {s \in Slots : blkno[m][s] # NoBlk}
        /\ \A s, t \in tree[m] : blkno[m][s] = blkno[m][t] => s = t

\* What a successful steal does to the tree, and that the assertion of
\* io_cache_insert cannot fail: the victim is disconnected first, and the
\* block was looked up in the same tree.
LEMMA StealTree ==
    ASSUME Shape, TreeInv, Steal
    PROVE  /\ pc' = pc
           /\ tree' = [tree EXCEPT ![M] = tree[M] \cup {Victim(M)}]
           /\ blkno' = [blkno EXCEPT ![M][Victim(M)] = Blk(Here)]
           /\ buf' = [buf EXCEPT ![M][Victim(M)] = data[Here]]
           /\ Victim(M) \in Slots /\ Seen(M, Victim(M)) /\ Refreshed
           /\ i' = i + 1
           /\ \A t \in tree[M] : blkno[M][t] # Blk(Here)
<1>1. Stepping /\ ~ Cached(M, Blk(Here))
  BY DEF Steal, MustInsert
<1> DEFINE s == Victim(M)
           rest == Disconnect(M, s)
<1>2. M \in Caches /\ s \in Slots
  <2>1. M \in Caches
    BY <1>1, Looping
  <2>2. 1 \in Slots
    BY SizeAssumption DEF Slots
  <2>3. lru[M] \in [Slots -> Slots]
    BY <2>1 DEF Shape, TypeOK
  <2>. QED BY <2>1, <2>2, <2>3 DEF Victim
<1>3. \A t \in tree[M] : blkno[M][t] # Blk(Here)
  BY <1>1 DEF Cached, Lookup
<1>4. rest = tree[M] \ {s}
  BY <1>2 DEF Disconnect, TreeInv
<1>5. ~ (\E t \in rest : blkno[M][t] = Blk(Here) \/ t = s)
  BY <1>3, <1>4
<1>6. /\ tree' = [tree EXCEPT ![M] = rest \cup {s}] /\ pc' = pc
      /\ buf' = [buf EXCEPT ![M][s] = data[Here]]
      /\ blkno' = [blkno EXCEPT ![M][s] = Blk(Here)]
      /\ Seen(M, s) /\ Refreshed /\ i' = i + 1
  BY <1>5 DEF Steal
<1>7. rest \cup {s} = tree[M] \cup {s}
  BY <1>4
<1>. QED BY <1>2, <1>3, <1>6, <1>7

\* Only a steal and a new cache change the tree, and neither connects a block
\* twice or leaves an icb half connected.
LEMMA TreeStep == Shape /\ TreeInv /\ [Next]_vars => TreeInv'
<1> SUFFICES ASSUME Shape, TreeInv, [Next]_vars PROVE TreeInv'
  OBVIOUS
<1>1. CASE UNCHANGED <<tree, blkno>>
  BY <1>1 DEF TreeInv
<1>2. ASSUME NEW c \in Chans, NEW m \in Caches, InitCache(c, m) PROVE TreeInv'
  <2>1. /\ tree' = [tree EXCEPT ![m] = {}]
        /\ blkno' = [blkno EXCEPT ![m] = [s \in Slots |-> NoBlk]]
    BY <1>2 DEF InitCache
  <2>2. tree \in [Caches -> SUBSET Slots]
        /\ blkno \in [Caches -> [Slots -> Requested \cup {NoBlk}]]
    BY DEF Shape, TypeOK
  <2>. QED BY <2>1, <2>2 DEF TreeInv
<1>3. CASE Steal
  <2> DEFINE v == Victim(M)
  <2>1. /\ tree' = [tree EXCEPT ![M] = tree[M] \cup {v}] /\ v \in Slots
        /\ blkno' = [blkno EXCEPT ![M][v] = Blk(Here)]
        /\ \A t \in tree[M] : blkno[M][t] # Blk(Here)
    BY <1>3, StealTree
  <2>2. M \in Caches /\ Blk(Here) \in Requested
    BY <1>3, Looping DEF Steal
  <2>3. tree \in [Caches -> SUBSET Slots]
        /\ blkno \in [Caches -> [Slots -> Requested \cup {NoBlk}]]
    BY DEF Shape, TypeOK
  <2>4. Blk(Here) # NoBlk
    BY <2>2 DEF Requested, NoBlk
  <2> HIDE DEF v
  <2>. QED BY <2>1, <2>2, <2>3, <2>4 DEF TreeInv
<1>4. CASE Step /\ ~ Steal
  BY <1>1, <1>4 DEF Step, ReadSync, RawRead, ReadHunk, ReadEnd, WriteBlocks,
                    VecReadBlocks, ReadHit, ReadLost, StoreHit, Skip, SyncEnd,
                    Return
<1>. QED
  BY <1>1, <1>2, <1>3, <1>4 DEF Next, vars, Open, DestroyCache, Close,
     SetNocache, ShareCache, StartRead, StartWrite, StartVec, Start

-----------------------------------------------------------------------------
(* The cache agrees with the device, and the buffer with both.             *)

Coherence == CoherentAll /\ BufferInv /\ NoAssertFails

\* Positions of a contiguous request are different blocks.
LEMMA Distinct ==
    ASSUME Shape, pc # "idle", call.op # "vec",
           NEW p \in Pos, NEW q \in Pos, Blk(p) = Blk(q)
    PROVE  p = q
<1>1. call.blks[p] - call.blks[q] = p - q
  BY DEF Shape, CallShape
<1>2. Blk(p) \in Int /\ Blk(q) \in Int /\ p \in Int /\ q \in Int
  BY Running DEF Requested, Pos
<1>. QED BY <1>1, <1>2 DEF Blk

\* Calls of the application that move no block.
LEMMA CoherenceIdle ==
    ASSUME Shape, TreeInv, Coherence, pc = "idle",
           UNCHANGED <<disk, tree, blkno, buf, stale>>,
           off' = off, pc' \in {"idle", "raw", "hunk", "write", "vec"}
    PROVE  Coherence'
<1>1. off = 0
  BY DEF Shape, CallShape
<1>2. CoherentAll' /\ NoAssertFails'
  BY DEF Coherence, CoherentAll, Unsynced, NoAssertFails
<1>3. BufferInv'
  BY <1>1 DEF BufferInv
<1>. QED BY <1>2, <1>3 DEF Coherence

\* A transfer of a read touches the buffer only.
LEMMA CoherenceRead ==
    ASSUME Shape, TreeInv, Coherence, RawRead \/ ReadHunk \/ ReadEnd
    PROVE  Coherence'
<1>1. /\ UNCHANGED <<disk, tree, blkno, buf, stale, call, off, cache>>
      /\ pc \in {"raw", "hunk"} /\ call.op = "read"
      /\ pc' \in {"sync", "done"}
  BY DEF RawRead, ReadHunk, ReadEnd, Shape, CallShape
<1>2. CoherentAll' /\ NoAssertFails'
  BY <1>1 DEF Coherence, CoherentAll, Unsynced, NoAssertFails, M, Blk
<1>3. CASE pc' = "done"
  BY <1>1, <1>2, <1>3 DEF Coherence, BufferInv
<1>4. CASE pc' = "sync"
  <2>1. ReadHunk
    BY <1>4 DEF RawRead, ReadEnd
  <2>0. /\ call.n \in Nat /\ call.n <= MaxCount
        /\ off \in Nat /\ todo \in Nat /\ off < call.n /\ MaxCount \in Nat
    BY <2>1, Running, SizeAssumption DEF ReadHunk, Shape, TypeOK
  <2>10. /\ i' = 0 /\ good' \in Nat /\ good' <= todo' /\ todo' \in Nat
         /\ off + todo' <= call.n
    BY <2>0, <2>1 DEF ReadHunk
  <2>2. PICK g \in Nat, k \in Nat :
            good' = g /\ todo' = k /\ g <= k /\ off + k <= call.n
    BY <2>10
  <2>8. /\ \A p \in 0 .. g - 1 : Cached(M, Blk(off + p))
        /\ Transfer(off + g, off + k)
    BY <2>1, <2>2, <1>4 DEF ReadHunk
  <2>3. ASSUME NEW p \in off + g .. off + k - 1 PROVE OnDisk(p)'
    <3>1. p \in Pos
      BY <2>0, <2>2 DEF Pos
    <3>2. Blk(p) \in Blocks /\ data'[p] = disk[Blk(p)]
      BY <2>0, <2>2, <2>8, <3>1 DEF Transfer
    <3>. QED BY <1>1, <3>2 DEF OnDisk, Blk
  <2>4. ASSUME NEW p \in 0 .. off - 1 PROVE OnDisk(p)' \/ (Blk(p) \in stale[M])'
    <3>1. OnDisk(p) \/ Blk(p) \in stale[M]
      BY <2>1 DEF ReadHunk, Coherence, BufferInv
    <3>2. p \in Pos /\ ~ (p \in off + g .. off + k - 1)
      BY <2>0, <2>2 DEF Pos
    <3>3. data'[p] = data[p]
      BY <2>0, <2>2, <2>8, <3>2 DEF Transfer
    <3>. QED BY <1>1, <3>1, <3>3 DEF OnDisk, Blk, M
  <2>5. ASSUME NEW p \in off .. off + g - 1 PROVE Cached(M, Blk(p))'
    <3>1. p - off \in 0 .. g - 1 /\ off + (p - off) = p
      BY <2>0, <2>2
    <3>2. Cached(M, Blk(p))
      BY <2>8, <3>1
    <3>. QED BY <1>1, <3>2 DEF Cached, Lookup, M, Blk
  <2>6. off' = off /\ off + i' = off /\ call' = call
    BY <1>1, <2>0, <2>10
  <2>9. /\ \A p \in 0 .. off' + i' - 1 : OnDisk(p)' \/ (Blk(p) \in stale[M])'
        /\ \A p \in off' + good' .. off' + todo' - 1 : OnDisk(p)'
        /\ \A p \in off' + i' .. off' + good' - 1 : Cached(M, Blk(p))'
    BY <2>0, <2>10, <2>2, <2>3, <2>4, <2>5, <2>6
  <2>7. BufferInv'
    BY <1>1, <1>4, <2>6, <2>9 DEF BufferInv
  <2>. QED BY <1>2, <2>7 DEF Coherence
<1>. QED BY <1>1, <1>3, <1>4

\* A write changes the device under the cache: what it changes is either about
\* to be synced, or belongs to another cache, or is torn.
LEMMA CoherenceWrite ==
    ASSUME Shape, TreeInv, Coherence, WriteBlocks
    PROVE  Coherence'
<1>1. /\ UNCHANGED <<tree, blkno, buf, call, data, off, cache>>
      /\ pc = "write" /\ i' = 0 /\ pc' = (IF M = NoCache THEN "done" ELSE "sync")
  BY DEF WriteBlocks
<1>2. /\ call.op = "write" /\ off = 0 /\ call.n \in Nat /\ call.n <= MaxCount
      /\ MaxCount \in Nat /\ M \in Caches \cup {NoCache}
  BY <1>1, Running, SizeAssumption DEF Shape, CallShape
<1>3. PICK k \in 0 .. call.n, torn \in BOOLEAN : WriteBlocks!2!(k, torn)
  BY DEF WriteBlocks
<1> DEFINE whole == {Blk(p) : p \in 0 .. k - 1}
           half == IF torn THEN {Blk(k)} ELSE {}
<1>4. /\ disk' = [b \in Blocks |-> IF b \in whole THEN data[b - Blk(0)]
                                  ELSE IF b \in half THEN Garbage ELSE disk[b]]
      /\ stale' = [m \in Caches |-> stale[m] \cup half \cup
                                    (IF m = M THEN {} ELSE whole)]
      /\ todo' = k /\ \A p \in 0 .. k - 1 : Blk(p) \in Blocks
  BY <1>3
<1>5. ASSUME NEW p \in 0 .. k - 1 PROVE OnDisk(p)'
  <2>1. p \in Pos /\ 0 \in Pos /\ p \in Int
    BY <1>2 DEF Pos
  <2>2. call.blks[p] - call.blks[0] = p - 0
    BY <1>1, <1>2, <2>1 DEF Shape, CallShape
  <2>3. Blk(p) - Blk(0) = p
    BY <2>1, <2>2 DEF Blk
  <2>4. Blk(p) \in whole /\ Blk(p) \in Blocks
    BY <1>4
  <2>5. disk'[Blk(p)] = data[p]
    BY <1>4, <2>3, <2>4
  <2>. QED BY <1>1, <2>4, <2>5 DEF OnDisk, Blk
<1>6. BufferInv' /\ NoAssertFails'
  BY <1>1, <1>2, <1>4, <1>5 DEF BufferInv, NoAssertFails
<1>7. ASSUME NEW m \in Caches, NEW s \in tree[m]
      PROVE  LET b == blkno[m][s]
             IN  \/ b \in stale'[m] \cup Unsynced(m)'
                 \/ b \in Blocks /\ buf[m][s] = disk'[b]
  <2> DEFINE b == blkno[m][s]
  <2>1. Unsynced(m) = {}
    BY <1>1 DEF Unsynced
  <2>2. b \in stale[m] \/ (b \in Blocks /\ buf[m][s] = disk[b])
    BY <2>1 DEF Coherence, CoherentAll
  <2>3. stale[m] \subseteq stale'[m] /\ half \subseteq stale'[m]
        /\ (m # M => whole \subseteq stale'[m])
    BY <1>4
  <2>4. m = M => Unsynced(m)' = whole
    <3>1. SUFFICES ASSUME m = M PROVE Unsynced(m)' = whole
      OBVIOUS
    <3>2. pc' = "sync" /\ M' = M /\ call' = call /\ todo' = k /\ i' = 0
      BY <1>1, <1>4, <3>1, CachesAssumption DEF M
    <3>. QED BY <1>2, <3>1, <3>2 DEF Unsynced, Blk
  <2>5. CASE b \in whole \cup half
    BY <2>3, <2>4, <2>5
  <2>6. CASE b \notin whole \cup half
    <3>1. b \in Blocks => disk'[b] = disk[b]
      BY <1>4, <2>6
    <3>. QED BY <2>2, <2>3, <3>1
  <2>. QED BY <2>5, <2>6
<1>8. CoherentAll'
  BY <1>1, <1>7 DEF CoherentAll
<1>. QED BY <1>6, <1>8 DEF Coherence

\* A vector read: what it found is on disk, except where it failed.
LEMMA CoherenceVec ==
    ASSUME Shape, TreeInv, Coherence, VecReadBlocks
    PROVE  Coherence'
<1>1. /\ UNCHANGED <<disk, tree, blkno, buf, stale, call, off, cache>>
      /\ pc = "vec" /\ call.op = "vec" /\ pc' \in {"sync", "done"}
  BY DEF VecReadBlocks, Shape, CallShape
<1>2. CoherentAll' /\ NoAssertFails'
  BY <1>1 DEF Coherence, CoherentAll, Unsynced, NoAssertFails
<1>3. call.n \in Nat /\ call.n <= MaxCount /\ MaxCount \in Nat
  BY <1>1, Running, SizeAssumption
<1>4. ASSUME NEW p \in 0 .. call.n - 1, p \notin bad', pc' = "sync" PROVE OnDisk(p)'
  <2>1. p \in Pos
    BY <1>3 DEF Pos
  <2>2. PICK B \in SUBSET (0 .. call.n - 1) : VecReadBlocks!2!1!(B)
    BY <1>4 DEF VecReadBlocks
  <2>3. p \in (0 .. call.n - 1) \ B
    BY <2>2, <1>4
  <2>4. Blk(p) \in Blocks /\ data'[p] = disk[Blk(p)]
    BY <2>1, <2>2, <2>3
  <2>. QED BY <1>1, <2>4 DEF OnDisk, Blk
<1>5. BufferInv'
  BY <1>1, <1>4 DEF BufferInv
<1>. QED BY <1>2, <1>5 DEF Coherence

\* A block found by a read: what is copied out is what the cache holds.
LEMMA CoherenceReadHit ==
    ASSUME Shape, TreeInv, Coherence, ReadHit
    PROVE  Coherence'
<1>1. /\ Stepping /\ pc = "sync" /\ pc' = pc /\ call.op = "read" /\ i' = i + 1
      /\ UNCHANGED <<disk, tree, blkno, buf, stale, call, off, todo, good, cache>>
  BY DEF ReadHit, Stepping
<1>2. PICK s \in Lookup(M, Blk(Here)) : ReadHit!3!(s)
  BY DEF ReadHit
<1>3. /\ off \in Nat /\ i \in Nat /\ todo \in Nat /\ good \in Nat /\ good <= todo
      /\ i + 1 <= todo /\ Here = off + i /\ Here \in Pos /\ M \in Caches
  BY <1>1, Looping DEF Here, Shape, CallShape
<1>4. CoherentAll' /\ NoAssertFails'
  BY <1>1 DEF Coherence, CoherentAll, Unsynced, NoAssertFails
<1>5. Blk(Here) \in stale[M] \/ (Blk(Here) \in Blocks /\ buf[M][s] = disk[Blk(Here)])
  <2>1. s \in tree[M] /\ blkno[M][s] = Blk(Here)
    BY DEF Lookup
  <2>2. Unsynced(M) = {}
    BY <1>1 DEF Unsynced
  <2>. QED BY <1>3, <2>1, <2>2 DEF Coherence, CoherentAll
<1>6. \A p \in Pos : p # Here \/ ~ (i < good) => data'[p] = data[p]
  BY <1>2, <1>3 DEF Shape, TypeOK
<1>7. /\ \A p \in 0 .. off + i - 1 : OnDisk(p) \/ Blk(p) \in stale[M]
      /\ \A p \in off + good .. off + todo - 1 : OnDisk(p)
      /\ \A p \in off + i .. off + good - 1 : Cached(M, Blk(p))
  BY <1>1 DEF Coherence, BufferInv
<1>8. /\ call.n \in Nat /\ off + todo <= call.n
      /\ \A p \in 0 .. call.n - 1 : p \in Pos
  BY <1>1, Running DEF Shape, CallShape
<1>9. ASSUME NEW p \in 0 .. off + i PROVE OnDisk(p)' \/ (Blk(p) \in stale[M])'
  <2>1. p \in Pos
    BY <1>3, <1>8
  <2>2. CASE p # Here
    <3>1. p \in 0 .. off + i - 1 /\ data'[p] = data[p]
      BY <1>3, <1>6, <2>1, <2>2
    <3>. QED BY <1>1, <1>7, <3>1 DEF OnDisk, Blk, M
  <2>3. CASE p = Here /\ i < good
    <3>1. data'[p] = buf[M][s]
      BY <1>2, <2>1, <2>3 DEF Shape, TypeOK
    <3>. QED BY <1>1, <1>5, <2>3, <3>1 DEF OnDisk, Blk, M, Here
  <2>4. CASE p = Here /\ ~ (i < good)
    <3>1. p \in off + good .. off + todo - 1 /\ data'[p] = data[p]
      BY <1>3, <1>6, <2>1, <2>4
    <3>. QED BY <1>1, <1>7, <3>1 DEF OnDisk, Blk, M
  <2>. QED BY <2>2, <2>3, <2>4
<1>10. ASSUME NEW p \in off + good .. off + todo - 1 PROVE OnDisk(p)'
  <2>1. p \in Pos /\ (p # Here \/ ~ (i < good))
    BY <1>3, <1>8
  <2>. QED BY <1>1, <1>6, <1>7, <2>1 DEF OnDisk, Blk
<1>11. ASSUME NEW p \in off + (i + 1) .. off + good - 1 PROVE Cached(M, Blk(p))'
  <2>1. p \in off + i .. off + good - 1
    BY <1>3
  <2>. QED BY <1>1, <1>7, <2>1 DEF Cached, Lookup, M, Blk
<1>12. off + (i + 1) - 1 = off + i
  BY <1>3
<1>13. BufferInv'
  BY <1>1, <1>9, <1>10, <1>11, <1>12 DEF BufferInv
<1>. QED BY <1>4, <1>13 DEF Coherence

\* assert(icb) cannot fail: no steal happens before the cached prefix has been
\* copied out.
LEMMA NeverLost ==
    ASSUME Shape, Coherence
    PROVE  ~ ReadLost
<1> SUFFICES ASSUME ReadLost PROVE FALSE
  OBVIOUS
<1>1. Stepping /\ pc = "sync" /\ call.op = "read" /\ i < good /\ ~ Cached(M, Blk(Here))
  BY DEF ReadLost, Stepping
<1>2. off \in Nat /\ i \in Nat /\ good \in Nat
  BY <1>1, Looping
<1>3. Here \in off + i .. off + good - 1
  BY <1>1, <1>2 DEF Here
<1>. QED BY <1>1, <1>3 DEF Coherence, BufferInv

\* A step that leaves alone every icb of every cache but the one that now holds
\* the block at Here, which holds what the buffer has for it.
LEMMA CoherenceStore ==
    ASSUME Shape, TreeInv, TreeInv', Coherence, Stepping, NEW s \in Slots,
           s \in tree'[M], blkno'[M][s] = Blk(Here), buf'[M][s] = data[Here],
           \A m \in Caches : \A t \in tree'[m] : m # M \/ t # s =>
                /\ t \in tree[m]
                /\ blkno'[m][t] = blkno[m][t]
                /\ buf'[m][t] = buf[m][t],
           Refreshed, i' = i + 1, pc' = pc,
           UNCHANGED <<disk, call, data, off, todo, good, bad, cache>>,
           Here \in bad \/ OnDisk(Here)
    PROVE  CoherentAll' /\ NoAssertFails'
<1>1. /\ pc = "sync" /\ M \in Caches /\ M' = M /\ off \in Nat /\ i \in Nat
      /\ todo \in Nat /\ Here = off + i
  BY Looping DEF M, Here
<1>2. stale' = [stale EXCEPT ![M] = IF Here \in bad THEN @ \cup {Blk(Here)}
                                                     ELSE @ \ {Blk(Here)}]
  BY DEF Refreshed
<1>3. stale \in [Caches -> SUBSET Requested]
  BY DEF Shape, TypeOK
<1>4. ASSUME NEW m \in Caches, NEW t \in tree'[m]
      PROVE  LET b == blkno'[m][t]
             IN  \/ b \in stale'[m] \cup Unsynced(m)'
                 \/ b \in Blocks /\ buf'[m][t] = disk'[b]
  <2>1. CASE m = M /\ t = s
    <3>1. CASE Here \in bad
      BY <1>1, <1>2, <1>3, <2>1, <3>1
    <3>2. CASE Here \notin bad
      BY <2>1, <3>2 DEF OnDisk
    <3>. QED BY <3>1, <3>2
  <2>2. CASE m # M
    <3>1. stale'[m] = stale[m] /\ Unsynced(m) = {} /\ Unsynced(m)' = {}
      BY <1>1, <1>2, <1>3, <2>2 DEF Unsynced
    <3>. QED BY <2>2, <3>1 DEF Coherence, CoherentAll
  <2>3. CASE m = M /\ t # s
    <3>1. /\ t \in tree[M] /\ blkno'[M][t] = blkno[M][t]
          /\ buf'[M][t] = buf[M][t]
      BY <2>3, <1>1
    <3>2. blkno'[M][t] # Blk(Here)
      BY <1>1, <2>3 DEF TreeInv
    <3>3. Unsynced(m) \ {Blk(Here)} \subseteq Unsynced(m)'
      <4>1. CASE call.op # "write"
        BY <1>1, <4>1 DEF Unsynced
      <4>2. CASE call.op = "write"
        <5>1. off = 0
          BY <1>1, <4>2 DEF Shape, CallShape
        <5>2. Unsynced(m) = {Blk(p) : p \in i .. todo - 1}
          BY <1>1, <2>3, <4>2 DEF Unsynced
        <5>3. Unsynced(m)' = {Blk(p) : p \in i + 1 .. todo - 1}
          BY <1>1, <2>3, <4>2 DEF Unsynced, Blk
        <5>4. \A p \in i .. todo - 1 : p = Here \/ p \in i + 1 .. todo - 1
          BY <1>1, <5>1
        <5>. QED BY <5>2, <5>3, <5>4
      <4>. QED BY <4>1, <4>2
    <3>4. stale[m] \ {Blk(Here)} \subseteq stale'[m]
      BY <1>1, <1>2, <1>3, <2>3
    <3>5. \/ blkno[M][t] \in stale[m] \cup Unsynced(m)
          \/ blkno[M][t] \in Blocks /\ buf[M][t] = disk[blkno[M][t]]
      BY <1>1, <2>3, <3>1 DEF Coherence, CoherentAll
    <3>. QED BY <2>3, <3>1, <3>2, <3>3, <3>4, <3>5
  <2>. QED BY <2>1, <2>2, <2>3
<1>5. CoherentAll'
  BY <1>4 DEF CoherentAll
<1>6. NoAssertFails'
  BY <1>1 DEF NoAssertFails
<1>. QED BY <1>5, <1>6

\* The buffer is right for the block the loop is at, when it goes to the cache.
LEMMA HereOnDisk ==
    ASSUME Shape, Coherence, Stepping, call.op = "read" => ~ (i < good)
    PROVE  Here \in bad \/ OnDisk(Here)
<1>1. /\ pc = "sync" /\ off \in Nat /\ i \in Nat /\ todo \in Nat /\ good \in Nat
      /\ i + 1 <= todo /\ Here = off + i /\ Here \in 0 .. call.n - 1
      /\ call.op \in {"read", "write", "vec"}
  BY Looping, Running DEF Here
<1>2. CASE call.op = "read"
  <2>1. Here \in off + good .. off + todo - 1
    BY <1>1, <1>2
  <2>. QED BY <1>1, <1>2, <2>1 DEF Coherence, BufferInv
<1>3. CASE call.op = "write"
  <2>1. off = 0
    BY <1>1, <1>3 DEF Shape, CallShape
  <2>2. Here \in 0 .. todo - 1
    BY <1>1, <2>1
  <2>. QED BY <1>1, <1>3, <2>2 DEF Coherence, BufferInv
<1>4. CASE call.op = "vec"
  BY <1>1, <1>4 DEF Coherence, BufferInv
<1>. QED BY <1>1, <1>2, <1>3, <1>4

\* The next iteration of a read keeps what earlier ones established, if only
\* the block at Here may have left the stale ones.
LEMMA ReadAdvances ==
    ASSUME Shape, Coherence, Stepping, call.op = "read", ~ (i < good),
           i' = i + 1, pc' = pc, UNCHANGED <<disk, call, data, off, todo, good, cache>>,
           stale[M] \ {Blk(Here)} \subseteq stale'[M]
    PROVE  BufferInv'
<1>1. /\ pc = "sync" /\ pc # "idle" /\ M' = M /\ off \in Nat /\ i \in Nat
      /\ todo \in Nat /\ good \in Nat /\ i + 1 <= todo /\ Here = off + i
      /\ Here \in Pos /\ Here \in 0 .. call.n - 1 /\ call.n \in Nat
      /\ \A p \in 0 .. call.n - 1 : p \in Pos
  BY Looping, Running DEF Here, M
<1>2. OnDisk(Here)
  <2>1. bad = {}
    BY <1>1 DEF Shape, CallShape
  <2>. QED BY <2>1, HereOnDisk
<1>3. /\ \A p \in 0 .. off + i - 1 : OnDisk(p) \/ Blk(p) \in stale[M]
      /\ \A p \in off + good .. off + todo - 1 : OnDisk(p)
  BY <1>1 DEF Coherence, BufferInv
<1>4. ASSUME NEW p \in 0 .. off + i PROVE OnDisk(p)' \/ (Blk(p) \in stale[M])'
  <2>1. p \in Pos
    BY <1>1
  <2>2. CASE p = Here
    BY <1>2, <2>2 DEF OnDisk, Blk, Here
  <2>3. CASE p # Here
    <3>1. p \in 0 .. off + i - 1
      BY <1>1, <2>3
    <3>2. Blk(p) # Blk(Here)
      BY <1>1, <2>1, <2>3, Distinct
    <3>. QED BY <1>1, <1>3, <3>1, <3>2 DEF OnDisk, Blk
  <2>. QED BY <2>2, <2>3
<1>5. ASSUME NEW p \in off + good .. off + todo - 1 PROVE OnDisk(p)'
  BY <1>3 DEF OnDisk, Blk
<1>6. off + (i + 1) - 1 = off + i /\ off + (i + 1) .. off + good - 1 = {}
  BY <1>1
<1>. QED BY <1>1, <1>4, <1>5, <1>6 DEF BufferInv

\* A block found by a write or a vector read.
LEMMA CoherenceStoreHit ==
    ASSUME Shape, TreeInv, TreeInv', Coherence, StoreHit
    PROVE  Coherence'
<1>1. /\ Stepping /\ call.op # "read" /\ Refreshed /\ i' = i + 1 /\ pc' = pc
      /\ UNCHANGED <<disk, tree, blkno, call, data, off, todo, good, bad, cache>>
  BY DEF StoreHit
<1>2. PICK s \in Lookup(M, Blk(Here)) : buf' = [buf EXCEPT ![M][s] = data[Here]]
  BY DEF StoreHit
<1>3. s \in tree[M] /\ blkno[M][s] = Blk(Here) /\ M \in Caches /\ s \in Slots
  BY <1>1, Looping DEF Lookup, Shape, TypeOK
<1>4. buf \in [Caches -> [Slots -> Contents]] /\ tree \in [Caches -> SUBSET Slots]
  BY DEF Shape, TypeOK
<1>5. /\ buf'[M][s] = data[Here]
      /\ \A m \in Caches : \A t \in tree'[m] : m # M \/ t # s =>
            t \in tree[m] /\ blkno'[m][t] = blkno[m][t] /\ buf'[m][t] = buf[m][t]
  BY <1>1, <1>2, <1>3, <1>4
<1>6. CoherentAll' /\ NoAssertFails'
  BY <1>1, <1>3, <1>5, HereOnDisk, CoherenceStore
<1>7. BufferInv'
  <2>1. /\ call' = call /\ pc = "sync" /\ pc' = "sync" /\ todo' = todo /\ bad' = bad
        /\ \A p : OnDisk(p)' = OnDisk(p)
    BY <1>1 DEF Stepping, OnDisk, Blk
  <2>. QED BY <1>1, <2>1 DEF Coherence, BufferInv
<1>. QED BY <1>6, <1>7 DEF Coherence

\* An uncached call passes over a block that is not cached.
LEMMA CoherenceSkip ==
    ASSUME Shape, TreeInv, Coherence, Skip
    PROVE  Coherence'
<1>1. /\ Stepping /\ MustInsert /\ i' = i + 1 /\ pc' = pc
      /\ UNCHANGED <<disk, tree, blkno, buf, stale, call, data, off, todo, good, bad, cache>>
  BY DEF Skip
<1>2. /\ pc = "sync" /\ M \in Caches /\ M' = M /\ off \in Nat /\ i \in Nat
      /\ todo \in Nat /\ Here = off + i
  BY <1>1, Looping DEF M, Here
<1>3. ASSUME NEW m \in Caches, NEW t \in tree[m]
      PROVE  LET b == blkno[m][t]
             IN  \/ b \in stale[m] \cup Unsynced(m)'
                 \/ b \in Blocks /\ buf[m][t] = disk[b]
  <2>1. CASE m = M /\ call.op = "write"
    <3>1. blkno[M][t] # Blk(Here)
      BY <1>1, <2>1 DEF MustInsert, Cached, Lookup
    <3>2. off = 0
      BY <1>2, <2>1 DEF Shape, CallShape
    <3>3. Unsynced(m) = {Blk(p) : p \in i .. todo - 1}
      BY <1>2, <2>1 DEF Unsynced
    <3>4. Unsynced(m)' = {Blk(p) : p \in i + 1 .. todo - 1}
      BY <1>1, <1>2, <2>1 DEF Unsynced, Blk
    <3>5. \A p \in i .. todo - 1 : p = Here \/ p \in i + 1 .. todo - 1
      BY <1>2, <3>2
    <3>6. Unsynced(m) \ {Blk(Here)} \subseteq Unsynced(m)'
      BY <3>3, <3>4, <3>5
    <3>. QED BY <2>1, <3>1, <3>6 DEF Coherence, CoherentAll
  <2>2. CASE ~ (m = M /\ call.op = "write")
    <3>1. Unsynced(m) = {} /\ Unsynced(m)' = {}
      BY <1>1, <1>2, <2>2 DEF Unsynced
    <3>. QED BY <3>1 DEF Coherence, CoherentAll
  <2>. QED BY <2>1, <2>2
<1>4. CoherentAll'
  BY <1>1, <1>3 DEF CoherentAll
<1>5. NoAssertFails'
  BY <1>1 DEF Coherence, NoAssertFails
<1>6. BufferInv'
  <2>1. CASE call.op = "read"
    BY <1>1, <1>2, <2>1, ReadAdvances DEF MustInsert
  <2>2. CASE call.op # "read"
    <3>1. /\ call' = call /\ pc' = "sync" /\ todo' = todo /\ bad' = bad
          /\ \A p : OnDisk(p)' = OnDisk(p)
      BY <1>1, <1>2 DEF OnDisk, Blk
    <3>. QED BY <1>2, <2>2, <3>1 DEF Coherence, BufferInv
  <2>. QED BY <2>1, <2>2
<1>. QED BY <1>4, <1>5, <1>6 DEF Coherence

\* A block that takes the buffer of another.
LEMMA CoherenceSteal ==
    ASSUME Shape, TreeInv, TreeInv', Coherence, Steal
    PROVE  Coherence'
<1> DEFINE s == Victim(M)
<1>1. /\ Stepping /\ MustInsert
      /\ UNCHANGED <<disk, call, data, off, todo, good, bad, cache>>
  BY DEF Steal
<1>2. /\ pc' = pc /\ tree' = [tree EXCEPT ![M] = tree[M] \cup {s}]
      /\ blkno' = [blkno EXCEPT ![M][s] = Blk(Here)]
      /\ buf' = [buf EXCEPT ![M][s] = data[Here]]
      /\ s \in Slots /\ Refreshed /\ i' = i + 1
  BY StealTree
<1>3. M \in Caches /\ pc = "sync" /\ M' = M
  BY <1>1, Looping DEF M
<1>4. /\ buf \in [Caches -> [Slots -> Contents]] /\ tree \in [Caches -> SUBSET Slots]
      /\ blkno \in [Caches -> [Slots -> Requested \cup {NoBlk}]]
      /\ stale \in [Caches -> SUBSET Requested]
  BY DEF Shape, TypeOK
<1> HIDE DEF s
<1>5. s \in tree'[M] /\ blkno'[M][s] = Blk(Here) /\ buf'[M][s] = data[Here]
  BY <1>2, <1>3, <1>4
<1>6. \A m \in Caches : \A t \in tree'[m] : m # M \/ t # s =>
          t \in tree[m] /\ blkno'[m][t] = blkno[m][t] /\ buf'[m][t] = buf[m][t]
  BY <1>2, <1>3, <1>4
<1>7. Here \in bad \/ OnDisk(Here)
  BY <1>1, HereOnDisk DEF MustInsert
<1>8. CoherentAll' /\ NoAssertFails'
  BY <1>1, <1>2, <1>5, <1>6, <1>7, CoherenceStore
<1>9. BufferInv'
  <2>1. CASE call.op = "read"
    <3>1. stale[M] \ {Blk(Here)} \subseteq stale'[M]
      BY <1>2, <1>3, <1>4 DEF Refreshed
    <3>. QED BY <1>1, <1>2, <2>1, <3>1, ReadAdvances DEF MustInsert
  <2>2. CASE call.op # "read"
    <3>1. /\ call' = call /\ pc' = "sync" /\ todo' = todo /\ bad' = bad
          /\ \A p : OnDisk(p)' = OnDisk(p)
      BY <1>1, <1>2, <1>3 DEF OnDisk, Blk
    <3>. QED BY <1>3, <2>2, <3>1 DEF Coherence, BufferInv
  <2>. QED BY <2>1, <2>2
<1>. QED BY <1>8, <1>9 DEF Coherence

\* The end of the loop: everything written is synced, everything read is right.
LEMMA CoherenceSyncEnd ==
    ASSUME Shape, TreeInv, Coherence, SyncEnd
    PROVE  Coherence'
<1>1. /\ pc = "sync" /\ i = todo /\ pc' \in {"hunk", "done"}
      /\ call.op = "read" => off' = off + todo
      /\ call.op # "read" => pc' = "done"
      /\ UNCHANGED <<disk, tree, blkno, buf, stale, call, data, cache>>
  BY DEF SyncEnd
<1>2. todo \in Nat /\ off \in Nat
  BY DEF Shape, TypeOK
<1>3. \A m \in Caches : Unsynced(m) = {} /\ Unsynced(m)' = {}
  <2>1. i .. todo - 1 = {}
    BY <1>1, <1>2
  <2>. QED BY <1>1, <2>1 DEF Unsynced
<1>4. CoherentAll'
  BY <1>1, <1>3 DEF Coherence, CoherentAll
<1>5. CASE pc' = "done"
  BY <1>4, <1>5 DEF Coherence, NoAssertFails, BufferInv
<1>6. CASE pc' = "hunk"
  <2>1. \A p \in 0 .. off + i - 1 : OnDisk(p) \/ Blk(p) \in stale[M]
    BY <1>1, <1>6 DEF Coherence, BufferInv
  <2>2. \A p \in 0 .. off' - 1 : OnDisk(p)' \/ (Blk(p) \in stale[M])'
    <3>1. off' = off + i
      BY <1>1, <1>6
    <3>2. ASSUME NEW p \in 0 .. off + i - 1
          PROVE  OnDisk(p)' \/ (Blk(p) \in stale[M])'
      BY <1>1, <2>1 DEF OnDisk, Blk, M
    <3>3. off' - 1 = off + i - 1
      BY <1>1, <1>2, <3>1
    <3>. QED BY ONLY <3>2, <3>3
  <2>. QED BY <1>4, <1>6, <2>2 DEF Coherence, NoAssertFails, BufferInv
<1>. QED BY <1>1, <1>5, <1>6

\* Every step keeps the cache coherent and the assertions true.
LEMMA CoherenceStep ==
    Shape /\ TreeInv /\ Coherence /\ [Next]_vars => Coherence'
<1> SUFFICES ASSUME Shape, TreeInv, Coherence, [Next]_vars PROVE Coherence'
  OBVIOUS
<1>1. TreeInv'
  BY TreeStep
<1>2. ASSUME NEW c \in Chans, NEW m \in Caches, InitCache(c, m) PROVE Coherence'
  <2>1. /\ pc = "idle" /\ pc' = "idle" /\ disk' = disk
        /\ tree' = [tree EXCEPT ![m] = {}]
        /\ blkno' = [blkno EXCEPT ![m] = [s \in Slots |-> NoBlk]]
        /\ buf' = [buf EXCEPT ![m] = [s \in Slots |-> Garbage]]
        /\ stale' = [stale EXCEPT ![m] = {}]
    BY <1>2 DEF InitCache
  <2>2. /\ tree \in [Caches -> SUBSET Slots] /\ stale \in [Caches -> SUBSET Requested]
        /\ blkno \in [Caches -> [Slots -> Requested \cup {NoBlk}]]
        /\ buf \in [Caches -> [Slots -> Contents]]
    BY DEF Shape, TypeOK
  <2>3. tree'[m] = {} /\ \A x \in Caches \ {m} :
            tree'[x] = tree[x] /\ blkno'[x] = blkno[x] /\ buf'[x] = buf[x] /\ stale'[x] = stale[x]
    BY <2>1, <2>2
  <2>4. \A x \in Caches : Unsynced(x) = {} /\ Unsynced(x)' = {}
    BY <2>1 DEF Unsynced
  <2>5. CoherentAll'
    BY <2>1, <2>3, <2>4 DEF Coherence, CoherentAll
  <2>. QED BY <2>1, <2>5 DEF Coherence, BufferInv, NoAssertFails
<1>3. CASE Return
  BY <1>3 DEF Return, Coherence, CoherentAll, Unsynced, BufferInv, NoAssertFails
<1>4. CASE UNCHANGED vars
  BY <1>4 DEF vars, Coherence, CoherentAll, Unsynced, BufferInv, NoAssertFails,
              OnDisk, Cached, Lookup, Blk, M
<1>5. CASE Step
  BY <1>1, <1>3, <1>5, CoherenceRead, CoherenceWrite, CoherenceVec,
     CoherenceReadHit, NeverLost, CoherenceStoreHit, CoherenceSkip,
     CoherenceSteal, CoherenceSyncEnd DEF Step, ReadSync
<1>6. ASSUME NEW c \in Chans,
             Open(c) \/ DestroyCache(c) \/ Close(c) \/ SetNocache(c)
             \/ \E d \in Chans : ShareCache(c, d)
      PROVE  Coherence'
  BY <1>6, CoherenceIdle DEF Open, DestroyCache, Close, SetNocache, ShareCache
<1>7. ASSUME NEW op, NEW c, NEW n, NEW blks, NEW f, NEW d,
             NEW first \in {"raw", "hunk", "write", "vec"},
             Start(op, c, n, blks, f, d, first)
      PROVE  Coherence'
  BY <1>7, CoherenceIdle DEF Start
<1>8. ASSUME NEW c \in Chans, NEW b, NEW n, NEW f, StartRead(c, b, n, f)
      PROVE  Coherence'
  BY <1>7, <1>8 DEF StartRead
<1>9. ASSUME NEW c \in Chans, NEW b, NEW n, NEW f, NEW d, StartWrite(c, b, n, f, d)
      PROVE  Coherence'
  BY <1>7, <1>9 DEF StartWrite
<1>10. ASSUME NEW c \in Chans, NEW n, NEW u, StartVec(c, n, u) PROVE Coherence'
  BY <1>7, <1>10 DEF StartVec
<1>. QED
  BY <1>2, <1>4, <1>5, <1>6, <1>8, <1>9, <1>10 DEF Next

\* A successful read has the contents of the device, or of a cached copy that a
\* fault left behind.
LEMMA ReadStep ==
    Shape /\ Coherence /\ ReadReturnsDisk /\ [Next]_vars => ReadReturnsDisk'
<1> SUFFICES ASSUME Shape, Coherence, ReadReturnsDisk, [Next]_vars
             PROVE  ReadReturnsDisk'
  OBVIOUS
<1>1. CASE pc' # "done"
  BY <1>1 DEF ReadReturnsDisk
<1>2. CASE UNCHANGED vars
  BY <1>2 DEF vars, ReadReturnsDisk, M, Blk
<1>3. CASE RawRead
  <2>1. /\ UNCHANGED <<disk, call, bad>>
        /\ Transfer(0, call.n) \/ err'
    BY <1>3 DEF RawRead
  <2>2. call.n \in Nat /\ \A p \in 0 .. call.n - 1 : p \in Pos
    BY <1>3, Running DEF RawRead
  <2>3. CASE Transfer(0, call.n)
    <3>1. \A p \in 0 .. call.n - 1 : Blk(p) \in Blocks /\ data'[p] = disk[Blk(p)]
      BY <2>2, <2>3 DEF Transfer
    <3>. QED BY <2>1, <3>1 DEF ReadReturnsDisk, Blk
  <2>. QED BY <2>1, <2>3 DEF ReadReturnsDisk
<1>4. CASE ReadEnd
  <2>1. /\ UNCHANGED <<disk, data, call, bad, stale, cache>> /\ off = call.n
        /\ M # NoCache /\ pc = "hunk"
    BY <1>4 DEF ReadEnd, Shape, CallShape
  <2>2. \A p \in 0 .. call.n - 1 : OnDisk(p) \/ Blk(p) \in stale[M]
    BY <2>1 DEF Coherence, BufferInv
  <2>. QED BY <2>1, <2>2 DEF ReadReturnsDisk, OnDisk, M, Blk
<1>5. CASE SyncEnd
  <2>1. /\ UNCHANGED <<disk, data, call, bad, stale, cache>> /\ pc = "sync"
        /\ call.op = "read" => pc' = "hunk"
    BY <1>5 DEF SyncEnd
  <2>2. CASE call.op = "vec"
    <3>1. \A p \in (0 .. call.n - 1) \ bad : OnDisk(p)
      BY <2>1, <2>2 DEF Coherence, BufferInv
    <3>. QED BY <2>1, <3>1 DEF ReadReturnsDisk, OnDisk, M, Blk
  <2>3. CASE call.op = "write"
    BY <2>1, <2>3 DEF ReadReturnsDisk
  <2>4. call.op \in {"read", "write", "vec"}
    BY <2>1, Running
  <2>. QED BY <1>1, <2>1, <2>2, <2>3, <2>4
<1>6. CASE VecReadBlocks
  <2>1. /\ UNCHANGED <<disk, call>> /\ call.n \in Nat
        /\ \A p \in 0 .. call.n - 1 : p \in Pos
    BY <1>6, Running DEF VecReadBlocks
  <2>2. CASE err'
    BY <2>2 DEF ReadReturnsDisk
  <2>3. CASE ~ err'
    <3>1. PICK B \in SUBSET (0 .. call.n - 1) : VecReadBlocks!2!1!(B)
      BY <1>6, <2>3 DEF VecReadBlocks
    <3>2. \A p \in 0 .. call.n - 1 :
              p \in bad' \/ (Blk(p) \in Blocks /\ data'[p] = disk[Blk(p)])
      BY <2>1, <3>1
    <3>. QED BY <2>1, <3>2 DEF ReadReturnsDisk, Blk
  <2>. QED BY <2>2, <2>3
<1>7. CASE ReadHunk
  BY <1>7 DEF ReadHunk, ReadReturnsDisk
<1>8. CASE WriteBlocks
  <2>1. call' = call /\ call.op = "write"
    BY <1>8 DEF WriteBlocks, Shape, CallShape
  <2>. QED BY <2>1 DEF ReadReturnsDisk
<1>9. CASE ReadHit \/ ReadLost \/ StoreHit \/ Skip \/ Steal \/ Return
  BY <1>1, <1>9 DEF ReadHit, ReadLost, StoreHit, Skip, Steal, Return, Stepping
<1>10. CASE Step
  BY <1>3, <1>4, <1>5, <1>6, <1>7, <1>8, <1>9, <1>10 DEF Step, ReadSync
<1>11. CASE Next /\ ~ Step
  <2>1. pc' \in {"idle", "raw", "hunk", "write", "vec"}
    BY <1>11 DEF Next, Open, InitCache, ShareCache, DestroyCache, Close,
       SetNocache, StartRead, StartWrite, StartVec, Start
  <2>. QED BY <1>1, <2>1
<1>. QED BY <1>2, <1>10, <1>11

Inv == Shape /\ TreeInv /\ Coherence /\ ReadReturnsDisk

\* The whole inductive invariant of the block cache.
THEOREM CacheInvariant == Spec => []Inv
<1>1. Init => Inv
  <2> SUFFICES ASSUME Init PROVE Inv
    OBVIOUS
  <2>1. Shape
    BY ShapeInit
  <2>2. TreeInv
    BY DEF Init, TreeInv
  <2>3. Coherence /\ ReadReturnsDisk
    BY DEF Init, Coherence, CoherentAll, BufferInv, NoAssertFails, ReadReturnsDisk
  <2>. QED BY <2>1, <2>2, <2>3 DEF Inv
<1>2. Inv /\ [Next]_vars => Inv'
  BY ShapeStep, TreeStep, CoherenceStep, ReadStep DEF Inv
<1>. QED BY <1>1, <1>2, PTL DEF Spec

\* The lookup tree and the LRU list of every cache stay consistent through any
\* sequence of steals, unsees, failures and re-initialisations.
THEOREM LookupAlwaysConsistent == Spec => []LookupConsistent
<1>1. Inv => LookupConsistent
  BY DEF Inv, Shape, Lists, IsPermutation, TreeInv, LookupConsistent
<1>. QED BY <1>1, CacheInvariant, PTL

\* A cached block differs from the device only where the code could not know
\* better: between a write and its sync, or after an undetected fault.
THEOREM AlwaysCoherent == Spec => []Coherent
<1>1. Inv => Coherent
  BY DEF Inv, Shape, TypeOK, Coherence, CoherentAll, Coherent
<1>. QED BY <1>1, CacheInvariant, PTL

\* A successful read returns the contents of the device.
THEOREM ReadsReturnDisk == Spec => []ReadReturnsDisk
BY CacheInvariant, PTL DEF Inv

\* Neither assert() of unix_io.c can fail.
THEOREM AssertionsHold == Spec => []NoAssertFails
BY CacheInvariant, PTL DEF Inv, Coherence

-----------------------------------------------------------------------------
(* The life of a cache.                                                    *)

\* The channels that point to a cache are finitely many.
LEMMA HoldersFinite ==
    ASSUME NEW m
    PROVE  /\ IsFiniteSet(Holders(m)) /\ Cardinality(Holders(m)) \in Nat
           /\ Holders(m) = {} <=> Cardinality(Holders(m)) = 0
<1>1. Holders(m) \subseteq Chans
  BY DEF Holders
<1>2. IsFiniteSet(Holders(m))
  BY <1>1, ChansAssumption, FS_Subset
<1>. QED BY <1>2, FS_CardinalityType, FS_EmptySet

\* Pointing one channel elsewhere changes who uses which cache by that channel.
LEMMA Repoint ==
    ASSUME TypeOK, NEW c \in Chans, NEW new \in Caches \cup {NoCache},
           cache' = [cache EXCEPT ![c] = new]
    PROVE  \A m \in Caches : Holders(m)' = IF m = new THEN Holders(m) \cup {c}
                                                       ELSE Holders(m) \ {c}
BY DEF TypeOK, Holders

\* io_destroy_cache: the last use goes with the last user.
LEMMA DropKeepsUse ==
    ASSUME TypeOK, UseInv, NEW c \in Chans, DropCache(c),
           \A x \in Chans : x # c /\ x \in open => x \in open'
    PROVE  UseInv'
<1> DEFINE m == cache[c]
<1>1. /\ cache' = [cache EXCEPT ![c] = NoCache]
      /\ m \in Caches \cup {NoCache} /\ cache \in [Chans -> Caches \cup {NoCache}]
      /\ use \in [Caches -> Int]
  BY DEF DropCache, TypeOK
<1>2. \A x \in Caches : Holders(x)' = Holders(x) \ {c}
  BY <1>1, CachesAssumption, Repoint
<1>3. CASE m = NoCache
  <2>1. cache' = cache /\ use' = use /\ live' = live
    BY <1>1, <1>3 DEF DropCache
  <2>2. \A x \in Caches : Holders(x)' = Holders(x)
    BY <2>1 DEF Holders
  <2>3. \A x \in Chans : cache'[x] # NoCache => x \in open' /\ cache'[x] \in live'
    BY <2>1, <1>3 DEF UseInv
  <2>. QED BY <2>1, <2>2, <2>3 DEF UseInv
<1>4. CASE m \in Caches
  <2>1. /\ use' = [use EXCEPT ![m] = @ - 1]
        /\ live' = IF use[m] = 1 THEN live \ {m} ELSE live
    BY <1>4, CachesAssumption DEF DropCache
  <2>2. c \in Holders(m)
    BY DEF Holders
  <2>3. /\ IsFiniteSet(Holders(m)) /\ Cardinality(Holders(m)) \in Nat
        /\ Cardinality(Holders(m) \ {c}) = Cardinality(Holders(m)) - 1
    BY <2>2, HoldersFinite, FS_RemoveElement
  <2>4. use[m] >= Cardinality(Holders(m)) /\ use[m] \in Int
    BY <1>1, <1>4 DEF UseInv
  <2>5. ASSUME NEW x \in Caches PROVE use'[x] >= Cardinality(Holders(x)')
    <3>1. CASE x = m
      <4>1. Holders(x)' = Holders(m) \ {c}
        BY <1>2, <3>1
      <4>2. use'[x] = use[m] - 1
        BY <1>1, <1>4, <2>1, <3>1
      <4>3. Cardinality(Holders(x)') = Cardinality(Holders(m)) - 1
        BY <2>3, <4>1
      <4> HIDE DEF m
      <4>. QED BY <2>3, <2>4, <4>2, <4>3
    <3>2. CASE x # m
      <4>1. Holders(x)' = Holders(x)
        BY <1>2, <3>2 DEF Holders
      <4>. QED BY <1>1, <2>1, <3>2, <4>1 DEF UseInv
    <3>. QED BY <3>1, <3>2
  <2>6. ASSUME NEW x \in Chans, cache'[x] # NoCache
        PROVE  x \in open' /\ cache'[x] \in live'
    <3>1. x # c /\ cache'[x] = cache[x]
      BY <1>1, <2>6
    <3>2. x \in open /\ cache[x] \in live
      BY <2>6, <3>1 DEF UseInv
    <3>3. use[m] = 1 => cache[x] # m
      <4>1. SUFFICES ASSUME use[m] = 1, cache[x] = m PROVE FALSE
        OBVIOUS
      <4>2. Cardinality(Holders(m) \ {c}) <= 0
        BY <2>3, <2>4, <4>1
      <4>3. x \in Holders(m) \ {c}
        BY <3>1, <4>1 DEF Holders
      <4>4. IsFiniteSet(Holders(m) \ {c}) /\ Cardinality(Holders(m) \ {c}) \in Nat
        BY <2>3, FS_Subset, FS_CardinalityType
      <4>5. Holders(m) \ {c} = {}
        BY <4>2, <4>4, FS_EmptySet
      <4>. QED BY <4>3, <4>5
    <3>. QED BY <2>1, <3>1, <3>2, <3>3
  <2>. QED BY <2>5, <2>6 DEF UseInv
<1>. QED BY <1>1, <1>3, <1>4

\* Sharing counts the new user; a new cache has one.
LEMMA AttachKeepsUse ==
    ASSUME TypeOK, UseInv, NEW c \in open, NEW m \in Caches,
           cache' = [cache EXCEPT ![c] = m], open' = open,
           \/ /\ m \notin live /\ live' = live \cup {m}
              /\ use' = [use EXCEPT ![m] = 1]
           \/ /\ m \in live /\ live' = live /\ use' = [use EXCEPT ![m] = @ + 1]
    PROVE  UseInv'
<1>1. /\ c \in Chans /\ cache \in [Chans -> Caches \cup {NoCache}]
      /\ use \in [Caches -> Int] /\ live \in SUBSET Caches
  BY DEF TypeOK
<1>2. \A x \in Caches : Holders(x)' = IF x = m THEN Holders(x) \cup {c}
                                               ELSE Holders(x) \ {c}
  BY <1>1, Repoint
<1>3. ASSUME NEW x \in Chans, cache'[x] # NoCache
      PROVE  x \in open' /\ cache'[x] \in live'
  <2>1. CASE x = c
    BY <1>1, <2>1
  <2>2. CASE x # c
    BY <1>1, <1>3, <2>2 DEF UseInv
  <2>. QED BY <2>1, <2>2
<1>4. ASSUME NEW x \in Caches PROVE use'[x] >= Cardinality(Holders(x)')
  <2>0. /\ IsFiniteSet(Holders(x)) /\ Cardinality(Holders(x)) \in Nat
        /\ use[x] >= Cardinality(Holders(x)) /\ use[x] \in Int
    BY <1>1, HoldersFinite DEF UseInv
  <2>1. CASE x # m
    <3>1. IsFiniteSet(Holders(x) \ {c}) /\ Cardinality(Holders(x) \ {c}) \in Nat
          /\ Cardinality(Holders(x) \ {c}) <= Cardinality(Holders(x))
      BY <2>0, FS_Subset, FS_CardinalityType
    <3>2. use'[x] = use[x]
      BY <1>1, <2>1
    <3>3. Holders(x)' = Holders(x) \ {c}
      BY <1>2, <2>1
    <3>4. Cardinality(Holders(x)') <= Cardinality(Holders(x)) /\ Cardinality(Holders(x)') \in Nat
      BY <3>1, <3>3
    <3>. QED BY <2>0, <3>2, <3>4
  <2>2. CASE x = m /\ m \in live
    <3>1. Cardinality(Holders(m) \cup {c}) \in Nat
          /\ Cardinality(Holders(m) \cup {c}) <= Cardinality(Holders(m)) + 1
      <4>1. Cardinality(Holders(m) \cup {c}) =
              IF c \in Holders(m) THEN Cardinality(Holders(m))
                                  ELSE Cardinality(Holders(m)) + 1
        BY <2>0, <2>2, FS_AddElement
      <4>2. Cardinality(Holders(m)) \in Nat
        BY <2>0, <2>2
      <4>. QED BY <4>1, <4>2
    <3>2. use'[x] = use[x] + 1
      BY <1>1, <2>2
    <3>3. Holders(x)' = Holders(m) \cup {c}
      BY <1>2, <2>2
    <3>4. Cardinality(Holders(x)') <= Cardinality(Holders(x)) + 1 /\ Cardinality(Holders(x)') \in Nat
      BY <2>2, <3>1, <3>3
    <3>. QED BY <2>0, <3>2, <3>4
  <2>3. CASE x = m /\ m \notin live
    <3>1. Holders(m) = {}
      <4>1. \A y \in Chans : cache[y] # m
        BY <1>1, <2>3, CachesAssumption DEF UseInv
      <4>. QED BY <4>1 DEF Holders
    <3>2. Cardinality(Holders(m) \cup {c}) = 1
      <4>1. Holders(m) \cup {c} = {c}
        BY <3>1
      <4>. QED BY <4>1, FS_Singleton
    <3>3. use'[m] = 1
      BY <1>1, <2>3
    <3>4. Holders(x)' = Holders(m) \cup {c}
      BY <1>2, <2>3
    <3>5. Cardinality(Holders(x)') = 1 /\ use'[x] = 1
      BY <2>3, <3>2, <3>3, <3>4
    <3>. QED BY <3>5
  <2>. QED BY <2>1, <2>2, <2>3
<1>. QED BY <1>3, <1>4 DEF UseInv

\* Every step keeps the use counts above the users.
LEMMA UseStep == TypeOK /\ UseInv /\ [Next]_vars => UseInv'
<1> SUFFICES ASSUME TypeOK, UseInv, [Next]_vars PROVE UseInv'
  OBVIOUS
<1>1. CASE UNCHANGED <<open, cache, live, use>>
  BY <1>1 DEF UseInv, Holders
<1>2. ASSUME NEW c \in Chans, Open(c) PROVE UseInv'
  <2>1. c \notin open /\ cache[c] = NoCache
    BY <1>2 DEF Open, UseInv
  <2>2. cache' = cache /\ live' = live /\ use' = use /\ open' = open \cup {c}
    BY <1>2, <2>1 DEF Open, TypeOK
  <2>3. \A m \in Caches : Holders(m)' = Holders(m)
    BY <2>2 DEF Holders
  <2>. QED BY <2>2, <2>3 DEF UseInv
<1>3. ASSUME NEW c \in Chans, NEW m \in Caches, InitCache(c, m) PROVE UseInv'
  BY <1>3, AttachKeepsUse DEF InitCache
<1>4. ASSUME NEW c \in Chans, NEW d \in Chans, ShareCache(c, d) PROVE UseInv'
  <2>1. cache[c] \in live /\ cache[c] \in Caches /\ d \in open
    BY <1>4 DEF ShareCache, UseInv, TypeOK
  <2>2. /\ cache' = [cache EXCEPT ![d] = cache[c]] /\ open' = open
        /\ live' = live /\ use' = [use EXCEPT ![cache[c]] = @ + 1]
    BY <1>4 DEF ShareCache
  <2>. QED BY <2>1, <2>2, AttachKeepsUse
<1>5. ASSUME NEW c \in Chans, DestroyCache(c) PROVE UseInv'
  BY <1>5, DropKeepsUse DEF DestroyCache
<1>6. ASSUME NEW c \in Chans, Close(c) PROVE UseInv'
  BY <1>6, DropKeepsUse DEF Close
<1>7. CASE Step
  BY <1>1, <1>7 DEF Step, ReadSync, RawRead, ReadHunk, ReadEnd, WriteBlocks,
                    VecReadBlocks, ReadHit, ReadLost, StoreHit, Skip, Steal,
                    SyncEnd, Return
<1>. QED
  BY <1>1, <1>2, <1>3, <1>4, <1>5, <1>6, <1>7 DEF Next, vars, SetNocache,
     StartRead, StartWrite, StartVec, Start

\* At first nobody uses a cache.
LEMMA UseInit == Init => UseInv
<1>1. SUFFICES ASSUME Init PROVE UseInv
  OBVIOUS
<1>2. \A m \in Caches : Holders(m) = {}
  BY <1>1, CachesAssumption DEF Init, Holders
<1>3. \A m \in Caches : use[m] >= Cardinality(Holders(m))
  <2>1. TAKE m \in Caches
  <2>2. use[m] = 0
    BY <1>1 DEF Init
  <2>3. Cardinality(Holders(m)) = 0
    BY <1>2, FS_EmptySet
  <2>. QED BY <2>2, <2>3
<1>. QED BY <1>1, <1>3 DEF Init, UseInv

\* A cache that some channel points to is allocated and has its users counted.
LEMMA UseInvariant == Spec => []UseInv
BY UseInit, UseStep, TypeCorrect, PTL DEF Spec

\* No channel ever points to a cache that was freed, however channels are
\* opened, closed, shared and re-initialised, and the count covers the users.
THEOREM NeverDangling == Spec => []NoDangling
<1>1. TypeOK /\ UseInv => NoDangling
  BY DEF UseInv, NoDangling, Holders, TypeOK
<1>. QED BY <1>1, UseInvariant, TypeCorrect, PTL

-----------------------------------------------------------------------------
(* The order of steals.                                                    *)

\* A cached read that has done its first h blocks holds them in the last h
\* icbs of the LRU list, in the order of the request.
AtTail(h) ==
    \A p \in 0 .. h - 1 :
        LET s == lru[M][(NrBlocks - h) + 1 + p]
        IN  s \in tree[M] /\ blkno[M][s] = Blk(p)

\* An uncached read that has done its first h blocks and found one of them in
\* the cache leaves one of its blocks as the next victim.
AtHead(h) ==
    (\E p \in 0 .. h - 1 : Cached(M, Blk(p)))
        => \E p \in 0 .. call.n - 1 : blkno[M][Victim(M)] = Blk(p)

OrderAt(h) == IF call.nocache THEN AtHead(h)
              ELSE call.n <= NrBlocks => AtTail(h)

OrderInv ==
    /\ pc = "sync" /\ call.op = "read" => OrderAt(Here)
    /\ pc = "hunk" => OrderAt(off)
    /\ pc = "done" /\ call.op = "read" /\ ~ err /\ M # NoCache => OrderAt(call.n)

\* MoveToTail leaves what is before the icb in place and shifts the rest.
LEMMA TailShifts ==
    ASSUME NEW q, IsPermutation(q), NEW j \in Slots, NEW k \in Slots, k > j
    PROVE  MoveToTail(q, q[j])[k - 1] = q[k]
<1> DEFINE p == CHOOSE x \in Slots : q[x] = q[j]
<1>1. p = j
  BY DEF IsPermutation
<1>2. k - 1 \in Slots /\ ~ (k - 1 < j) /\ k - 1 < NrBlocks /\ (k - 1) + 1 = k
  BY SizeAssumption DEF Slots
<1>3. MoveToTail(q, q[j]) = [x \in Slots |-> IF x < p THEN q[x]
                         ELSE IF x < NrBlocks THEN q[x + 1] ELSE q[j]]
  BY DEF MoveToTail
<1> HIDE DEF p
<1>. QED BY <1>1, <1>2, <1>3

\* A block of the request that goes to the tail follows those before it.
LEMMA TailGrows ==
    ASSUME Shape, Stepping, call.n <= NrBlocks, AtTail(Here),
           NEW j \in Slots, j <= NrBlocks - Here,
           lru' = [lru EXCEPT ![M] = MoveToTail(@, lru[M][j])],
           UNCHANGED <<cache, call>>,
           lru[M][j] \in tree'[M], blkno'[M][lru[M][j]] = Blk(Here),
           \A s \in tree[M] : s # lru[M][j] =>
               s \in tree'[M] /\ blkno'[M][s] = blkno[M][s]
    PROVE  \A p \in 0 .. Here :
               LET s == lru'[M][(NrBlocks - (Here + 1)) + 1 + p]
               IN  s \in tree'[M] /\ blkno'[M][s] = Blk(p)
<1>1. /\ M \in Caches /\ Here \in Nat /\ Here < call.n /\ call.n \in Nat
      /\ NrBlocks \in Nat
  BY Looping, Running, SizeAssumption DEF Stepping
<1> DEFINE q == lru[M]
<1>2. IsPermutation(q)
  BY <1>1 DEF Shape, Lists
<1>3. lru'[M] = MoveToTail(q, q[j])
  BY <1>1 DEF Shape, TypeOK
<1>4. q[j] \in Slots
  BY <1>2 DEF IsPermutation
<1>5. ASSUME NEW p \in 0 .. Here
      PROVE  LET s == lru'[M][(NrBlocks - (Here + 1)) + 1 + p]
             IN  s \in tree'[M] /\ blkno'[M][s] = Blk(p)
  <2>1. CASE p = Here
    <3>1. (NrBlocks - (Here + 1)) + 1 + p = NrBlocks
      BY <1>1, <2>1
    <3>2. lru'[M][NrBlocks] = q[j]
      BY <1>2, <1>3, <1>4, TailPermutation
    <3>. QED BY <2>1, <3>1, <3>2
  <2>2. CASE p # Here
    <3> DEFINE k == (NrBlocks - Here) + 1 + p
    <3>1. /\ p \in 0 .. Here - 1 /\ k \in Slots /\ k > j
          /\ (NrBlocks - (Here + 1)) + 1 + p = k - 1
      BY <1>1, <2>2 DEF Slots
    <3>2. q[k] \in tree[M] /\ blkno[M][q[k]] = Blk(p)
      BY <3>1 DEF AtTail
    <3>2a. k # j
      BY <3>1, SizeAssumption DEF Slots
    <3> HIDE DEF k
    <3>3. q[k] # q[j]
      BY <1>2, <3>1, <3>2a DEF IsPermutation
    <3>4. lru'[M][k - 1] = q[k]
      BY <1>2, <1>3, <3>1, TailShifts
    <3>. QED BY <3>1, <3>2, <3>3, <3>4
  <2>. QED BY <2>1, <2>2
<1>. QED BY <1>5

\* A block found in the cache moves to its end of the list.
LEMMA OrderReadHit ==
    ASSUME Shape, TreeInv, OrderInv, ReadHit
    PROVE  OrderInv'
<1>1. /\ Stepping /\ pc = "sync" /\ pc' = pc /\ call.op = "read" /\ i' = i + 1
      /\ UNCHANGED <<tree, blkno, call, off, cache>>
  BY DEF ReadHit, Stepping
<1>2. PICK s \in Lookup(M, Blk(Here)) : Seen(M, s)
  BY DEF ReadHit
<1>3. /\ M \in Caches /\ Here \in Nat /\ Here \in Pos /\ Here \in 0 .. call.n - 1
      /\ call.n \in Nat /\ NrBlocks \in Nat /\ Here' = Here + 1 /\ M' = M
  BY <1>1, Looping, Running, SizeAssumption DEF Here, M
<1>4. s \in tree[M] /\ s \in Slots /\ blkno[M][s] = Blk(Here)
  BY <1>3 DEF Lookup, Shape, TypeOK
<1>5. IsPermutation(lru[M]) /\ lru \in [Caches -> [Slots -> Slots]]
  BY <1>3 DEF Shape, Lists, TypeOK
<1>6. CASE call.nocache
  <2>1. lru'[M][1] = s
    BY <1>2, <1>3, <1>4, <1>5, <1>6, HeadPermutation DEF Seen
  <2>2. blkno'[M][lru'[M][1]] = Blk(Here)
    BY <1>1, <1>4, <2>1
  <2>. QED BY <1>1, <1>3, <1>6, <2>2 DEF OrderInv, OrderAt, AtHead, Victim, Blk, M
<1>7. CASE ~ call.nocache
  <2> SUFFICES ASSUME call.n <= NrBlocks PROVE AtTail(Here)'
    BY <1>1, <1>7 DEF OrderInv, OrderAt
  <2>1. AtTail(Here)
    BY <1>1, <1>7 DEF OrderInv, OrderAt
  <2>2. PICK j \in Slots : lru[M][j] = s
    BY <1>4, <1>5 DEF IsPermutation
  <2>3. j <= NrBlocks - Here
    <3>1. SUFFICES ASSUME ~ (j <= NrBlocks - Here) PROVE FALSE
      OBVIOUS
    <3> DEFINE p == j - (NrBlocks - Here) - 1
    <3>2. p \in 0 .. Here - 1 /\ (NrBlocks - Here) + 1 + p = j
      <4>1. j \in Int /\ j <= NrBlocks
        BY <1>3 DEF Slots
      <4>. QED BY <1>3, <3>1, <4>1
    <3>3. Blk(p) = Blk(Here)
      BY <1>4, <2>1, <2>2, <3>2 DEF AtTail
    <3>4. p \in Pos
      BY <1>3, <3>2, SizeAssumption DEF Pos
    <3> HIDE DEF p
    <3>5. p = Here
      BY <1>1, <1>3, <3>3, <3>4, Distinct
    <3>. QED BY <1>3, <3>2, <3>5
  <2>4. lru' = [lru EXCEPT ![M] = MoveToTail(@, lru[M][j])]
    BY <1>2, <1>7, <2>2 DEF Seen
  <2>5. \A p \in 0 .. Here :
            LET t == lru'[M][(NrBlocks - (Here + 1)) + 1 + p]
            IN  t \in tree'[M] /\ blkno'[M][t] = Blk(p)
    BY <1>1, <1>4, <2>1, <2>2, <2>3, <2>4, TailGrows
  <2>6. (Here + 1) - 1 = Here
    BY <1>3
  <2>. QED BY <1>1, <1>3, <2>5, <2>6 DEF AtTail, Blk
<1>. QED BY <1>6, <1>7

\* A block that steals a buffer takes that of the first icb, which holds none
\* of the blocks read so far.
LEMMA OrderSteal ==
    ASSUME Shape, TreeInv, OrderInv, Steal
    PROVE  OrderInv'
<1>1. /\ Stepping /\ pc = "sync" /\ UNCHANGED <<call, off, cache>> /\ ~ call.nocache
      /\ MustInsert
  BY DEF Steal, Stepping
<1>2. CASE call.op # "read" \/ pc' = "abort"
  BY <1>1, <1>2 DEF OrderInv, Steal
<1>3. CASE call.op = "read" /\ pc' # "abort"
  <2>1. /\ M \in Caches /\ Here \in Nat /\ Here \in 0 .. call.n - 1
        /\ call.n \in Nat /\ NrBlocks \in Nat \ {0} /\ M' = M
        /\ Blk(Here) \in Requested
    BY <1>1, Looping, Running, SizeAssumption DEF Here, M
  <2> DEFINE s == Victim(M)
  <2>2. /\ i' = i + 1 /\ pc' = pc /\ Seen(M, s)
        /\ tree' = [tree EXCEPT ![M] = Disconnect(M, s) \cup {s}]
        /\ blkno' = [blkno EXCEPT ![M][s] = Blk(Here)]
    BY <1>3 DEF Steal
  <2>3. Here' = Here + 1
    BY <1>1, <2>2, Looping DEF Here
  <2>4. /\ lru \in [Caches -> [Slots -> Slots]] /\ tree \in [Caches -> SUBSET Slots]
        /\ blkno \in [Caches -> [Slots -> Requested \cup {NoBlk}]]
    BY DEF Shape, TypeOK
  <2>5. 1 \in Slots /\ s = lru[M][1] /\ s \in Slots
    BY <2>1, <2>4 DEF Slots, Victim
  <2> SUFFICES ASSUME call.n <= NrBlocks PROVE AtTail(Here)'
    BY <1>1, <1>3, <2>2 DEF OrderInv, OrderAt
  <2>6. AtTail(Here) /\ 1 <= NrBlocks - Here
    BY <1>1, <1>3, <2>1 DEF OrderInv, OrderAt
  <2>7. lru' = [lru EXCEPT ![M] = MoveToTail(@, lru[M][1])]
    BY <1>1, <2>2, <2>5 DEF Seen
  <2> HIDE DEF s
  <2>8. /\ lru[M][1] \in tree'[M] /\ blkno'[M][lru[M][1]] = Blk(Here)
        /\ \A t \in tree[M] : t # lru[M][1] =>
               t \in tree'[M] /\ blkno'[M][t] = blkno[M][t]
    BY <2>1, <2>2, <2>4, <2>5 DEF Disconnect
  <2>9. \A p \in 0 .. Here :
            LET t == lru'[M][(NrBlocks - (Here + 1)) + 1 + p]
            IN  t \in tree'[M] /\ blkno'[M][t] = Blk(p)
    BY <1>1, <2>5, <2>6, <2>7, <2>8, TailGrows
  <2>10. (Here + 1) - 1 = Here
    BY <2>1
  <2>. QED BY <1>1, <2>1, <2>3, <2>9, <2>10 DEF AtTail, Blk
<1>. QED BY <1>2, <1>3

\* No other step disturbs the order that a running read builds up.
LEMMA OrderStep ==
    Shape /\ TreeInv /\ OrderInv /\ [Next]_vars => OrderInv'
<1> SUFFICES ASSUME Shape, TreeInv, OrderInv, [Next]_vars PROVE OrderInv'
  OBVIOUS
<1>1. CASE UNCHANGED vars
  <2>1. UNCHANGED <<lru, tree, blkno, call, off, i, cache, pc, err>>
    BY <1>1 DEF vars
  <2>2. M' = M /\ Here' = Here
    BY <2>1 DEF M, Here
  <2>3. OrderAt(Here) => OrderAt(Here)'
    BY <2>1, <2>2 DEF OrderAt, AtTail, AtHead, Cached, Lookup, Victim, Blk
  <2>4. OrderAt(off) => OrderAt(off)'
    BY <2>1, <2>2 DEF OrderAt, AtTail, AtHead, Cached, Lookup, Victim, Blk
  <2>5. OrderAt(call.n) => OrderAt(call.n)'
    BY <2>1, <2>2 DEF OrderAt, AtTail, AtHead, Cached, Lookup, Victim, Blk
  <2>. QED BY <2>1, <2>2, <2>3, <2>4, <2>5 DEF OrderInv
<1>2. CASE pc' \notin {"sync", "hunk", "done"}
  BY <1>2 DEF OrderInv
<1>3. CASE Next /\ ~ Step
  <2>1. CASE pc' # "hunk"
    BY <1>2, <1>3, <2>1 DEF Next, Open, InitCache, ShareCache, DestroyCache, Close,
       SetNocache, StartRead, StartWrite, StartVec, Start
  <2>2. CASE pc' = "hunk"
    <3>1. off' = 0
      BY <1>3, <2>2 DEF Next, Open, InitCache, ShareCache, DestroyCache, Close,
         SetNocache, StartRead, StartWrite, StartVec, Start, Shape, CallShape
    <3>. QED BY <2>2, <3>1 DEF OrderInv, OrderAt, AtTail, AtHead
  <2>. QED BY <2>1, <2>2
<1>4. CASE RawRead
  BY <1>4 DEF RawRead, OrderInv, Shape, CallShape, M
<1>5. CASE ReadHunk
  <2>1. /\ pc = "hunk" /\ i' = 0 /\ off \in Nat
        /\ pc' = "sync" \/ (pc' = "done" /\ err')
        /\ UNCHANGED <<lru, tree, blkno, call, off, cache>>
    BY <1>5 DEF ReadHunk, Shape, TypeOK
  <2>2. Here' = off /\ M' = M
    BY <2>1 DEF Here, M
  <2>3. OrderAt(off) => OrderAt(Here)'
    BY <2>1, <2>2 DEF OrderAt, AtTail, AtHead, Cached, Lookup, Victim, Blk
  <2>. QED BY <2>1, <2>3 DEF OrderInv
<1>6. CASE ReadEnd
  <2>1. /\ pc = "hunk" /\ pc' = "done" /\ off = call.n
        /\ UNCHANGED <<lru, tree, blkno, call, cache>>
    BY <1>6 DEF ReadEnd
  <2>2. M' = M
    BY <2>1 DEF M
  <2>3. OrderAt(off) => OrderAt(call.n)'
    BY <2>1, <2>2 DEF OrderAt, AtTail, AtHead, Cached, Lookup, Victim, Blk
  <2>. QED BY <2>1, <2>3 DEF OrderInv
<1>7. CASE WriteBlocks \/ VecReadBlocks
  <2>1. call' = call /\ call.op # "read" /\ pc' # "hunk"
    BY <1>7 DEF WriteBlocks, VecReadBlocks, Shape, CallShape
  <2>. QED BY <2>1 DEF OrderInv
<1>8. CASE ReadSync
  BY <1>2, <1>8, OrderReadHit DEF ReadSync, ReadLost
<1>9. CASE StoreHit
  BY <1>9 DEF StoreHit, Stepping, OrderInv
<1>10. CASE Skip
  <2>1. /\ Stepping /\ pc = "sync" /\ MustInsert /\ call.nocache /\ i' = i + 1
        /\ UNCHANGED <<lru, tree, blkno, call, off, cache, pc>>
    BY <1>10 DEF Skip, Stepping
  <2>2. Here' = Here + 1 /\ Here \in Nat /\ (Here + 1) - 1 = Here
    BY <2>1, Looping DEF Here
  <2>3. ~ Cached(M, Blk(Here))
    BY <2>1 DEF MustInsert
  <2>4. \A p \in 0 .. Here : p \in 0 .. Here - 1 \/ p = Here
    BY <2>2
  <2>5. AtHead(Here) => AtHead(Here)'
    BY <2>1, <2>2, <2>3, <2>4 DEF AtHead, Cached, Lookup, Victim, Blk, M
  <2>. QED BY <2>1, <2>5 DEF OrderInv, OrderAt
<1>11. CASE Steal
  BY <1>11, OrderSteal
<1>12. CASE SyncEnd
  <2>1. /\ pc = "sync" /\ i = todo /\ UNCHANGED <<lru, tree, blkno, call, cache>>
        /\ IF call.op = "read" THEN pc' = "hunk" /\ off' = off + todo ELSE pc' = "done"
    BY <1>12 DEF SyncEnd
  <2>2. call.op = "read" => OrderAt(off + i)
    BY <2>1 DEF OrderInv, Here
  <2>3. CASE call.op = "read"
    <3>1. off' = off + i /\ M' = M
      BY <2>1, <2>3 DEF M
    <3>2. OrderAt(off + i) => OrderAt(off)'
      BY <2>1, <3>1 DEF OrderAt, AtTail, AtHead, Cached, Lookup, Victim, Blk
    <3>. QED BY <2>1, <2>2, <2>3, <3>2 DEF OrderInv
  <2>. QED BY <2>1, <2>3 DEF OrderInv
<1>13. CASE Return
  BY <1>2, <1>13 DEF Return
<1>14. CASE Step
  BY <1>4, <1>5, <1>6, <1>7, <1>8, <1>9, <1>10, <1>11, <1>12, <1>13, <1>14 DEF Step
<1>. QED BY <1>1, <1>3, <1>14

\* The order of steals is what both kinds of readers rely on, for every cache
\* size and every hunk size: a cached read never steals the buffer of a block
\* it has just read, and an uncached one leaves its own block as the next victim
\* (io_cache_seen, io_cache_unsee, io_cache_pop_lru).
THEOREM StealsInOrder == Spec => []EvictionOrder
<1>1. Init => OrderInv
  BY DEF Init, OrderInv
<1>2. Shape /\ OrderInv => EvictionOrder
  <2> SUFFICES ASSUME Shape, OrderInv PROVE EvictionOrder
    OBVIOUS
  <2>1. WorkingSetCached
    <3> SUFFICES ASSUME pc = "done", call.op = "read", ~ err, ~ call.nocache,
                        M # NoCache, call.n <= NrBlocks, NEW p \in 0 .. call.n - 1
                 PROVE  Cached(M, Blk(p))
      BY DEF WorkingSetCached
    <3>. QED BY DEF OrderInv, OrderAt, AtTail, Cached, Lookup
  <2>2. NocacheStolenFirst
    BY DEF NocacheStolenFirst, OrderInv, OrderAt, AtHead
  <2>. QED BY <2>1, <2>2 DEF EvictionOrder
<1>3. Inv => Shape /\ TreeInv
  BY DEF Inv
<1>. QED BY <1>1, <1>2, <1>3, OrderStep, CacheInvariant, PTL DEF Spec

-----------------------------------------------------------------------------
(* BlockCache implements BlockDevice, as long as none of its faults        *)
(* happens: the cache is invisible to whoever reads and writes through a   *)
(* channel.  First what the absence of faults adds to the invariant.       *)

\* No cached copy that a channel can reach was left behind, and a running write
\* goes through the only cache in use.
NothingStale ==
    /\ bad = {}
    /\ \A c \in Chans : cache[c] # NoCache => stale[cache[c]] = {}
    /\ pc = "write" => \A c \in Chans : cache[c] \in {NoCache, M}

\* A read touches no part of the caller's buffer behind its last block.
TailUntouched ==
    pc # "idle" /\ call.op # "write" =>
        \A p \in Pos : p >= call.n => data[p] = Garbage

FaultFree == NothingStale /\ TailUntouched

\* A new cache holds nothing, so nothing stale.
LEMMA FaultFreeInit == Init => FaultFree
BY DEF Init, FaultFree, NothingStale, TailUntouched

\* Calls of the application between two transfers.
LEMMA FaultFreeIdle ==
    ASSUME Faults = {}, Inv, UseInv, NothingStale, Next, ~ Step
    PROVE  NothingStale'
<1>0. /\ cache \in [Chans -> Caches \cup {NoCache}]
      /\ stale \in [Caches -> SUBSET Requested]
  BY DEF Inv, Shape, TypeOK
<1>1. ASSUME NEW c \in Chans, Open(c) \/ DestroyCache(c) \/ Close(c) \/ SetNocache(c)
      PROVE  NothingStale'
  <2>1. /\ cache' = cache \/ cache' = [cache EXCEPT ![c] = NoCache]
        /\ UNCHANGED <<stale, bad, pc>> /\ pc = "idle"
    BY <1>1 DEF Open, DestroyCache, Close, SetNocache, DropCache
  <2>. QED BY <1>0, <2>1 DEF NothingStale
<1>2. ASSUME NEW c \in Chans, NEW m \in Caches, InitCache(c, m)
      PROVE  NothingStale'
  <2>1. /\ cache' = [cache EXCEPT ![c] = m] /\ stale' = [stale EXCEPT ![m] = {}]
        /\ UNCHANGED <<bad, pc>> /\ pc = "idle"
    BY <1>2 DEF InitCache
  <2>. QED BY <1>0, <2>1 DEF NothingStale
<1>3. ASSUME NEW c \in Chans, NEW d \in Chans, ShareCache(c, d)
      PROVE  NothingStale'
  <2>1. /\ cache' = [cache EXCEPT ![d] = cache[c]] /\ cache[c] # NoCache
        /\ UNCHANGED <<stale, bad, pc>> /\ pc = "idle"
    BY <1>3 DEF ShareCache
  <2>. QED BY <1>0, <2>1 DEF NothingStale
<1>4. ASSUME NEW c \in Chans, NEW b, NEW n, NEW f, StartRead(c, b, n, f)
      PROVE  NothingStale'
  BY <1>4 DEF StartRead, Start, NothingStale
<1>5. ASSUME NEW c \in Chans, NEW b, NEW n, NEW f, NEW d, StartWrite(c, b, n, f, d)
      PROVE  NothingStale'
  <2>1. /\ \A x \in open : cache[x] \in {NoCache, cache[c]}
        /\ UNCHANGED <<cache, stale, bad>> /\ call'.chan = c
    BY <1>5 DEF StartWrite, Start
  <2>2. \A x \in Chans : cache[x] \in {NoCache, cache[c]}
    BY <2>1 DEF UseInv
  <2>3. M' = cache[c]
    BY <2>1 DEF M
  <2>. QED BY <2>1, <2>2, <2>3 DEF NothingStale
<1>6. ASSUME NEW c \in Chans, NEW n, NEW u, StartVec(c, n, u)
      PROVE  NothingStale'
  BY <1>6 DEF StartVec, Start, NothingStale
<1>. QED BY <1>1, <1>2, <1>3, <1>4, <1>5, <1>6 DEF Next

\* A step of a running call leaves no stale copy behind.
LEMMA FaultFreeRunning ==
    ASSUME Faults = {}, Inv, UseInv, NothingStale, Step
    PROVE  NothingStale'
<1>0. /\ cache \in [Chans -> Caches \cup {NoCache}]
      /\ stale \in [Caches -> SUBSET Requested]
  BY DEF Inv, Shape, TypeOK
<1>1. cache' = cache /\ pc' # "write"
  BY DEF Step, ReadSync, RawRead, ReadHunk, ReadEnd, WriteBlocks, VecReadBlocks,
     ReadHit, ReadLost, StoreHit, Skip, Steal, SyncEnd, Return, Stepping
<1>2. CASE stale' = stale /\ bad' = {}
  BY <1>0, <1>1, <1>2 DEF NothingStale
<1>3. CASE RawRead \/ ReadHunk \/ ReadEnd \/ ReadSync \/ Skip \/ SyncEnd \/ Return
  BY <1>2, <1>3 DEF RawRead, ReadHunk, ReadEnd, ReadSync, ReadHit, ReadLost,
     Skip, SyncEnd, Return, NothingStale
<1>4. CASE VecReadBlocks
  BY <1>2, <1>4 DEF VecReadBlocks, NothingStale
<1>5. CASE WriteBlocks
  <2>1. PICK k \in 0 .. call.n :
          stale' = [m \in Caches |-> stale[m] \cup {} \cup
                      (IF m = M THEN {} ELSE {Blk(p) : p \in 0 .. k - 1})]
    BY <1>5 DEF WriteBlocks
  <2>2. bad' = bad /\ \A c \in Chans : cache[c] \in {NoCache, M}
    BY <1>5 DEF WriteBlocks, NothingStale
  <2>. QED BY <1>0, <1>1, <2>1, <2>2 DEF NothingStale
<1>6. CASE StoreHit \/ Steal
  <2>1. bad' = bad /\ bad = {}
    BY <1>6 DEF StoreHit, Steal, NothingStale
  <2>2. \/ stale' = stale
        \/ stale' = [stale EXCEPT ![M] = stale[M] \ {Blk(Here)}]
    BY <1>6, <2>1 DEF StoreHit, Steal, Refreshed
  <2>3. \A m \in Caches : stale'[m] \subseteq stale[m]
    BY <1>0, <2>2
  <2>. QED BY <1>0, <1>1, <2>1, <2>3 DEF NothingStale
<1>. QED BY <1>3, <1>4, <1>5, <1>6 DEF Step

\* No step of a read writes behind the blocks that were asked for.
LEMMA TailStep ==
    ASSUME Inv, TailUntouched, [Next]_vars
    PROVE  TailUntouched'
<1>1. CASE UNCHANGED vars
  BY <1>1 DEF vars, TailUntouched
<1>2. CASE UNCHANGED <<pc, call, data>>
  BY <1>2 DEF TailUntouched
<1>3. ASSUME NEW op, NEW c, NEW n, NEW blks, NEW f, NEW d, NEW STATE first,
             Start(op, c, n, blks, f, d, first), op = "write" \/ d = Untouched
      PROVE  TailUntouched'
  BY <1>3 DEF Start, TailUntouched, Untouched
<1>4. CASE Next /\ ~ Step
  <2>1. CASE \E c \in Chans :
               \/ Open(c) \/ DestroyCache(c) \/ Close(c) \/ SetNocache(c)
               \/ \E m \in Caches : InitCache(c, m)
               \/ \E d \in Chans : ShareCache(c, d)
    BY <1>2, <2>1 DEF Open, DestroyCache, Close, SetNocache, InitCache, ShareCache
  <2>. QED BY <1>3, <1>4, <2>1 DEF Next, StartRead, StartWrite, StartVec
<1>5. CASE Return
  BY <1>5 DEF Return, TailUntouched
<1>6. CASE ReadEnd \/ WriteBlocks \/ ReadLost \/ StoreHit \/ Skip \/ Steal \/ SyncEnd
  BY <1>6 DEF ReadEnd, WriteBlocks, ReadLost, StoreHit, Skip, Steal, SyncEnd,
     Stepping, TailUntouched
<1>7. CASE RawRead \/ ReadHunk \/ VecReadBlocks \/ ReadHit
  <2>1. pc # "idle" /\ call' = call
    BY <1>7 DEF RawRead, ReadHunk, VecReadBlocks, ReadHit, Stepping
  <2>2. call.n \in Nat
    BY <2>1, Running DEF Inv
  <2>3. SUFFICES ASSUME call.op # "write", NEW p \in Pos, p >= call.n
                 PROVE  data'[p] = Garbage
    BY <2>1 DEF TailUntouched
  <2>4. data[p] = Garbage /\ p \in Nat
    BY <2>1, <2>3, SizeAssumption DEF TailUntouched, Pos
  <2>5. CASE RawRead
    BY <2>2, <2>3, <2>4, <2>5 DEF RawRead, Transfer
  <2>6. CASE ReadHunk
    <3>1. off + todo' <= call.n /\ off \in Nat /\ todo' \in Nat /\ good' \in Nat
      BY <2>2, <2>6 DEF ReadHunk, Inv, Shape, TypeOK
    <3>2. ~ (p \in off + good' .. (off + todo') - 1)
      <4>1. \A n, h, l, q \in Int : q >= n /\ h <= n => ~ (q \in l .. h - 1)
        OBVIOUS
      <4>2. {call.n, off + todo', off + good', p} \subseteq Int
        BY <2>2, <2>4, <3>1
      <4>. QED BY <2>3, <3>1, <4>1, <4>2
    <3>3. UNCHANGED data \/ Transfer(off + good', off + todo')
      BY <2>6 DEF ReadHunk
    <3>. QED BY <2>3, <2>4, <3>2, <3>3 DEF Transfer
  <2>7. CASE VecReadBlocks
    BY <2>2, <2>3, <2>4, <2>7 DEF VecReadBlocks
  <2>8. CASE ReadHit
    <3>1. Here < call.n
      BY <2>2, <2>8, Looping DEF ReadHit, Inv
    <3>2. data \in [Pos -> Contents]
      BY DEF Inv, Shape, TypeOK
    <3>3. Here # p
      BY <2>2, <2>3, <2>4, <3>1
    <3>. QED BY <2>3, <2>4, <2>8, <3>2, <3>3 DEF ReadHit
  <2>. QED BY <1>7, <2>5, <2>6, <2>7, <2>8
<1>8. CASE Step
  BY <1>5, <1>6, <1>7, <1>8 DEF Step, ReadSync
<1>. QED BY <1>1, <1>4, <1>8

\* Without faults no copy is stale, at any time.
LEMMA FaultFreeInvariant ==
    ASSUME Faults = {}
    PROVE  Spec => []FaultFree
<1>1. Inv /\ UseInv /\ FaultFree /\ [Next]_vars => FaultFree'
  <2> SUFFICES ASSUME Inv, UseInv, FaultFree, [Next]_vars PROVE FaultFree'
    OBVIOUS
  <2>1. CASE UNCHANGED vars
    BY <2>1 DEF vars, FaultFree, NothingStale, TailUntouched, M
  <2>2. CASE Next
    BY <2>2, FaultFreeIdle, FaultFreeRunning, TailStep DEF FaultFree
  <2>. QED BY <2>1, <2>2
<1>. QED BY <1>1, FaultFreeInit, CacheInvariant, UseInvariant, PTL DEF Spec

-----------------------------------------------------------------------------
(* Every step is a step of the device, or none.                            *)

\* The blocks of the call as they are on the device, and nothing behind them.
ReadResult == [p \in Pos |-> IF p < call.n THEN disk[call.blks[p]] ELSE Garbage]

\* The caller's buffer holds exactly that when a read reports success.
LEMMA SuccessfulRead ==
    Inv /\ FaultFree /\ pc = "done" /\ call.op # "write" /\ ~ err => data = ReadResult
<1> SUFFICES ASSUME Inv, FaultFree, pc = "done", call.op # "write", ~ err
             PROVE  data = ReadResult
  OBVIOUS
<1>1. call.n \in Nat /\ call.chan \in Chans /\ M \in Caches \cup {NoCache}
  BY Running DEF Inv
<1>2. data \in [Pos -> Contents] /\ cache \in [Chans -> Caches \cup {NoCache}]
  BY DEF Inv, Shape, TypeOK
<1>3. ASSUME NEW p \in Pos
      PROVE  data[p] = IF p < call.n THEN disk[call.blks[p]] ELSE Garbage
  <2>1. p \in Nat
    BY SizeAssumption DEF Pos
  <2>2. CASE p < call.n
    <3>1. p \in 0 .. call.n - 1
      BY <1>1, <2>1, <2>2
    <3>2. p \notin bad /\ (M # NoCache => Blk(p) \notin stale[M])
      BY <1>1 DEF FaultFree, NothingStale, M
    <3>. QED BY <2>2, <3>1, <3>2 DEF Inv, ReadReturnsDisk, Blk
  <2>3. CASE ~ (p < call.n)
    BY <1>1, <2>1, <2>3 DEF FaultFree, TailUntouched
  <2>. QED BY <2>2, <2>3
<1>. QED BY <1>2, <1>3 DEF ReadResult

\* The end of a read, with its success or its failure, is the device's.
LEMMA ReadDoneStep ==
    ASSUME Inv, Inv', FaultFree', pc \notin {"idle", "done"}, pc' = "done",
           call.op # "write", UNCHANGED <<disk, call>>
    PROVE  Device!ReadDone
<1>1. CASE ~ err'
  <2>1. (Inv /\ FaultFree /\ pc = "done" /\ call.op # "write" /\ ~ err)'
            => (data = ReadResult)'
    BY SuccessfulRead, PTL
  <2>2. data' = [p \in Pos |-> IF p < call.n THEN disk[call.blks[p]] ELSE Garbage]
    BY <1>1, <2>1 DEF ReadResult
  <2>. QED BY <1>1, <2>2 DEF Device!ReadDone, Device!Pos, Pos, Done
<1>2. CASE err'
  BY <1>2 DEF Device!ReadDone, Done, Untouched, Device!Untouched, Pos, Device!Pos
<1>3. err' \in BOOLEAN
  BY DEF Inv, Shape, TypeOK
<1>. QED BY <1>1, <1>2, <1>3

\* What reached the device of a write, whole blocks in order, is a prefix of
\* its argument (unix_io_write_block_full).
LEMMA StoreStep ==
    ASSUME Faults = {}, Inv, WriteBlocks
    PROVE  Device!Store
<1>1. pc = "write" /\ call.op = "write" /\ ~ err /\ pc' \in {"done", "sync"}
  BY DEF WriteBlocks, Inv, Shape, CallShape
<1>2. UNCHANGED <<call, data>>
  BY DEF WriteBlocks
<1>3. PICK k \in 0 .. call.n :
        /\ \A p \in 0 .. k - 1 : Blk(p) \in Blocks
        /\ disk' = [b \in Blocks |->
                      IF b \in {Blk(p) : p \in 0 .. k - 1} THEN data[b - Blk(0)]
                      ELSE disk[b]]
        /\ err' = (k < call.n)
  BY DEF WriteBlocks
<1>4. /\ call.n \in Nat /\ k \in Nat /\ k <= call.n
      /\ \A p \in 0 .. call.n - 1 : p \in Pos
      /\ \A p \in Pos : Blk(p) \in Requested
  BY <1>1, Running DEF Inv
<1>5. ASSUME NEW p \in 0 .. k - 1
      PROVE  p = Blk(p) - Blk(0)
  <2>1. p \in Pos /\ 0 \in Pos
    BY <1>4
  <2>2. Blk(p) - Blk(0) = p - 0
    BY <1>1, <2>1 DEF Inv, Shape, CallShape, Blk
  <2>. QED BY <2>2
<1>6. ASSUME NEW b \in Blocks, \E p \in 0 .. k - 1 : Blk(p) = b
      PROVE  (CHOOSE p \in 0 .. k - 1 : Blk(p) = b) = b - Blk(0)
  <2> DEFINE q == CHOOSE p \in 0 .. k - 1 : Blk(p) = b
  <2>1. q \in 0 .. k - 1 /\ Blk(q) = b
    BY <1>6
  <2> HIDE DEF q
  <2>2. q = Blk(q) - Blk(0)
    BY <1>5, <2>1
  <2>3. q = b - Blk(0)
    BY <2>1, <2>2
  <2>. QED BY <2>3 DEF q
<1>7. disk' = [b \in Blocks |->
                 IF \E p \in 0 .. k - 1 : call.blks[p] = b
                 THEN data[CHOOSE p \in 0 .. k - 1 : call.blks[p] = b] ELSE disk[b]]
  <2>1. ASSUME NEW b \in Blocks
        PROVE  (IF b \in {Blk(p) : p \in 0 .. k - 1} THEN data[b - Blk(0)] ELSE disk[b])
               = (IF \E p \in 0 .. k - 1 : call.blks[p] = b
                  THEN data[CHOOSE p \in 0 .. k - 1 : call.blks[p] = b] ELSE disk[b])
    BY <1>6 DEF Blk
  <2>. QED BY <1>3, <2>1
<1>8. (~ err') = (k = call.n)
  <2>1. (k < call.n) = (k # call.n)
    BY <1>4
  <2>2. err' = (k # call.n)
    BY <1>3, <2>1
  <2>. QED BY <2>2
<1>. QED BY <1>1, <1>2, <1>4, <1>7, <1>8 DEF Device!Store, Device!Blocks, Blocks, Done

\* A call that starts is an invocation of the device.
LEMMA InvokeStep ==
    ASSUME Inv, NEW o \in {"read", "write", "vec"}, NEW c, NEW n \in 0 .. MaxCount,
           NEW blks \in [Pos -> Nat], NEW f, NEW d \in [Pos -> Contents],
           NEW STATE first, first \in {"raw", "hunk", "write", "vec"},
           Start(o, c, n, blks, f, d, first)
    PROVE  Device!Invoke
<1>1. /\ pc = "idle" /\ pc' = first /\ UNCHANGED <<disk, err>>
      /\ call'.op = o /\ call'.n = n /\ call'.blks = blks /\ data' = d
  BY DEF Start
<1>. QED BY <1>1 DEF Device!Invoke, Device!Pos, Pos, Device!Contents, Contents, Done,
     Device!Untouched, Untouched

\* The blocks of a call are numbers, whichever call it is.
LEMMA Arguments ==
    /\ \A b \in Blocks : Run(b) \in [Pos -> Nat]
    /\ Untouched \in [Pos -> Contents]
    /\ \A n \in 0 .. MaxVec : \A u \in [0 .. n - 1 -> Blocks] :
         [p \in Pos |-> IF p < n THEN u[p] ELSE 0] \in [Pos -> Nat]
    /\ \A n \in 0 .. MaxCount : \A d \in [0 .. n - 1 -> Data] :
         [p \in Pos |-> IF p < n THEN d[p] ELSE Garbage] \in [Pos -> Contents]
    /\ 0 .. MaxVec \subseteq 0 .. MaxCount
<1>1. \A n \in 0 .. MaxCount, p \in Pos : p < n => p \in 0 .. n - 1
  BY SizeAssumption DEF Pos
<1>2. 0 .. MaxVec \subseteq 0 .. MaxCount
  BY SizeAssumption
<1>3. \A b \in Blocks : Run(b) \in [Pos -> Nat]
  BY SizeAssumption DEF Run, Pos, Blocks
<1>4. Blocks \subseteq Nat
  BY SizeAssumption DEF Blocks
<1>5. Untouched \in [Pos -> Contents]
  BY DEF Untouched, Contents
<1>6. ASSUME NEW n \in 0 .. MaxVec, NEW u \in [0 .. n - 1 -> Blocks]
      PROVE  [p \in Pos |-> IF p < n THEN u[p] ELSE 0] \in [Pos -> Nat]
  BY <1>1, <1>2, <1>4
<1>7. ASSUME NEW n \in 0 .. MaxCount, NEW d \in [0 .. n - 1 -> Data]
      PROVE  [p \in Pos |-> IF p < n THEN d[p] ELSE Garbage] \in [Pos -> Contents]
  BY <1>1 DEF Contents
<1>. QED BY <1>2, <1>3, <1>5, <1>6, <1>7

\* Every step of a fault-free channel is a step of the plain device, or one
\* that the caller cannot see.
LEMMA DeviceStep ==
    ASSUME Faults = {}, Inv, Inv', FaultFree, FaultFree', [Next]_vars
    PROVE  [Device!Next]_(Device!vars)
<1>0. pc' # "abort" /\ (pc # "idle" => call.op \in {"read", "write", "vec"})
  BY Running DEF Inv, Coherence, NoAssertFails
<1> DEFINE Hidden == UNCHANGED Device!vars
<1>1. ASSUME UNCHANGED <<disk, pc, err>>,
             pc = "idle" \/ (call' = call /\ pc # "done" /\ (call.op = "write" => data' = data))
      PROVE  Hidden
  BY <1>1 DEF Device!vars, Done
<1>2. CASE UNCHANGED vars
  BY <1>2 DEF vars, Device!vars, Done
<1>3. CASE \E c \in Chans :
             \/ Open(c) \/ DestroyCache(c) \/ Close(c) \/ SetNocache(c)
             \/ \E m \in Caches : InitCache(c, m)
             \/ \E d \in Chans : ShareCache(c, d)
  BY <1>1, <1>3 DEF Open, DestroyCache, Close, SetNocache, InitCache, ShareCache
<1>4. ASSUME NEW c \in Chans, NEW b \in Blocks, NEW n \in 0 .. MaxCount,
             NEW f \in BOOLEAN, StartRead(c, b, n, f)
      PROVE  Device!Next
  BY <1>4, InvokeStep, Arguments DEF StartRead, Device!Next
<1>5. ASSUME NEW c \in Chans, NEW b \in Blocks, NEW n \in 0 .. MaxCount,
             NEW f \in BOOLEAN, NEW d \in [0 .. n - 1 -> Data],
             StartWrite(c, b, n, f, [p \in Pos |-> IF p < n THEN d[p] ELSE Garbage])
      PROVE  Device!Next
  BY <1>5, InvokeStep, Arguments DEF StartWrite, Device!Next
<1>6. ASSUME NEW c \in Chans, NEW n \in 0 .. MaxVec, NEW u \in [0 .. n - 1 -> Blocks],
             StartVec(c, n, [p \in Pos |-> IF p < n THEN u[p] ELSE 0])
      PROVE  Device!Next
  BY <1>6, InvokeStep, Arguments DEF StartVec, Device!Next
<1>7. CASE WriteBlocks
  BY <1>7, StoreStep DEF Device!Next
<1>8. ASSUME pc \notin {"idle", "done"}, pc' = "done",
             call.op # "write", UNCHANGED <<disk, call>>
      PROVE  Device!Next
  BY <1>8, ReadDoneStep DEF Device!Next
<1>9. CASE RawRead
  <2>1. call.op = "read"
    BY <1>9 DEF RawRead, Inv, Shape, CallShape
  <2>. QED BY <1>8, <1>9, <2>1 DEF RawRead
<1>10. CASE ReadEnd
  <2>1. call.op = "read"
    BY <1>10 DEF ReadEnd, Inv, Shape, CallShape
  <2>. QED BY <1>8, <1>10, <2>1 DEF ReadEnd
<1>11. CASE ReadHunk
  <2>1. call.op = "read" /\ pc = "hunk" /\ UNCHANGED <<disk, call>>
    BY <1>11 DEF ReadHunk, Inv, Shape, CallShape
  <2>2. CASE pc' = "sync" /\ UNCHANGED err
    BY <2>1, <2>2 DEF Device!vars, Done
  <2>. QED BY <1>8, <1>11, <2>1, <2>2 DEF ReadHunk
<1>12. CASE VecReadBlocks
  <2>1. call.op = "vec" /\ pc = "vec" /\ UNCHANGED <<disk, call>>
    BY <1>12 DEF VecReadBlocks, Inv, Shape, CallShape
  <2>2. CASE pc' = "sync" /\ UNCHANGED err
    BY <2>1, <2>2 DEF Device!vars, Done
  <2>. QED BY <1>8, <1>12, <2>1, <2>2 DEF VecReadBlocks
<1>13. CASE ReadSync
  BY <1>0, <1>1, <1>13 DEF ReadSync, ReadHit, ReadLost, Stepping
<1>14. CASE StoreHit \/ Skip \/ Steal
  BY <1>0, <1>1, <1>14 DEF StoreHit, Skip, Steal, Stepping
<1>15. CASE SyncEnd
  <2>1. UNCHANGED <<disk, call, data, err>> /\ pc = "sync"
    BY <1>15 DEF SyncEnd
  <2>2. CASE call.op = "read"
    <3>1. pc' = "hunk"
      BY <1>15, <2>2 DEF SyncEnd
    <3>. QED BY <2>1, <2>2, <3>1 DEF Device!vars, Done
  <2>3. CASE call.op = "vec"
    BY <1>8, <1>15, <2>1, <2>3 DEF SyncEnd
  <2>4. CASE call.op = "write"
    <3>1. pc' = "done"
      BY <1>15, <2>4 DEF SyncEnd
    <3>. QED BY <2>1, <2>4, <3>1 DEF Device!Next, Device!WriteDone, Done
  <2>. QED BY <1>0, <2>1, <2>2, <2>3, <2>4
<1>16. CASE Return
  BY <1>16 DEF Return, Device!Next, Device!Return, Device!NoOp, Device!Untouched,
     Untouched, Device!Pos, Pos, Done
<1>17. CASE Step
  BY <1>7, <1>9, <1>10, <1>11, <1>12, <1>13, <1>14, <1>15, <1>16, <1>17 DEF Step
<1>. QED BY <1>2, <1>3, <1>4, <1>5, <1>6, <1>17 DEF Next

\* A channel without faults is a plain array of blocks: every read, write and
\* vector read, with its failures, behaves as on the device itself, whatever is
\* cached, stolen, shared or skipped on the way (unix_io.c).
THEOREM CacheIsDevice ==
    ASSUME Faults = {}
    PROVE  Spec => IsBlockDevice
<1>1. Init => Device!Init
  BY DEF Init, Device!Init, Device!Blocks, Blocks, Device!NoOp, Device!Untouched,
     Untouched, Device!Pos, Pos, Done
<1>2. Inv /\ Inv' /\ FaultFree /\ FaultFree' /\ [Next]_vars
          => [Device!Next]_(Device!vars)
  BY DeviceStep
<1>. QED BY <1>1, <1>2, CacheInvariant, FaultFreeInvariant, PTL
         DEF Spec, IsBlockDevice, Device!Spec
=============================================================================
