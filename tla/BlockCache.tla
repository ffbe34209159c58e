----------------------------- MODULE BlockCache -----------------------------
(***************************************************************************)
(* The I/O channel of libcmfs and its block cache (libcmfs/unix_io.c).     *)
(*                                                                         *)
(* A channel is an open descriptor of one device.  A channel may own a     *)
(* cache (io_init_cache), share the cache of another channel               *)
(* (io_share_cache) or have none.  A cache is a fixed array of buffers,    *)
(* the icbs; each icb is on the LRU list, and the icbs that hold a block   *)
(* are also nodes of the lookup tree.  The library is single threaded: a   *)
(* call runs to its end before the next one starts, but a call is a loop   *)
(* over blocks that interleaves cache lookups, one transfer that may fail  *)
(* half-way, and steals of other blocks' buffers.  Each iteration is one   *)
(* action here.                                                            *)
(***************************************************************************)
EXTENDS Integers, FiniteSets

CONSTANTS
    Chans,      \* channels of the application
    Caches,     \* addresses at which a struct io_cache may be allocated
    NoCache,    \* io_cache == NULL
    NBlocks,    \* size of the device, in blocks
    NrBlocks,   \* ic_nr_blocks, the number of icbs of a cache
    Hunk,       \* one_meg_of_blocks()
    MaxCount,   \* bound: the longest request, in blocks
    MaxWrite,   \* bound: the longest write
    MaxVec,     \* bound: the most blocks of a vector read
    MaxUse,     \* bound: the most uses of a cache
    Data,       \* contents a caller may write to a block
    Garbage,    \* uninitialised memory, or half of one block and half of another
    Faults      \* what may happen, a subset of FaultKinds

\* "torn": a transfer stops inside a block.  "vec": an asynchronous read of a
\* vector fails after it was submitted.  "bypass": a block is written through
\* a channel that does not share the cache that holds it.
FaultKinds == {"torn", "vec", "bypass"}

ASSUME ChansAssumption == IsFiniteSet(Chans)
ASSUME CachesAssumption == NoCache \notin Caches
ASSUME SizeAssumption == /\ NBlocks \in Nat \ {0}
                         /\ NrBlocks \in Nat \ {0}
                         /\ Hunk \in Nat \ {0}
                         /\ MaxCount \in Nat
                         /\ MaxWrite \in 0 .. MaxCount
                         /\ MaxVec \in 0 .. MaxCount
                         /\ MaxUse \in Nat
ASSUME DataAssumption == Garbage \notin Data
ASSUME FaultsAssumption == Faults \subseteq FaultKinds

Blocks == 0 .. NBlocks - 1
Requested == 0 .. NBlocks + MaxCount - 1      \* a request may run off the end
Slots == 1 .. NrBlocks                        \* the icbs of a cache
Pos == 0 .. MaxCount - 1                      \* block positions in a request
Contents == Data \cup {Garbage}
NoBlk == -1                                   \* icb_blkno == UINT64_MAX

VARIABLES
    disk,      \* contents of the device
    open,      \* the channels that are open
    cache,     \* channel -> io_cache
    nocache,   \* channel -> io_nocache
    live,      \* the caches that are allocated
    use,       \* cache -> ic_use_count
    lru,       \* cache -> ic_lru, from ic_lru.next (the next victim) on
    tree,      \* cache -> the icbs linked into ic_lookup
    blkno,     \* cache -> icb -> icb_blkno
    buf,       \* cache -> icb -> *icb_buf
    pc,        \* where the running call is
    call,      \* its arguments
    data,      \* the caller's buffer
    off,       \* blocks of the call that earlier hunks have done
    todo,      \* blocks of this hunk; after a write, the completed blocks
    good,      \* good_blocks, the cached prefix of the hunk
    i,         \* loop counter of the loop that syncs cache and buffer
    err,       \* the call returns an error
    bad,       \* positions of a vector read whose I/O failed unnoticed
    stale      \* history: cache -> blocks whose cached copy a fault left behind

chanVars == <<open, cache, nocache>>
icVars == <<live, use>>
lookupVars == <<lru, tree, blkno>>
callVars == <<pc, call, data, off, todo, good, i, err, bad>>
vars == <<disk, open, cache, nocache, live, use, lru, tree, blkno, buf,
          pc, call, data, off, todo, good, i, err, bad, stale>>

Calls == [op : {"read", "write", "vec"}, chan : Chans, n : 0 .. MaxCount,
          blks : [Pos -> Requested], nocache : BOOLEAN]

TypeOK ==
    /\ disk \in [Blocks -> Contents]
    /\ open \in SUBSET Chans
    /\ cache \in [Chans -> Caches \cup {NoCache}]
    /\ nocache \in [Chans -> BOOLEAN]
    /\ live \in SUBSET Caches
    /\ use \in [Caches -> Int]
    /\ lru \in [Caches -> [Slots -> Slots]]
    /\ tree \in [Caches -> SUBSET Slots]
    /\ blkno \in [Caches -> [Slots -> Requested \cup {NoBlk}]]
    /\ buf \in [Caches -> [Slots -> Contents]]
    /\ pc \in {"idle", "raw", "hunk", "write", "vec", "sync", "done", "abort"}
    /\ call \in Calls \/ pc = "idle"
    /\ data \in [Pos -> Contents]
    /\ off \in 0 .. MaxCount
    /\ todo \in Nat
    /\ good \in 0 .. MaxCount
    /\ i \in 0 .. MaxCount
    /\ err \in BOOLEAN
    /\ bad \in SUBSET Pos
    /\ stale \in [Caches -> SUBSET Requested]

-----------------------------------------------------------------------------
(* The two indexes of a cache: the lookup tree and the LRU list.           *)

\* io_cache_lookup: the icb the tree holds for block b, as a set.
Lookup(m, b) == {s \in tree[m] : blkno[m][s] = b}

Cached(m, b) == Lookup(m, b) # {}

\* Mutant of MoveToTail: list_add_tail without list_del.
MoveToTailNoDel(q, s) == [q EXCEPT ![NrBlocks] = s]

\* list_del, then list_add_tail (io_cache_seen): s becomes the last victim.
MoveToTail(q, s) ==
    LET p == CHOOSE k \in Slots : q[k] = s
    IN  [k \in Slots |-> IF k < p THEN q[k]
                         ELSE IF k < NrBlocks THEN q[k + 1] ELSE s]

\* list_del, then list_add (io_cache_unsee): s becomes the next victim.
MoveToHead(q, s) ==
    LET p == CHOOSE k \in Slots : q[k] = s
    IN  [k \in Slots |-> IF k > p THEN q[k]
                         ELSE IF k > 1 THEN q[k - 1] ELSE s]

\* Mutant of Seen: a cached block goes to the end that is stolen first.
SeenToHead(m, s) == lru' = [lru EXCEPT ![m] = MoveToHead(@, s)]

\* The end of every loop body: unsee the icb if the call is uncached.
Seen(m, s) == lru' = [lru EXCEPT ![m] =
                        IF call.nocache THEN MoveToHead(@, s)
                                        ELSE MoveToTail(@, s)]

\* io_cache_pop_lru: the icb at ic_lru.next.
Victim(m) == lru[m][1]

\* Mutant of Disconnect: the node is not erased from the tree.
DisconnectNoErase(m, s) == tree[m]

\* io_cache_disconnect: what is left of the tree without icb s.
Disconnect(m, s) == IF blkno[m][s] # NoBlk THEN tree[m] \ {s} ELSE tree[m]

-----------------------------------------------------------------------------
(* Channels and the life of their caches.  All of these are calls of the   *)
(* application, made while no transfer is running.                         *)

NoCall == [op |-> "none"]
Untouched == [p \in Pos |-> Garbage]

Init ==
    /\ disk \in [Blocks -> Data]
    /\ open = {}
    /\ cache = [c \in Chans |-> NoCache]
    /\ nocache = [c \in Chans |-> FALSE]
    /\ live = {}
    /\ use = [m \in Caches |-> 0]
    /\ lru = [m \in Caches |-> [s \in Slots |-> s]]
    /\ tree = [m \in Caches |-> {}]
    /\ blkno = [m \in Caches |-> [s \in Slots |-> NoBlk]]
    /\ buf = [m \in Caches |-> [s \in Slots |-> Garbage]]
    /\ stale = [m \in Caches |-> {}]
    /\ pc = "idle" /\ call = NoCall /\ data = Untouched
    /\ off = 0 /\ todo = 0 /\ good = 0 /\ i = 0
    /\ err = FALSE /\ bad = {}

\* io_open: the channel is zeroed, so it has no cache and io_nocache is off.
Open(c) ==
    /\ pc = "idle"
    /\ c \notin open
    /\ open' = open \cup {c}
    /\ cache' = [cache EXCEPT ![c] = NoCache]
    /\ nocache' = [nocache EXCEPT ![c] = FALSE]
    /\ UNCHANGED <<disk, icVars, lookupVars, buf, callVars, stale>>

\* io_init_cache: the new cache replaces whatever io_cache pointed to, and
\* the use count of the old one stays as it was.
InitCache(c, m) ==
    /\ pc = "idle"
    /\ c \in open
    /\ m \notin live
    /\ live' = live \cup {m}
    /\ use' = [use EXCEPT ![m] = 1]
    /\ lru' = [lru EXCEPT ![m] = [s \in Slots |-> s]]
    /\ tree' = [tree EXCEPT ![m] = {}]
    /\ blkno' = [blkno EXCEPT ![m] = [s \in Slots |-> NoBlk]]
    /\ buf' = [buf EXCEPT ![m] = [s \in Slots |-> Garbage]]
    /\ stale' = [stale EXCEPT ![m] = {}]
    /\ cache' = [cache EXCEPT ![c] = m]
    /\ UNCHANGED <<disk, open, nocache, callVars>>

\* Mutant of ShareCache: the new user is not counted.
ShareCacheNoCount(from, to) ==
    /\ pc = "idle"
    /\ {from, to} \subseteq open
    /\ cache[from] # NoCache
    /\ cache[to] = NoCache
    /\ cache' = [cache EXCEPT ![to] = cache[from]]
    /\ UNCHANGED <<disk, open, nocache, icVars, lookupVars, buf, callVars, stale>>

\* io_share_cache: refused unless `from' has a cache and `to' has none.
ShareCache(from, to) ==
    /\ pc = "idle"
    /\ {from, to} \subseteq open
    /\ cache[from] # NoCache
    /\ cache[to] = NoCache
    /\ use[cache[from]] < MaxUse
    /\ cache' = [cache EXCEPT ![to] = cache[from]]
    /\ use' = [use EXCEPT ![cache[from]] = @ + 1]
    /\ UNCHANGED <<disk, open, nocache, live, lookupVars, buf, callVars, stale>>

\* io_destroy_cache's effect: drop one use, free the cache with the last one.
DropCache(c) ==
    LET m == cache[c]
    IN  /\ cache' = [cache EXCEPT ![c] = NoCache]
        /\ IF m = NoCache THEN UNCHANGED icVars
           ELSE /\ use' = [use EXCEPT ![m] = @ - 1]
                /\ live' = IF use[m] = 1 THEN live \ {m} ELSE live

DestroyCache(c) ==
    /\ pc = "idle"
    /\ c \in open
    /\ cache[c] # NoCache
    /\ DropCache(c)
    /\ UNCHANGED <<disk, open, nocache, lookupVars, buf, callVars, stale>>

\* io_close
Close(c) ==
    /\ pc = "idle"
    /\ c \in open
    /\ DropCache(c)
    /\ open' = open \ {c}
    /\ UNCHANGED <<disk, nocache, lookupVars, buf, callVars, stale>>

\* io_set_nocache
SetNocache(c) ==
    /\ pc = "idle"
    /\ c \in open
    /\ nocache' = [nocache EXCEPT ![c] = ~ @]
    /\ UNCHANGED <<disk, open, cache, icVars, lookupVars, buf, callVars, stale>>

-----------------------------------------------------------------------------
(* A call starts: io_read_block, io_write_block, their _nocache variants   *)
(* (the flag f forces nocache), and io_vec_read_blocks.                    *)

Start(op, c, n, blks, f, d, first) ==
    /\ pc = "idle"
    /\ c \in open
    /\ pc' = first
    /\ call' = [op |-> op, chan |-> c, n |-> n, blks |-> blks,
                nocache |-> f \/ nocache[c]]
    /\ data' = d
    /\ todo' = Hunk
    /\ UNCHANGED <<disk, chanVars, icVars, lookupVars, buf, off, good, i, err,
                   bad, stale>>

Run(b) == [p \in Pos |-> b + p]

StartRead(c, b, n, f) ==
    Start("read", c, n, Run(b), f, Untouched,
          IF cache[c] = NoCache THEN "raw" ELSE "hunk")

\* Without "bypass" nobody writes past a cache that some channel reads from.
StartWrite(c, b, n, f, d) ==
    /\ \/ "bypass" \in Faults
       \/ \A x \in open : cache[x] \in {NoCache, cache[c]}
    /\ Start("write", c, n, Run(b), f, d, "write")

\* The units of the vector, flattened to the list of blocks they cover.
StartVec(c, n, blks) == Start("vec", c, n, blks, FALSE, Untouched, "vec")

-----------------------------------------------------------------------------
(* The transfers.                                                          *)

M == cache[call.chan]                \* the cache of the running call
Blk(p) == call.blks[p]

\* Mutant of Transfer: a short read is taken for a complete one.
TransferShort(lo, hi) ==
    /\ \A p \in lo .. hi - 1 : Blk(p) \in Blocks
    /\ data' = [p \in Pos |-> IF p \in lo .. hi - 2 THEN disk[Blk(p)]
                                                    ELSE data[p]]

\* unix_io_read_block of the blocks at positions lo .. hi - 1.
Transfer(lo, hi) ==
    /\ \A p \in lo .. hi - 1 : Blk(p) \in Blocks
    /\ data' = [p \in Pos |-> IF p \in lo .. hi - 1 THEN disk[Blk(p)]
                                                    ELSE data[p]]

\* A channel without a cache reads the device.
RawRead ==
    /\ pc = "raw"
    /\ pc' = "done"
    /\ \/ Transfer(0, call.n) /\ UNCHANGED err
       \/ call.n > 0 /\ err' = TRUE /\ UNCHANGED data
    /\ UNCHANGED <<disk, chanVars, icVars, lookupVars, buf, call, off, todo,
                   good, i, bad, stale>>

\* io_cache_read_block's loop and the first half of io_cache_read_blocks:
\* count the cached prefix of the hunk and read the rest from the device.
ReadHunk ==
    /\ pc = "hunk"
    /\ off < call.n
    /\ todo' = IF todo > call.n - off THEN call.n - off ELSE todo
    /\ good' \in 0 .. todo'
    /\ \A p \in 0 .. good' - 1 : Cached(M, Blk(off + p))
    /\ good' < todo' => ~ Cached(M, Blk(off + good'))
    /\ i' = 0
    /\ \/ Transfer(off + good', off + todo') /\ pc' = "sync" /\ UNCHANGED err
       \/ good' < todo' /\ pc' = "done" /\ err' = TRUE /\ UNCHANGED data
    /\ UNCHANGED <<disk, chanVars, icVars, lookupVars, buf, call, off, bad,
                   stale>>

ReadEnd ==
    /\ pc = "hunk"
    /\ off = call.n
    /\ pc' = "done"
    /\ UNCHANGED <<disk, chanVars, icVars, lookupVars, buf, call, data, off,
                   todo, good, i, err, bad, stale>>

\* unix_io_write_block_full: `k' whole blocks reach the device; when that is
\* not all, the next one may be torn.  Only whole blocks are counted.
WriteBlocks ==
    /\ pc = "write"
    /\ \E k \in 0 .. call.n, torn \in BOOLEAN :
        /\ \A p \in 0 .. k - 1 : Blk(p) \in Blocks
        /\ torn => "torn" \in Faults /\ k < call.n /\ Blk(k) \in Blocks
        /\ LET whole == {Blk(p) : p \in 0 .. k - 1}
               half  == IF torn THEN {Blk(k)} ELSE {}
           IN  /\ disk' = [b \in Blocks |->
                             IF b \in whole THEN data[b - Blk(0)]
                             ELSE IF b \in half THEN Garbage ELSE disk[b]]
               /\ stale' = [m \in Caches |->
                              stale[m] \cup half \cup
                              (IF m = M THEN {} ELSE whole)]
        /\ todo' = k
        /\ err' = (k < call.n)
    /\ i' = 0
    /\ pc' = IF M = NoCache THEN "done" ELSE "sync"
    /\ UNCHANGED <<chanVars, icVars, lookupVars, buf, call, data, off, good,
                   bad>>

\* unix_vec_read_blocks: submission may fail, which is reported; the result
\* of a submitted read is never looked at, so a failed read leaves its part
\* of the buffer as it was and the call succeeds.
VecReadBlocks ==
    /\ pc = "vec"
    /\ \/ \E B \in SUBSET (0 .. call.n - 1) :
           /\ B # {} => "vec" \in Faults
           /\ \A p \in (0 .. call.n - 1) \ B : Blk(p) \in Blocks
           /\ bad' = B
           /\ data' = [p \in Pos |-> IF p \in (0 .. call.n - 1) \ B
                                     THEN disk[Blk(p)] ELSE data[p]]
           /\ todo' = call.n
           /\ pc' = IF M = NoCache THEN "done" ELSE "sync"
           /\ UNCHANGED err
       \/ /\ err' = TRUE
          /\ pc' = "done"
          /\ UNCHANGED <<bad, data, todo>>
    /\ i' = 0
    /\ UNCHANGED <<disk, chanVars, icVars, lookupVars, buf, call, off, good,
                   stale>>

-----------------------------------------------------------------------------
(* The loop that syncs the cache with the buffer, one block per step.      *)

Here == off + i                      \* the position the loop is at
Stepping == pc = "sync" /\ i < todo

\* What the fault-free part of the history says of the block at Here once its
\* icb holds the caller's buffer.
Refreshed == stale' = [stale EXCEPT ![M] = IF Here \in bad
                                           THEN @ \cup {Blk(Here)}
                                           ELSE @ \ {Blk(Here)}]

\* A read finds the block: copy it out if it was skipped by the transfer; if
\* it was read again with its neighbours, the cached copy is left alone.
ReadHit ==
    /\ Stepping
    /\ call.op = "read"
    /\ \E s \in Lookup(M, Blk(Here)) :
        /\ Seen(M, s)
        /\ data' = IF i < good THEN [data EXCEPT ![Here] = buf[M][s]] ELSE data
    /\ i' = i + 1
    /\ UNCHANGED <<disk, chanVars, icVars, tree, blkno, buf, pc, call, off,
                   todo, good, err, bad, stale>>

\* assert(icb) in io_cache_read_blocks.
ReadLost ==
    /\ Stepping
    /\ call.op = "read"
    /\ i < good
    /\ ~ Cached(M, Blk(Here))
    /\ pc' = "abort"
    /\ UNCHANGED <<disk, chanVars, icVars, lookupVars, buf, call, data, off,
                   todo, good, i, err, bad, stale>>

\* A block at a position before good_blocks must still be cached.
ReadSync == Stepping /\ (IF Cached(M, Blk(Here)) THEN ReadHit ELSE ReadLost)

\* Mutant of StoreHit: an uncached write does not touch the cache at all.
StoreHitNocache ==
    /\ Stepping
    /\ call.op # "read"
    /\ \E s \in Lookup(M, Blk(Here)) :
        /\ Seen(M, s)
        /\ buf' = IF call.nocache THEN buf
                  ELSE [buf EXCEPT ![M][s] = data[Here]]
    /\ Refreshed
    /\ i' = i + 1
    /\ UNCHANGED <<disk, chanVars, icVars, tree, blkno, pc, call, data, off,
                   todo, good, err, bad>>

\* A write or a vector read finds the block: its icb gets the new contents.
StoreHit ==
    /\ Stepping
    /\ call.op # "read"
    /\ \E s \in Lookup(M, Blk(Here)) :
        /\ Seen(M, s)
        /\ buf' = [buf EXCEPT ![M][s] = data[Here]]
    /\ Refreshed
    /\ i' = i + 1
    /\ UNCHANGED <<disk, chanVars, icVars, tree, blkno, pc, call, data, off,
                   todo, good, err, bad>>

MustInsert == ~ Cached(M, Blk(Here)) /\ ~ (call.op = "read" /\ i < good)

\* A block that is not cached stays out of the cache.
Skip ==
    /\ Stepping
    /\ MustInsert
    /\ call.nocache
    /\ i' = i + 1
    /\ UNCHANGED <<disk, chanVars, icVars, lookupVars, buf, pc, call, data,
                   off, todo, good, err, bad, stale>>

\* io_cache_pop_lru, io_cache_insert (whose assert(0) fires when the tree
\* still has the block) and the copy into the stolen buffer.
Steal ==
    /\ Stepping
    /\ MustInsert
    /\ ~ call.nocache
    /\ LET s == Victim(M)
           rest == Disconnect(M, s)
       IN  /\ blkno' = [blkno EXCEPT ![M][s] = Blk(Here)]
           /\ IF \E t \in rest : blkno[M][t] = Blk(Here) \/ t = s
              THEN /\ pc' = "abort"
                   /\ tree' = [tree EXCEPT ![M] = rest]
                   /\ UNCHANGED <<lru, buf, i, stale>>
              ELSE /\ tree' = [tree EXCEPT ![M] = rest \cup {s}]
                   /\ buf' = [buf EXCEPT ![M][s] = data[Here]]
                   /\ Seen(M, s)
                   /\ Refreshed
                   /\ i' = i + 1
                   /\ UNCHANGED pc
    /\ UNCHANGED <<disk, chanVars, icVars, call, data, off, todo, good, err,
                   bad>>

\* Mutant of SyncEnd: the next hunk starts where this one did.
SyncEndStuck ==
    /\ pc = "sync"
    /\ i = todo
    /\ pc' = IF call.op = "read" THEN "hunk" ELSE "done"
    /\ UNCHANGED <<disk, chanVars, icVars, lookupVars, buf, call, data, off,
                   todo, good, i, err, bad, stale>>

\* The loop is over: a read goes on to its next hunk.
SyncEnd ==
    /\ pc = "sync"
    /\ i = todo
    /\ IF call.op = "read" THEN pc' = "hunk" /\ off' = off + todo
                           ELSE pc' = "done" /\ UNCHANGED off
    /\ UNCHANGED <<disk, chanVars, icVars, lookupVars, buf, call, data, todo,
                   good, i, err, bad, stale>>

\* The call returns; its locals are gone.
Return ==
    /\ pc = "done"
    /\ pc' = "idle" /\ call' = NoCall /\ data' = Untouched
    /\ off' = 0 /\ todo' = 0 /\ good' = 0 /\ i' = 0
    /\ err' = FALSE /\ bad' = {}
    /\ UNCHANGED <<disk, chanVars, icVars, lookupVars, buf, stale>>

Step == \/ RawRead \/ ReadHunk \/ ReadEnd \/ WriteBlocks \/ VecReadBlocks
        \/ ReadSync \/ StoreHit \/ Skip \/ Steal \/ SyncEnd \/ Return

Next ==
    \/ \E c \in Chans :
        \/ Open(c) \/ DestroyCache(c) \/ Close(c) \/ SetNocache(c)
        \/ \E m \in Caches : InitCache(c, m)
        \/ \E d \in Chans : ShareCache(c, d)
        \/ \E b \in Blocks, n \in 0 .. MaxCount, f \in BOOLEAN :
            \/ StartRead(c, b, n, f)
            \/ \E d \in [0 .. n - 1 -> Data] :
                n <= MaxWrite /\ StartWrite(c, b, n, f,
                    [p \in Pos |-> IF p < n THEN d[p] ELSE Garbage])
        \/ \E n \in 0 .. MaxVec : \E u \in [0 .. n - 1 -> Blocks] :
            StartVec(c, n, [p \in Pos |-> IF p < n THEN u[p] ELSE 0])
    \/ Step

Spec == Init /\ [][Next]_vars

\* A running call keeps running: the library never waits for anybody.
FairSpec == Spec /\ WF_vars(Step)

-----------------------------------------------------------------------------
(* Properties.                                                             *)

\* The blocks that a running write has put on the device and not yet into
\* the cache.
Unsynced(m) == IF pc = "sync" /\ call.op = "write" /\ m = M
               THEN {Blk(p) : p \in i .. todo - 1} ELSE {}

\* The lookup tree holds exactly the icbs that have a block number, no block
\* has two icbs, and every icb is on the LRU list exactly once, whatever
\* sequence of steals, unsees and failed calls came before
\* (io_cache_disconnect, io_cache_insert, io_cache_seen, io_cache_unsee).
LookupConsistent ==
    \A m \in Caches :
        /\ tree[m] = {s \in Slots : blkno[m][s] # NoBlk}
        /\ \A s, t \in tree[m] : blkno[m][s] = blkno[m][t] => s = t
        /\ \A s \in Slots : \E k \in Slots : lru[m][k] = s
        /\ \A k, l \in Slots : lru[m][k] = lru[m][l] => k = l

\* "If a block is in the cache, the same thing is on disk", as far as the code
\* can guarantee it: a cached block differs from the device only while the
\* write that changed it has still to sync it, or after a fault that the code
\* does not detect (stale).  In particular a write that fails half-way leaves
\* no whole block behind.
Coherent ==
    \A m \in live : \A s \in tree[m] :
        LET b == blkno[m][s]
        IN  b \in stale[m] \cup Unsynced(m) \/ (b \in Blocks /\ buf[m][s] = disk[b])

\* A read that reports success has filled the whole buffer with what is on
\* the device, whichever blocks came from the cache, from the transfer, or
\* were stolen in between, unless a fault had left the cached copy behind.
ReadReturnsDisk ==
    pc = "done" /\ call.op # "write" /\ ~ err =>
        \A p \in 0 .. call.n - 1 :
            \/ p \in bad
            \/ M # NoCache /\ Blk(p) \in stale[M]
            \/ Blk(p) \in Blocks /\ data[p] = disk[Blk(p)]

\* Neither assertion fails: a block counted in good_blocks is still cached
\* when it is copied out, although the same loop steals buffers, and a block
\* being inserted is not in the tree.
NoAssertFails == pc # "abort"

\* No channel points to a cache that was freed, and the use count covers the
\* channels that share the cache (io_share_cache, io_destroy_cache).
NoDangling ==
    \A c \in Chans : cache[c] # NoCache =>
        /\ c \in open
        /\ cache[c] \in live
        /\ use[cache[c]] >= Cardinality({d \in Chans : cache[d] = cache[c]})

\* A read through the cache of no more blocks than the cache has buffers
\* leaves all of them cached: the loop never steals a buffer it has just
\* filled or marked seen, also across hunks.
WorkingSetCached ==
    pc = "done" /\ call.op = "read" /\ ~ err /\ ~ call.nocache
    /\ M # NoCache /\ call.n <= NrBlocks =>
        \A p \in 0 .. call.n - 1 : Cached(M, Blk(p))

\* After an uncached read that found something in the cache, the next buffer
\* to be stolen is one of its blocks ("we want the next I/O to steal it").
NocacheStolenFirst ==
    pc = "done" /\ call.op = "read" /\ ~ err /\ call.nocache /\ M # NoCache =>
        LET mine == {Blk(p) : p \in 0 .. call.n - 1}
        IN  (\E b \in mine : Cached(M, b)) => blkno[M][Victim(M)] \in mine

\* The order of steals: one list serves cached and uncached calls, and what
\* either puts at its end of it stays, or goes, as the other expects.
EvictionOrder == WorkingSetCached /\ NocacheStolenFirst

-----------------------------------------------------------------------------
(* What the proofs in BlockCacheProofs carry along: the invariants that    *)
(* make the properties above inductive.                                    *)

\* Which call may be where, and how far.
CallShape ==
    /\ pc \notin {"hunk", "sync", "done", "abort"} => off = 0 /\ ~ err /\ bad = {}
    /\ pc # "idle" => call.chan \in open /\ bad \subseteq 0 .. call.n - 1
    /\ pc # "idle" /\ call.op # "vec" =>
        /\ bad = {}
        /\ \A p, q \in Pos : call.blks[p] - call.blks[q] = p - q
    /\ pc = "raw" => call.op = "read" /\ M = NoCache
    /\ pc = "hunk" => call.op = "read" /\ M # NoCache /\ off <= call.n /\ ~ err
    /\ pc \in {"write", "vec"} => call.op = pc
    /\ pc = "sync" =>
        /\ M # NoCache
        /\ i <= todo
        /\ off + todo <= call.n
        /\ IF call.op = "read" THEN ~ err /\ good <= todo ELSE off = 0

\* Coherent for caches that are not in use, too.
CoherentAll ==
    \A m \in Caches : \A s \in tree[m] :
        LET b == blkno[m][s]
        IN  b \in stale[m] \cup Unsynced(m) \/ (b \in Blocks /\ buf[m][s] = disk[b])

OnDisk(p) == Blk(p) \in Blocks /\ data[p] = disk[Blk(p)]

\* What the buffer holds while a call runs.
BufferInv ==
    /\ pc = "sync" /\ call.op = "read" =>
        /\ \A p \in 0 .. off + i - 1 : OnDisk(p) \/ Blk(p) \in stale[M]
        /\ \A p \in off + good .. off + todo - 1 : OnDisk(p)
        /\ \A p \in off + i .. off + good - 1 : Cached(M, Blk(p))
    /\ pc = "hunk" =>
        \A p \in 0 .. off - 1 : OnDisk(p) \/ Blk(p) \in stale[M]
    /\ pc = "sync" /\ call.op = "write" => \A p \in 0 .. todo - 1 : OnDisk(p)
    /\ pc = "sync" /\ call.op = "vec" =>
        \A p \in (0 .. call.n - 1) \ bad : OnDisk(p)

\* Who uses which cache.
Holders(m) == {c \in Chans : cache[c] = m}
UseInv ==
    /\ \A c \in Chans : cache[c] # NoCache => c \in open /\ cache[c] \in live
    /\ \A m \in Caches : use[m] >= Cardinality(Holders(m))

-----------------------------------------------------------------------------
(* The abstract specification it implements.                               *)

\* The caller's view of the running call.
Done == pc = "done"
Device == INSTANCE BlockDevice WITH
    phase <- IF pc \in {"idle", "done"} THEN pc
             ELSE IF pc = "sync" /\ call.op = "write" THEN "stored" ELSE "busy",
    op <- IF pc = "idle" THEN "none"
          ELSE IF call.op = "write" THEN "write" ELSE "read",
    n <- IF pc = "idle" THEN 0 ELSE call.n,
    blks <- IF pc = "idle" THEN Untouched ELSE call.blks,
    arg <- IF pc # "idle" /\ call.op = "write" THEN data ELSE Untouched,
    ok <- ~ err,
    ret <- IF Done /\ call.op # "write" /\ ~ err THEN data ELSE Untouched

\* The cache is invisible: without faults, a channel behaves as the device
\* itself, for reads, writes, vector reads, failing calls, steals and shared
\* caches alike (Faults = {}).
IsBlockDevice == Device!Spec

\* Every call returns: the loop over hunks and the loop over blocks advance,
\* whatever is cached and whatever fails.
CallReturns == pc # "idle" ~> pc = "idle"
=============================================================================
