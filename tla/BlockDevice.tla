---------------------------- MODULE BlockDevice ----------------------------
(***************************************************************************)
(* What a channel promises its caller: a plain array of blocks.  A write   *)
(* stores a prefix of its blocks, all of them exactly when it succeeds; a  *)
(* read that succeeds returns the blocks as they are on the device.  There *)
(* is no cache in this specification: BlockCache implements it as long as  *)
(* none of its faults happens.                                             *)
(***************************************************************************)
EXTENDS Integers

CONSTANTS NBlocks, MaxCount, Data, Garbage

Blocks == 0 .. NBlocks - 1
Pos == 0 .. MaxCount - 1
Contents == Data \cup {Garbage}
Untouched == [p \in Pos |-> Garbage]
NoOp == "none"

VARIABLES
    disk,    \* the device
    phase,   \* "idle", "busy", "stored" (a write has reached the device), "done"
    op,      \* "read" or "write"
    n,       \* number of blocks
    blks,    \* their numbers
    arg,     \* what to write
    ok,      \* the call succeeded, once it is done
    ret      \* what was read, once it is done

vars == <<disk, phase, op, n, blks, arg, ok, ret>>

Init ==
    /\ disk \in [Blocks -> Data]
    /\ phase = "idle" /\ op = NoOp /\ n = 0 /\ blks = Untouched
    /\ arg = Untouched /\ ok = TRUE /\ ret = Untouched

Invoke ==
    /\ phase = "idle"
    /\ phase' = "busy"
    /\ op' \in {"read", "write"}
    /\ n' \in 0 .. MaxCount
    /\ blks' \in [Pos -> Nat]
    /\ arg' \in IF op' = "write" THEN [Pos -> Contents] ELSE {Untouched}
    /\ UNCHANGED <<disk, ok, ret>>

\* A prefix of k blocks is stored; the call succeeds if that is all of them.
Store ==
    /\ phase = "busy"
    /\ op = "write"
    /\ \E k \in 0 .. n :
        /\ disk' = [b \in Blocks |->
                      IF \E p \in 0 .. k - 1 : blks[p] = b
                      THEN arg[CHOOSE p \in 0 .. k - 1 : blks[p] = b] ELSE disk[b]]
        /\ ok' = (k = n)
    /\ phase' \in {"stored", "done"}
    /\ UNCHANGED <<op, n, blks, arg, ret>>

WriteDone ==
    /\ phase = "stored"
    /\ phase' = "done"
    /\ UNCHANGED <<disk, op, n, blks, arg, ok, ret>>

ReadDone ==
    /\ phase = "busy"
    /\ op = "read"
    /\ phase' = "done"
    /\ \/ /\ ok' = TRUE
          /\ ret' = [p \in Pos |-> IF p < n THEN disk[blks[p]] ELSE Garbage]
       \/ ok' = FALSE /\ ret' = Untouched
    /\ UNCHANGED <<disk, op, n, blks, arg>>

Return ==
    /\ phase = "done"
    /\ phase' = "idle" /\ op' = NoOp /\ n' = 0 /\ blks' = Untouched
    /\ arg' = Untouched /\ ok' = TRUE /\ ret' = Untouched
    /\ UNCHANGED disk

Next == Invoke \/ Store \/ WriteDone \/ ReadDone \/ Return

Spec == Init /\ [][Next]_vars
=============================================================================
