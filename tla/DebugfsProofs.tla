--------------------------- MODULE DebugfsProofs ----------------------------
(***************************************************************************)
(* Proofs about sessions of debugfs.cmfs, for every set of volumes and     *)
(* commands and any number of opens.                                       *)
(***************************************************************************)
EXTENDS Debugfs, SequenceTheorems, WellFoundedInduction, TLAPS

-----------------------------------------------------------------------------
(* The globals of a session and the handles that are open.                 *)

Globals == [fs : Nat, device : DOMAIN Vols \cup {NoDev}, blockbuf : BOOLEAN,
            max : Nat, root : Nat, cwd : Nat, jrnl : Nat]

\* The types, with those of the command that is being executed.
TypeInv ==
    /\ TypeOK
    /\ gbls \in Globals
    /\ opened \in Seq(DOMAIN Vols)
    /\ pc \in {"namei", "opened", "buffer", "globals"} => cmd \in Cmds
    /\ pc = "open" \/ (pc \in {"close", "closed", "cleared"} /\ then = "open") =>
        cmd \in Cmds /\ cmd.name = "open"
    /\ pc \in {"opened", "buffer"} =>
        /\ cmd.arg.dev \in DOMAIN Vols
        /\ OpenCode(Vols[cmd.arg.dev].super) = "ok"

\* A command is running, or do_close inside of one, that will return to the
\* prompt.
Returns == pc \in {"prompt", "namei", "open", "opened", "buffer", "globals"}
           \/ (pc \in {"close", "closed", "cleared"} /\ then # "exit")

\* The handle in gbls.fs can be used: it was not closed, unless do_close is
\* about to clear it or a signal came in between.
HandleLive ==
    \/ gbls.fs \in live \cup {NULL}
    \/ pc = "closed" \/ pc \in {"exit", "crash"}
    \/ pc = "close" /\ then = "exit" /\ signals # Signals

\* The device that is named is the one that is open, with a buffer.
InStep == gbls.fs \in live /\ opened[gbls.fs] = gbls.device /\ gbls.blockbuf

DeviceInv ==
    /\ /\ pc \in {"prompt", "namei", "globals"} \/ (pc = "close" /\ then # "exit")
       /\ gbls.device # NoDev
       => InStep
    /\ pc = "globals" \/ (pc = "close" /\ then = "open") => gbls.device # NoDev
    /\ pc = "namei" => gbls.fs \in live
    /\ pc \in {"open", "opened", "buffer"} => gbls.device = NoDev
    /\ pc \in {"opened", "buffer"} =>
        gbls.fs \in live /\ opened[gbls.fs] = cmd.arg.dev
    /\ pc = "buffer" => gbls.blockbuf
    /\ pc = "cleared" => gbls.fs = NULL

\* As long as do_open had memory, nothing is open but what gbls.fs names, and
\* nothing is open without a name.
HandleInv ==
    Returns /\ ~ nomem =>
        /\ live = IF pc \in {"closed", "cleared"} THEN {} ELSE {gbls.fs} \ {NULL}
        /\ pc \notin {"opened", "buffer", "closed"} /\ gbls.device = NoDev => gbls.fs = NULL

SessionInv == TypeInv /\ HandleLive /\ DeviceInv /\ HandleInv /\ CrashHasCause

\* The volumes that cmfs_open accepts have a root directory.
SoundRoots ==
    \A d \in DOMAIN Vols : OpenCode(Vols[d].super) = "ok" =>
        CheckDirectory(Vols[d], Vols[d].super.root) = "ok"

RootInv ==
    pc \in {"prompt", "namei", "globals"} /\ gbls.device # NoDev =>
        \A d \in {gbls.root, gbls.cwd} : CheckDirectory(Vols[gbls.device], d) = "ok"

USE DEF NULL, NoDev

\* Handles are numbered from one, so that none of them is NULL.
LEMMA Handles ==
    ASSUME TypeInv
    PROVE  /\ NULL \notin live /\ live \subseteq 1 .. Len(opened) /\ Len(opened) \in Nat
           /\ DOMAIN opened = 1 .. Len(opened)
           /\ \A h \in 1 .. Len(opened) : opened[h] \in DOMAIN Vols
           /\ NoDev \notin DOMAIN Vols
BY DebugfsAssumption DEF TypeInv, TypeOK

\* At the start nothing is open.
LEMMA SessionInit == Init => SessionInv /\ RootInv
<1> SUFFICES ASSUME Init PROVE SessionInv /\ RootInv
  OBVIOUS
<1>1. gbls \in Globals /\ gbls.fs = 0 /\ gbls.device = "none"
  BY DEF Init, Globals
<1>2. opened \in Seq(DOMAIN Vols) /\ Len(opened) = 0 /\ live = {}
  BY DEF Init
<1>3. TypeInv
  <2>1. pc = "prompt" /\ then = "prompt" /\ signals = Signals /\ nomem = FALSE
    BY DEF Init
  <2>2. /\ gbls.device \in DOMAIN Vols \cup {NoDev} /\ gbls.blockbuf \in BOOLEAN
        /\ {gbls.root, gbls.cwd, gbls.jrnl, gbls.max} \subseteq Nat
    BY <1>1 DEF Globals
  <2>3. gbls.fs \in 0 .. Len(opened) /\ live \subseteq DOMAIN opened
    BY <1>1, <1>2
  <2>4. TypeOK
    BY <2>1, <2>2, <2>3 DEF TypeOK
  <2>. QED BY <1>1, <1>2, <2>1, <2>4 DEF TypeInv
<1>4. HandleLive /\ DeviceInv /\ HandleInv /\ CrashHasCause /\ RootInv
  BY <1>1, <1>2 DEF Init, HandleLive, DeviceInv, HandleInv, CrashHasCause, RootInv
<1>. QED BY <1>3, <1>4 DEF SessionInv

\* A step of a command that leaves the globals alone and goes on, or is over.
LEMMA CommandKeeps ==
    ASSUME SessionInv, UNCHANGED <<gbls, opened, live, then, signals, nomem>>,
           pc \in {"prompt", "namei"}, pc' \in {"prompt", "namei"},
           pc' = "namei" => cmd' \in Cmds /\ gbls.fs \in live
    PROVE  SessionInv'
<1>1. TypeInv'
  BY DEF SessionInv, TypeInv, TypeOK
<1>2. HandleLive' /\ DeviceInv' /\ HandleInv' /\ CrashHasCause'
  BY DEF SessionInv, HandleLive, DeviceInv, InStep, HandleInv, Returns, CrashHasCause
<1>. QED BY <1>1, <1>2 DEF SessionInv

\* A crash that has one of the known causes.
LEMMA CrashKeeps ==
    ASSUME SessionInv, UNCHANGED <<gbls, opened, live, then, signals, nomem>>,
           pc' = "crash", CrashHasCause'
    PROVE  SessionInv'
BY DEF SessionInv, TypeInv, TypeOK, HandleLive, DeviceInv, HandleInv, Returns

\* check_device_open never finds a handle that was closed.
LEMMA CheckedHandle ==
    ASSUME SessionInv, pc = "prompt", NEW ACTION act, CheckDeviceOpen(act)
    PROVE  (act /\ gbls.fs \in live) \/ Say("no device")
BY DEF CheckDeviceOpen, SessionInv, HandleLive

-----------------------------------------------------------------------------
(* One lemma per command or step.                                          *)

\* The steps of do_close, whoever called it.
LEMMA CloseSteps ==
    ASSUME SessionInv, Close
    PROVE  SessionInv'
<1>0. /\ NULL \notin live /\ live \subseteq 1 .. Len(opened) /\ Len(opened) \in Nat
      /\ TypeInv
  BY Handles DEF SessionInv
<1>1. CASE CloseFs /\ gbls.fs = NULL
  <2>1. /\ pc = "close" /\ pc' = then
        /\ UNCHANGED <<cmd, live, gbls, opened, then, signals, nomem>>
    BY <1>1 DEF CloseFs, doing
  <2>2. then \in {"prompt", "exit"}
    <3>1. then = "open" => InStep
      BY <2>1 DEF SessionInv, DeviceInv
    <3>. QED BY <1>0, <1>1, <3>1 DEF InStep, TypeInv, TypeOK
  <2>3. TypeInv'
    BY <1>0, <2>1, <2>2 DEF TypeInv, TypeOK
  <2>4. HandleLive' /\ DeviceInv' /\ CrashHasCause'
    BY <1>0, <1>1, <2>1, <2>2 DEF SessionInv, HandleLive, DeviceInv, InStep, CrashHasCause
  <2>5. HandleInv'
    BY <1>1, <2>1, <2>2 DEF SessionInv, HandleInv, Returns
  <2>. QED BY <2>3, <2>4, <2>5 DEF SessionInv
<1>2. CASE CloseFs /\ gbls.fs # NULL /\ gbls.fs \notin live
  <2>1. pc = "close" /\ Crash("closed twice")
        /\ UNCHANGED <<live, gbls, opened, then, signals, nomem>>
    BY <1>2 DEF CloseFs
  <2>2. signals # Signals
    BY <1>2, <2>1 DEF SessionInv, HandleLive
  <2>. QED BY <2>1, <2>2, CrashKeeps DEF Crash, CrashHasCause
<1>3. CASE CloseFs /\ gbls.fs \in live
  <2>1. /\ pc = "close" /\ pc' = "closed" /\ live' = live \ {gbls.fs}
        /\ UNCHANGED <<cmd, out, gbls, opened, then, signals, nomem>>
    BY <1>0, <1>3 DEF CloseFs, FreeFs, doing
  <2>2. TypeInv'
    BY <1>0, <2>1 DEF TypeInv, TypeOK
  <2>3. HandleLive' /\ DeviceInv' /\ CrashHasCause'
    BY <2>1 DEF HandleLive, DeviceInv, CrashHasCause
  <2>4. HandleInv'
    BY <2>1 DEF SessionInv, HandleInv, Returns
  <2>. QED BY <2>2, <2>3, <2>4 DEF SessionInv
<1>4. CASE CloseGlobals
  <2>1. /\ pc = "closed" /\ pc' = "cleared"
        /\ gbls' = [gbls EXCEPT !.fs = NULL, !.blockbuf = FALSE]
        /\ UNCHANGED <<cmd, opened, live, then, out, signals, nomem>>
    BY <1>4 DEF CloseGlobals, doing
  <2>2. gbls' \in Globals /\ gbls'.fs = NULL /\ gbls'.device = gbls.device
    BY <1>0, <2>1 DEF TypeInv, Globals
  <2>3. TypeInv'
    BY <1>0, <2>1, <2>2 DEF TypeInv, TypeOK, Globals
  <2>4. HandleLive' /\ DeviceInv' /\ CrashHasCause'
    BY <2>1, <2>2 DEF HandleLive, DeviceInv, CrashHasCause
  <2>5. HandleInv'
    BY <2>1, <2>2 DEF SessionInv, HandleInv, Returns
  <2>. QED BY <2>3, <2>4, <2>5 DEF SessionInv
<1>5. CASE CloseDevice
  <2>1. /\ pc = "cleared" /\ pc' = then /\ gbls' = [gbls EXCEPT !.device = NoDev]
        /\ UNCHANGED <<cmd, opened, live, then, out, signals, nomem>>
    BY <1>5 DEF CloseDevice, doing
  <2>2. /\ gbls' \in Globals /\ gbls'.fs = NULL /\ gbls'.device = NoDev
        /\ then \in {"prompt", "open", "exit"}
    BY <1>0, <2>1 DEF TypeInv, TypeOK, Globals, SessionInv, DeviceInv
  <2>3. TypeInv'
    BY <1>0, <2>1, <2>2 DEF TypeInv, TypeOK, Globals
  <2>4. HandleLive' /\ DeviceInv' /\ CrashHasCause'
    BY <2>1, <2>2 DEF HandleLive, DeviceInv, CrashHasCause
  <2>5. HandleInv'
    BY <2>1, <2>2 DEF SessionInv, HandleInv, Returns
  <2>. QED BY <2>3, <2>4, <2>5 DEF SessionInv
<1>. QED BY <1>1, <1>2, <1>3, <1>4, <1>5 DEF Close, CloseFs

\* What cmfs_lookup finds is a block number.
LEMMA LookupNumber ==
    ASSUME NEW d \in DOMAIN Vols, NEW dir, NEW name
    PROVE  Lookup(Vols[d], dir, name).blkno \in Nat
<1>1. \A code : Err(code).blkno \in Nat
  BY DEF Err
<1>2. ASSUME CheckDirectory(Vols[d], dir) = "ok",
             name \in DOMAIN Vols[d].inodes[dir].entries
      PROVE  Ok(Vols[d].inodes[dir].entries[name]).blkno \in Nat
  <2>1. dir \in DOMAIN Vols[d].inodes /\ Vols[d].inodes[dir].mode = "dir"
    BY <1>2 DEF CheckDirectory, ReadInode
  <2>2. Vols[d].inodes[dir].entries[name] \in Nat
    BY <1>2, <2>1, VolsAssumption
  <2>. QED BY <2>2 DEF Ok
<1>. QED BY <1>1, <1>2 DEF Lookup

\* cmfs_open and the steps of do_open after it, whatever fails in them.
LEMMA OpenSteps ==
    ASSUME SessionInv, Open
    PROVE  SessionInv'
<1>0. /\ NULL \notin live /\ live \subseteq 1 .. Len(opened) /\ Len(opened) \in Nat
      /\ TypeInv /\ gbls \in Globals /\ opened \in Seq(DOMAIN Vols)
      /\ NoDev \notin DOMAIN Vols
  BY Handles DEF SessionInv, TypeInv
<1>1. CASE OpenFs
  <2>1. /\ pc = "open" /\ UNCHANGED <<then, signals, nomem>>
        /\ gbls.device = NoDev /\ cmd \in Cmds /\ cmd.name = "open"
    BY <1>1 DEF OpenFs, SessionInv, DeviceInv, TypeInv
  <2>2. ASSUME NEW code, Say(code), UNCHANGED <<opened, live>>,
               gbls' = gbls \/ gbls' = [gbls EXCEPT !.fs = NULL]
        PROVE  SessionInv'
    <3>1. /\ gbls' \in Globals /\ gbls'.fs \in {gbls.fs, NULL}
          /\ gbls'.device = NoDev /\ pc' = "prompt"
      BY <1>0, <2>1, <2>2 DEF Globals, Say
    <3>2. TypeInv'
      BY <1>0, <2>1, <2>2, <3>1 DEF TypeInv, TypeOK, Globals
    <3>3. HandleLive' /\ DeviceInv' /\ CrashHasCause'
      BY <2>1, <2>2, <3>1 DEF SessionInv, HandleLive, DeviceInv, CrashHasCause
    <3>4. HandleInv'
      BY <2>1, <2>2, <3>1 DEF SessionInv, HandleInv, Returns
    <3>. QED BY <3>2, <3>3, <3>4 DEF SessionInv
  <2>3. CASE Crash("abort") /\ UNCHANGED <<gbls, opened, live>>
    BY <2>1, <2>3, CrashKeeps DEF Crash, CrashHasCause
  <2>4. CASE /\ cmd.arg.kind # "none" /\ OpenCode(Vols[cmd.arg.dev].super) = "ok"
             /\ opened' = Append(opened, cmd.arg.dev)
             /\ live' = live \cup {Len(opened')}
             /\ gbls' = [gbls EXCEPT !.fs = Len(opened')]
             /\ pc' = "opened" /\ UNCHANGED cmd
    <3>1. cmd.arg.dev \in DOMAIN Vols
      BY <2>1, <2>4, DebugfsAssumption
    <3>2. /\ opened' \in Seq(DOMAIN Vols) /\ Len(opened') = Len(opened) + 1
          /\ opened'[Len(opened')] = cmd.arg.dev
          /\ DOMAIN opened' = 1 .. Len(opened')
      BY <1>0, <2>4, <3>1
    <3>3. gbls' \in Globals /\ gbls'.fs = Len(opened') /\ gbls'.device = NoDev
      BY <1>0, <2>1, <2>4, <3>2 DEF Globals
    <3>4. TypeOK'
      BY <1>0, <2>1, <2>4, <3>2, <3>3 DEF TypeInv, TypeOK, Globals
    <3>5. TypeInv'
      BY <2>1, <2>4, <3>1, <3>2, <3>3, <3>4 DEF TypeInv
    <3>6. HandleLive' /\ DeviceInv' /\ CrashHasCause'
      BY <2>4, <3>2, <3>3 DEF HandleLive, DeviceInv, CrashHasCause
    <3>7. HandleInv'
      <4>1. ~ nomem => live = {} /\ live' = {gbls'.fs}
        BY <1>0, <2>1, <2>4, <3>3 DEF SessionInv, HandleInv, Returns
      <4>2. gbls'.fs # NULL
        BY <1>0, <3>2, <3>3
      <4>. QED BY <2>1, <2>4, <4>1, <4>2 DEF HandleInv
    <3>. QED BY <3>5, <3>6, <3>7 DEF SessionInv
  <2>. QED BY <1>1, <2>2, <2>3, <2>4 DEF OpenFs, OpenFails, doing
<1>2. CASE OpenBuffer
  <2>1. /\ pc = "opened" /\ UNCHANGED <<opened, live, then, signals>>
        /\ gbls.device = NoDev /\ gbls.fs \in live /\ opened[gbls.fs] = cmd.arg.dev
        /\ cmd \in Cmds /\ cmd.arg.dev \in DOMAIN Vols
        /\ OpenCode(Vols[cmd.arg.dev].super) = "ok"
    BY <1>2 DEF OpenBuffer, SessionInv, DeviceInv, TypeInv
  <2>2. CASE pc' = "buffer" /\ gbls' = [gbls EXCEPT !.blockbuf = TRUE] /\ UNCHANGED <<cmd, nomem>>
    <3>1. /\ gbls' \in Globals /\ gbls'.fs = gbls.fs /\ gbls'.device = gbls.device
          /\ gbls'.blockbuf
      BY <1>0, <2>2 DEF Globals
    <3>2. TypeInv'
      BY <1>0, <2>1, <2>2, <3>1 DEF TypeInv, TypeOK, Globals
    <3>3. HandleLive' /\ DeviceInv' /\ CrashHasCause'
      BY <2>1, <2>2, <3>1 DEF HandleLive, DeviceInv, CrashHasCause
    <3>4. HandleInv'
      BY <2>1, <2>2, <3>1 DEF SessionInv, HandleInv, Returns
    <3>. QED BY <3>2, <3>3, <3>4 DEF SessionInv
  <2>3. CASE Say("no memory") /\ nomem' = TRUE /\ UNCHANGED gbls
    <3>1. TypeInv'
      BY <1>0, <2>1, <2>3 DEF TypeInv, TypeOK, Say
    <3>2. HandleLive' /\ DeviceInv' /\ CrashHasCause' /\ HandleInv'
      BY <2>1, <2>3 DEF HandleLive, DeviceInv, CrashHasCause, HandleInv, Say
    <3>. QED BY <3>1, <3>2 DEF SessionInv
  <2>4. CASE Crash("abort") /\ UNCHANGED <<gbls, nomem>>
    BY <2>1, <2>4, CrashKeeps DEF Crash, CrashHasCause
  <2>. QED BY <1>2, <2>2, <2>3, <2>4 DEF OpenBuffer, doing
<1>3. CASE OpenGlobals
  <2>1. /\ pc = "buffer" /\ pc' = "globals"
        /\ UNCHANGED <<cmd, opened, live, then, out, signals, nomem>>
        /\ gbls' = [gbls EXCEPT !.device = cmd.arg.dev, !.max = Blocks(FsVol),
                                !.root = FsVol.super.root, !.cwd = FsVol.super.root]
        /\ gbls.fs \in live /\ opened[gbls.fs] = cmd.arg.dev /\ gbls.blockbuf
        /\ cmd \in Cmds /\ cmd.arg.dev \in DOMAIN Vols
    BY <1>3 DEF OpenGlobals, SessionInv, DeviceInv, TypeInv, doing
  <2>2. Blocks(FsVol) \in Nat /\ FsVol.super.root \in Nat
    BY <2>1, VolsAssumption DEF FsVol
  <2>3. /\ gbls' \in Globals /\ gbls'.fs = gbls.fs /\ gbls'.device = cmd.arg.dev
        /\ gbls'.blockbuf
    BY <1>0, <2>1, <2>2 DEF Globals
  <2>4. TypeInv'
    BY <1>0, <2>1, <2>3 DEF TypeInv, TypeOK, Globals
  <2>5. HandleLive' /\ DeviceInv' /\ CrashHasCause'
    BY <1>0, <2>1, <2>3 DEF HandleLive, DeviceInv, InStep, CrashHasCause
  <2>6. HandleInv'
    BY <1>0, <2>1, <2>3 DEF SessionInv, HandleInv, Returns
  <2>. QED BY <2>4, <2>5, <2>6 DEF SessionInv
<1>4. CASE OpenJournal
  <2>1. /\ pc = "globals" /\ UNCHANGED <<opened, live, then, signals, nomem>>
        /\ gbls.device # NoDev /\ InStep
    BY <1>4 DEF OpenJournal, SessionInv, DeviceInv
  <2>2. ASSUME Say("ok"), NEW r \in {Lookup(FsVol, FsVol.super.sysdir, "journal"), Err("io")},
               gbls' = [gbls EXCEPT !.jrnl = r.blkno]
        PROVE  SessionInv'
    <3>1. gbls.device \in DOMAIN Vols /\ FsVol = Vols[gbls.device]
      BY <1>0, <2>1 DEF InStep, FsVol, TypeInv, TypeOK
    <3>2. r.blkno \in Nat
      BY <2>2, <3>1, LookupNumber DEF Err
    <3>3. /\ gbls' \in Globals /\ gbls'.fs = gbls.fs /\ gbls'.device = gbls.device
          /\ gbls'.blockbuf = gbls.blockbuf
      BY <1>0, <2>2, <3>2 DEF Globals
    <3>4. TypeInv'
      BY <1>0, <2>1, <2>2, <3>3 DEF TypeInv, TypeOK, Globals, Say
    <3>5. HandleLive' /\ DeviceInv' /\ CrashHasCause'
      BY <2>1, <2>2, <3>3 DEF HandleLive, DeviceInv, InStep, CrashHasCause, Say
    <3>6. HandleInv'
      BY <2>1, <2>2, <3>3 DEF SessionInv, HandleInv, Returns, Say
    <3>. QED BY <3>4, <3>5, <3>6 DEF SessionInv
  <2>3. ASSUME NEW why \in {"abort", "bad free"}, Crash(why), UNCHANGED gbls
        PROVE  SessionInv'
    BY <2>1, <2>3, CrashKeeps DEF Crash, CrashHasCause
  <2>. QED BY <1>4, <2>2, <2>3 DEF OpenJournal, DirIterateCrash
<1>. QED BY <1>1, <1>2, <1>3, <1>4 DEF Open

\* A device is open without its buffer only after do_open had no memory.
LEMMA NoBufferCause ==
    ASSUME SessionInv, pc \in {"prompt", "namei"}, gbls.fs \in live, ~ gbls.blockbuf
    PROVE  nomem
<1>1. gbls.device = NoDev
  BY DEF SessionInv, DeviceInv, InStep
<1>2. gbls.fs # NULL
  BY Handles DEF SessionInv
<1>. QED BY <1>1, <1>2 DEF SessionInv, HandleInv, Returns, TypeInv, TypeOK

\* A command that ends with a message, or for one of the known causes.
LEMMA Ends ==
    ASSUME SessionInv, pc \in {"prompt", "namei"},
           UNCHANGED <<gbls, opened, live, then, signals, nomem>>,
           \/ \E code : Say(code)
           \/ \E why \in {"abort", "bad free", "no string", "no inode"} : Crash(why)
           \/ Crash("no buffer") /\ gbls.fs \in live /\ ~ gbls.blockbuf
    PROVE  SessionInv'
<1>1. CASE \E code : Say(code)
  BY <1>1, CommandKeeps DEF Say
<1>2. CASE \E why \in {"abort", "bad free", "no string", "no inode"} : Crash(why)
  BY <1>2, CrashKeeps DEF Crash, CrashHasCause
<1>3. CASE Crash("no buffer") /\ gbls.fs \in live /\ ~ gbls.blockbuf
  BY <1>3, CrashKeeps, NoBufferCause DEF Crash, CrashHasCause
<1>. QED BY <1>1, <1>2, <1>3

\* The words the user types.
LEMMA CommandSteps ==
    ASSUME SessionInv, NEW c \in Cmds,
           DoOpen(c) \/ DoClose(c) \/ DoInodeCmd(c) \/ DoBlockCmd(c) \/ DoStats(c)
    PROVE  SessionInv'
<1>0. TypeInv
  BY DEF SessionInv
<1>1. CASE DoOpen(c)
  <2>1. /\ pc = "prompt" /\ c.name = "open" /\ cmd' = c /\ out' = "none"
        /\ UNCHANGED <<gbls, opened, live, signals, nomem>>
        /\ IF gbls.device # NoDev THEN pc' = "close" /\ then' = "open"
           ELSE pc' = "open" /\ UNCHANGED then
    BY <1>1 DEF DoOpen, Command, CallClose
  <2>2. TypeInv'
    BY <1>0, <2>1 DEF TypeInv, TypeOK
  <2>3. HandleLive' /\ DeviceInv' /\ CrashHasCause'
    BY <2>1 DEF SessionInv, HandleLive, DeviceInv, InStep, CrashHasCause
  <2>4. HandleInv'
    BY <2>1 DEF SessionInv, HandleInv, Returns
  <2>. QED BY <2>2, <2>3, <2>4 DEF SessionInv
<1>2. CASE DoClose(c)
  <2>1. /\ pc = "prompt" /\ out' = "none" /\ pc' = "close" /\ then' = "prompt"
        /\ UNCHANGED <<gbls, opened, live, signals, nomem>>
    BY <1>2 DEF DoClose, Command, CallClose
  <2>2. TypeInv'
    BY <1>0, <2>1 DEF TypeInv, TypeOK
  <2>3. HandleLive' /\ DeviceInv' /\ CrashHasCause'
    BY <2>1 DEF SessionInv, HandleLive, DeviceInv, InStep, CrashHasCause
  <2>4. HandleInv'
    BY <2>1 DEF SessionInv, HandleInv, Returns
  <2>. QED BY <2>2, <2>3, <2>4 DEF SessionInv
<1>3. CASE DoInodeCmd(c)
  <2>1. /\ pc = "prompt" /\ UNCHANGED <<gbls, opened, live, then, signals, nomem>>
        /\ \/ gbls.fs \in live /\ cmd' = c /\ pc' = "namei"
           \/ Crash("no string") \/ Say("usage") \/ Say("no device")
    BY <1>3 DEF DoInodeCmd, Command, CheckDeviceOpen, SessionInv, HandleLive
  <2>. QED BY <2>1, Ends, CommandKeeps
<1>4. CASE DoBlockCmd(c)
  <2>1. /\ pc = "prompt" /\ UNCHANGED <<gbls, opened, live, then, signals, nomem>>
        /\ \/ Say("usage") \/ Say("bad blkno") \/ Say("no device")
           \/ gbls.fs \in live /\ DoGroup(c.arg.n)
           \/ gbls.fs \in live /\ DoExtent(c.arg.n)
    BY <1>4 DEF DoBlockCmd, Command, CheckDeviceOpen, SessionInv, HandleLive
  <2>2. CASE DoGroup(c.arg.n)
    BY <2>1, <2>2, Ends DEF DoGroup, ReadFails
  <2>3. CASE gbls.fs \in live /\ DoExtent(c.arg.n)
    BY <2>1, <2>3, Ends DEF DoExtent, ReadFails
  <2>. QED BY <2>1, <2>2, <2>3, Ends
<1>5. CASE DoStats(c)
  <2>1. /\ pc = "prompt" /\ UNCHANGED <<gbls, opened, live, then, signals, nomem>>
        /\ Say("shown") \/ Say("no device")
    BY <1>5 DEF DoStats, Command, CheckDeviceOpen, SessionInv, HandleLive
  <2>. QED BY <2>1, Ends
<1>. QED BY <1>1, <1>2, <1>3, <1>4, <1>5

\* do_quit and the handler of signals, which may come at any step.
LEMMA LeaveSteps ==
    ASSUME SessionInv, Leave, UNCHANGED <<gbls, opened, live, nomem>>,
           \/ pc = "prompt" /\ UNCHANGED signals
           \/ \E s \in signals : signals' = signals \ {s}
    PROVE  SessionInv'
<1>1. /\ pc' \in {"close", "exit"} /\ (pc' = "close" => then' = "exit")
      /\ then' \in {then, "exit"}
  BY DEF Leave, CallClose
<1>2. signals' \subseteq Signals
  BY DEF SessionInv, TypeInv, TypeOK
<1>3. TypeInv'
  BY <1>1, <1>2 DEF SessionInv, TypeInv, TypeOK
<1>4. DeviceInv' /\ CrashHasCause' /\ HandleInv'
  BY <1>1 DEF DeviceInv, CrashHasCause, HandleInv, Returns
<1>5. HandleLive'
  <2>1. CASE pc = "prompt" /\ UNCHANGED signals
    BY <2>1 DEF SessionInv, HandleLive
  <2>2. CASE \E s \in signals : signals' = signals \ {s}
    BY <1>1, <2>2 DEF HandleLive, SessionInv, TypeInv, TypeOK
  <2>. QED BY <2>1, <2>2
<1>. QED BY <1>3, <1>4, <1>5 DEF SessionInv

\* A command about an inode, once its path is resolved or while it is.
LEMMA InodeSteps ==
    ASSUME SessionInv, Walk \/ WalkIo \/ Refused \/ HandlerIo
    PROVE  SessionInv'
<1>1. CASE Walk
  BY <1>1, CommandKeeps DEF Walk, SessionInv, TypeInv, DeviceInv
<1>2. CASE WalkIo
  <2>1. CASE UNCHANGED <<pc, cmd, out>>
    BY <1>2, <2>1, CommandKeeps DEF WalkIo, SessionInv, TypeInv, DeviceInv
  <2>2. ASSUME NEW why \in {"abort", "bad free"}, Crash(why) PROVE SessionInv'
    BY <1>2, <2>2, Ends DEF WalkIo
  <2>. QED BY <1>2, <2>1, <2>2 DEF WalkIo, DirIterateCrash
<1>3. CASE Refused
  BY <1>3, Ends DEF Refused
<1>4. CASE HandlerIo
  BY <1>4, Ends DEF HandlerIo, Found, ReadFails, DirIterateCrash
<1>. QED BY <1>1, <1>2, <1>3, <1>4

\* cd and chroot move the working directory and the root to a directory.
LEMMA MoveKeeps ==
    ASSUME SessionInv, pc = "namei", UNCHANGED <<opened, live, then, signals, nomem>>,
           Say("ok"), CheckDirectory(FsVol, result.blkno) = "ok",
           \/ gbls' = [gbls EXCEPT !.cwd = result.blkno]
           \/ gbls' = [gbls EXCEPT !.root = result.blkno]
    PROVE  SessionInv'
<1>0. TypeInv /\ gbls \in Globals
  BY DEF SessionInv, TypeInv
<1>1. gbls.fs \in live /\ opened[gbls.fs] \in DOMAIN Vols
  BY Handles DEF SessionInv, DeviceInv
<1>2. result.blkno \in Nat
  BY <1>1, VolsAssumption DEF CheckDirectory, ReadInode, FsVol
<1>3. /\ gbls' \in Globals /\ gbls'.fs = gbls.fs /\ gbls'.device = gbls.device
      /\ gbls'.blockbuf = gbls.blockbuf /\ pc' = "prompt"
  BY <1>0, <1>2 DEF Globals, Say
<1>4. TypeInv'
  BY <1>0, <1>3 DEF TypeInv, TypeOK, Globals
<1>5. HandleLive' /\ DeviceInv' /\ CrashHasCause'
  BY <1>3 DEF SessionInv, HandleLive, DeviceInv, InStep, CrashHasCause
<1>6. HandleInv'
  BY <1>3 DEF SessionInv, HandleInv, Returns
<1>. QED BY <1>4, <1>5, <1>6 DEF SessionInv

\* The handlers that read an inode.
LEMMA HandlerSteps ==
    ASSUME SessionInv, Handler
    PROVE  SessionInv'
<1>1. ASSUME NEW names, Found(names)
      PROVE  /\ pc = "namei" /\ gbls.fs \in live
             /\ UNCHANGED <<opened, live, then, signals, nomem>>
  BY <1>1 DEF Found, SessionInv, DeviceInv
<1>2. CASE DoCd \/ DoChroot
  BY <1>1, <1>2, MoveKeeps, Ends DEF DoCd, DoChroot, InDirectory
<1>3. CASE DoLs \/ DoDirblocks
  BY <1>1, <1>3, Ends DEF DoLs, DoDirblocks, InDirectory, IntoBuffer
<1>4. CASE DoStat \/ DoFrag \/ DoBmap
  BY <1>1, <1>4, Ends DEF DoStat, DoFrag, DoBmap, IntoBuffer
<1>5. CASE DoCat
  BY <1>1, <1>5, Ends DEF DoCat, IntoBuffer, DumpFile
<1>. QED BY <1>2, <1>3, <1>4, <1>5 DEF Handler

\* Every step of a session keeps the globals in step.
LEMMA SessionStep == SessionInv /\ [Next]_vars => SessionInv'
<1> SUFFICES ASSUME SessionInv, [Next]_vars PROVE SessionInv'
  OBVIOUS
<1>1. CASE UNCHANGED vars
  <2>1. TypeInv'
    BY <1>1 DEF vars, SessionInv, TypeInv, TypeOK
  <2>2. HandleLive' /\ DeviceInv' /\ HandleInv' /\ CrashHasCause'
    BY <1>1 DEF vars, SessionInv, HandleLive, DeviceInv, InStep, HandleInv, Returns,
       CrashHasCause
  <2>. QED BY <2>1, <2>2 DEF SessionInv
<1>2. ASSUME NEW c \in Cmds, DoQuit(c) PROVE SessionInv'
  BY <1>2, LeaveSteps DEF DoQuit, Command
<1>3. ASSUME NEW s \in signals, HandleSignal(s) PROVE SessionInv'
  BY <1>3, LeaveSteps DEF HandleSignal
<1>4. CASE Work
  BY <1>4, CloseSteps, OpenSteps, InodeSteps, HandlerSteps DEF Work
<1>. QED BY <1>1, <1>2, <1>3, <1>4, CommandSteps, InodeSteps DEF Next

\* The inductive invariant of a session.
LEMMA SessionInvariant == Spec => []SessionInv
BY SessionInit, SessionStep, PTL DEF Spec

\* Nothing ends a session of debugfs but its commands and the six causes of
\* CrashHasCause, the unset pointer that cmfs_dir_iterate2 frees among them: no
\* interleaving of opens, closes, failures and signals makes a command use a
\* handle that cmfs_close has freed.
THEOREM CrashesHaveCauses == Spec => []CrashHasCause
BY SessionInvariant, PTL DEF SessionInv

\* Between commands the handle, the name and the buffer belong to the same open
\* device, and nothing else is open: do_open and do_close leak nothing.
THEOREM HandlesInStep == Spec => [](TypeOK /\ DeviceIsOpen /\ OneHandle)
<1>1. SessionInv => TypeOK /\ DeviceIsOpen /\ OneHandle
  <2> SUFFICES ASSUME SessionInv PROVE TypeOK /\ DeviceIsOpen /\ OneHandle
    OBVIOUS
  <2>1. TypeOK
    BY DEF SessionInv, TypeInv
  <2>2. DeviceIsOpen
    BY DEF SessionInv, DeviceInv, InStep, DeviceIsOpen
  <2>3. OneHandle
    BY DEF SessionInv, HandleInv, Returns, OneHandle
  <2>. QED BY <2>1, <2>2, <2>3
<1>. QED BY <1>1, SessionInvariant, PTL

-----------------------------------------------------------------------------
(* Root and working directory.                                             *)

\* The directories of the globals belong to the device that is open.
LEMMA RootStep ==
    ASSUME SoundRoots
    PROVE  SessionInv /\ RootInv /\ [Next]_vars => RootInv'
<1> SUFFICES ASSUME SessionInv, RootInv, [Next]_vars PROVE RootInv'
  OBVIOUS
<1>0. TypeInv /\ gbls \in Globals /\ NULL \notin live
  BY Handles DEF SessionInv, TypeInv
<1>1. CASE UNCHANGED <<gbls, pc>>
  BY <1>1 DEF RootInv
<1>2. CASE pc \in {"prompt", "namei", "globals"} /\ UNCHANGED gbls
  BY <1>2 DEF RootInv
<1>3. CASE pc' \notin {"prompt", "namei", "globals"}
  BY <1>3 DEF RootInv
<1>4. CASE gbls'.device = NoDev
  BY <1>4 DEF RootInv
<1>5. CASE Close
  <2>1. CASE CloseFs
    <3>1. gbls' = gbls /\ pc = "close"
      BY <2>1 DEF CloseFs
    <3>2. CASE pc' = "prompt"
      <4>1. gbls.fs = NULL /\ then = "prompt"
        BY <2>1, <3>2 DEF CloseFs, Crash
      <4>2. gbls.device = NoDev
        BY <1>0, <3>1, <4>1 DEF SessionInv, DeviceInv, InStep
      <4>. QED BY <1>4, <3>1, <4>2
    <3>3. CASE pc' # "prompt"
      BY <1>0, <1>3, <2>1, <3>3 DEF CloseFs, Crash, TypeInv, TypeOK
    <3>. QED BY <3>2, <3>3
  <2>2. CASE CloseGlobals
    BY <1>3, <2>2 DEF CloseGlobals
  <2>3. CASE CloseDevice
    <3>1. gbls'.device = NoDev
      BY <1>0, <2>3 DEF CloseDevice, Globals
    <3>. QED BY <1>4, <3>1
  <2>. QED BY <1>5, <2>1, <2>2, <2>3 DEF Close
<1>6. CASE Open
  <2>1. CASE OpenFs
    <3>1. gbls.device = NoDev
      BY <2>1 DEF OpenFs, SessionInv, DeviceInv
    <3>2. gbls'.device = NoDev
      BY <1>0, <2>1, <3>1 DEF OpenFs, OpenFails, Globals
    <3>. QED BY <1>4, <3>2
  <2>2. CASE OpenBuffer
    <3>1. gbls.device = NoDev
      BY <2>2 DEF OpenBuffer, SessionInv, DeviceInv
    <3>2. gbls'.device = NoDev
      BY <1>0, <2>2, <3>1 DEF OpenBuffer, Globals
    <3>. QED BY <1>4, <3>2
  <2>3. CASE OpenGlobals
    <3>1. /\ pc = "buffer" /\ cmd.arg.dev \in DOMAIN Vols
          /\ OpenCode(Vols[cmd.arg.dev].super) = "ok" /\ FsVol = Vols[cmd.arg.dev]
      BY <1>0, <2>3 DEF OpenGlobals, TypeInv, SessionInv, DeviceInv, FsVol
    <3>2. /\ gbls'.device = cmd.arg.dev /\ gbls'.root = FsVol.super.root
          /\ gbls'.cwd = FsVol.super.root
      BY <1>0, <2>3 DEF OpenGlobals, Globals
    <3>. QED BY <3>1, <3>2 DEF SoundRoots, RootInv
  <2>4. CASE OpenJournal
    <3>1. /\ pc = "globals" /\ gbls'.device = gbls.device /\ gbls'.root = gbls.root
          /\ gbls'.cwd = gbls.cwd
      BY <1>0, <2>4 DEF OpenJournal, Globals
    <3>. QED BY <3>1 DEF RootInv
  <2>. QED BY <1>6, <2>1, <2>2, <2>3, <2>4 DEF Open
<1>7. CASE Handler
  <2>1. pc = "namei"
    BY <1>7 DEF Handler, DoCd, DoChroot, DoLs, DoDirblocks, DoStat, DoFrag, DoBmap,
       DoCat, Found
  <2>2. ASSUME CheckDirectory(FsVol, result.blkno) = "ok", UNCHANGED opened,
               \/ gbls' = [gbls EXCEPT !.cwd = result.blkno]
               \/ gbls' = [gbls EXCEPT !.root = result.blkno]
        PROVE  RootInv'
    <3>1. /\ gbls'.device = gbls.device /\ gbls'.root \in {gbls.root, result.blkno}
          /\ gbls'.cwd \in {gbls.cwd, result.blkno}
      BY <1>0, <2>2 DEF Globals
    <3>2. gbls.device # NoDev => FsVol = Vols[gbls.device]
      BY <2>1 DEF SessionInv, DeviceInv, InStep, FsVol
    <3>. QED BY <2>1, <2>2, <3>1, <3>2 DEF RootInv
  <2>3. CASE DoCd \/ DoChroot
    BY <1>2, <2>1, <2>2, <2>3 DEF DoCd, DoChroot, InDirectory, Found
  <2>4. CASE DoLs \/ DoDirblocks \/ DoStat \/ DoFrag \/ DoBmap \/ DoCat
    BY <1>2, <2>1, <2>4 DEF DoLs, DoDirblocks, DoStat, DoFrag, DoBmap, DoCat,
       InDirectory
  <2>. QED BY <1>7, <2>3, <2>4 DEF Handler
<1>8. CASE Walk \/ WalkIo \/ Refused \/ HandlerIo
  BY <1>2, <1>8 DEF Walk, WalkIo, Refused, HandlerIo, Found
<1>9. ASSUME NEW c \in Cmds, DoOpen(c) \/ DoClose(c) \/ DoQuit(c)
                             \/ DoInodeCmd(c) \/ DoBlockCmd(c) \/ DoStats(c)
      PROVE  RootInv'
  BY <1>2, <1>9 DEF DoOpen, DoClose, DoQuit, DoInodeCmd, DoBlockCmd, DoStats, Command
<1>10. ASSUME NEW s \in signals, HandleSignal(s) PROVE RootInv'
  BY <1>3, <1>10 DEF HandleSignal, Leave, CallClose
<1>11. CASE Work
  BY <1>5, <1>6, <1>7, <1>8, <1>11 DEF Work
<1>. QED BY <1>1, <1>8, <1>9, <1>10, <1>11 DEF Next, vars

\* Between commands the globals are those of one open device, on volumes whose
\* super blocks, where cmfs_open accepts them, name a root directory.
THEOREM GlobalsAlwaysInStep ==
    ASSUME SoundRoots
    PROVE  Spec => []GlobalsInStep
<1>1. Spec => []RootInv
  BY SessionInit, RootStep, SessionInvariant, PTL DEF Spec
<1>2. TypeOK /\ DeviceIsOpen /\ OneHandle /\ RootInv => GlobalsInStep
  BY DEF GlobalsInStep, RootInv, RootAndCwd
<1>. QED BY <1>1, <1>2, HandlesInStep, PTL

-----------------------------------------------------------------------------
(* The recursion of cmfs_namei.                                            *)

Frames == [dir : Nat, comps : Seq(Names), follow : BOOLEAN, lc : Nat]

\* A frame has followed as many links as there are frames below it.
Counted(st) == \A k \in 1 .. Len(st) : st[k].lc = Len(st) - k

LinkInv ==
    /\ stack \in Seq(Frames)
    /\ Counted(stack) /\ LinkDepth
    /\ Resolving => query.dev \in DOMAIN Vols /\ query.root \in Nat

\* A set of numbers has a smallest one.
LEMMA SmallestNumber ==
    ASSUME NEW T \in SUBSET Nat, T # {}
    PROVE  \E x \in T : \A y \in T : x <= y
<1> DEFINE R == OpToRel(<, Nat)
<1>1. IsWellFoundedOn(R, Nat)
  BY NatLessThanWellFounded
<1> HIDE DEF R
<1>2. PICK x \in T : \A y \in T : ~ (<<y, x>> \in R)
  BY <1>1, WFMin
<1>3. \A y \in T : <<y, x>> \in R \/ ~ (y < x)
  BY DEF R, OpToRel
<1>4. \A y \in T : ~ (y < x)
  BY <1>2, <1>3
<1>5. x \in Nat /\ \A y \in T : y \in Nat
  OBVIOUS
<1>6. \A y \in T : x <= y
  BY <1>4, <1>5
<1>. QED BY <1>6

\* The frame that waits for the result is one with names left.
LEMMA WaitingFor ==
    ASSUME NEW w \in Seq(Frames), SelectInSeq(w, LAMBDA f : Len(f.comps) > 1) # 0
    PROVE  SelectInSeq(w, LAMBDA f : Len(f.comps) > 1)
               \in {k \in 1 .. Len(w) : Len(w[k].comps) > 1}
<1> DEFINE I == {k \in 1 .. Len(w) : Len(w[k].comps) > 1}
<1>1. SelectInSeq(w, LAMBDA f : Len(f.comps) > 1) = IF I # {} THEN Min(I) ELSE 0
  BY DEF SelectInSeq
<1>2. I \in SUBSET Nat
  BY LenProperties
<1>3. I # {} => Min(I) \in I
  BY <1>2, SmallestNumber DEF Min
<1>. QED BY <1>1, <1>3

\* The index SelectInSeq finds among the waiting calls of cmfs_namei lies in
\* the sequence, or is 0.
LEMMA Waiting ==
    ASSUME NEW w \in Seq(Frames)
    PROVE  SelectInSeq(w, LAMBDA f : Len(f.comps) > 1) \in 0 .. Len(w)
<1> DEFINE k == SelectInSeq(w, LAMBDA f : Len(f.comps) > 1)
<1>1. Len(w) \in Nat
  BY LenProperties
<1>2. k # 0 => k \in 1 .. Len(w)
  BY WaitingFor
<1> HIDE DEF k
<1>3. k \in 0 .. Len(w)
  BY <1>1, <1>2
<1>. QED BY <1>3 DEF k

\* Taking calls off the stack, and changing the one on top, keeps the counts.
LEMMA PopCounted ==
    ASSUME NEW st \in Seq(Frames), Counted(st), NEW w \in 1 .. Len(st),
           NEW f \in Frames, f.lc = st[w].lc
    PROVE  LET new == <<f>> \o Tail(SubSeq(st, w, Len(st)))
           IN  /\ new \in Seq(Frames) /\ Counted(new) /\ Len(new) <= Len(st)
               /\ Head(SubSeq(st, w, Len(st))) = st[w]
<1>1. Len(st) \in Nat /\ \A k \in 1 .. Len(st) : st[k] \in Frames
  BY LenProperties, ElementOfSeq
<1>2. /\ Tail(SubSeq(st, w, Len(st))) = SubSeq(st, w + 1, Len(st))
      /\ Head(SubSeq(st, w, Len(st))) = st[w]
  BY <1>1, HeadTailOfSubSeq
<1> DEFINE t == SubSeq(st, w + 1, Len(st))
           new == <<f>> \o t
<1>3. /\ t \in Seq(Frames) /\ Len(t) = Len(st) - w
      /\ \A k \in 1 .. Len(st) - w : t[k] = st[w + k]
  <2>1. \A k \in w + 1 .. Len(st) : st[k] \in Frames
    BY <1>1
  <2>2. /\ t \in Seq(Frames)
        /\ Len(t) = IF w + 1 <= Len(st) THEN Len(st) - (w + 1) + 1 ELSE 0
        /\ \A k \in 1 .. Len(st) - (w + 1) + 1 : t[k] = st[(w + 1) + k - 1]
    BY <1>1, <2>1, SubSeqProperties
  <2>. QED BY <1>1, <2>2
<1> HIDE DEF t
<1>4. <<f>> \in Seq(Frames) /\ Len(<<f>>) = 1 /\ <<f>>[1] = f
  OBVIOUS
<1>5. /\ new \in Seq(Frames) /\ Len(new) = 1 + (Len(st) - w)
      /\ \A k \in 1 .. 1 + (Len(st) - w) : new[k] = IF k <= 1 THEN <<f>>[k] ELSE t[k - 1]
  <2>1. /\ new \in Seq(Frames) /\ Len(new) = Len(<<f>>) + Len(t)
        /\ \A k \in 1 .. Len(<<f>>) + Len(t) :
              new[k] = IF k <= Len(<<f>>) THEN <<f>>[k] ELSE t[k - Len(<<f>>)]
    BY <1>3, <1>4, ConcatProperties
  <2>. QED BY <1>3, <1>4, <2>1
<1> HIDE DEF new
<1>6. ASSUME NEW k \in 1 .. Len(new) PROVE new[k].lc = Len(new) - k
  <2>1. CASE k = 1
    <3>1. new[1] = f
      <4>1. 1 \in 1 .. 1 + (Len(st) - w)
        BY <1>1
      <4>2. new[1] = <<f>>[1]
        BY <1>5, <4>1
      <4>. QED BY <1>4, <4>2
    <3>2. st[w].lc = Len(st) - w
      BY DEF Counted
    <3>. QED BY <1>1, <1>5, <2>1, <3>1, <3>2
  <2>2. CASE k # 1
    <3>1. new[k] = st[w + (k - 1)] /\ w + (k - 1) \in 1 .. Len(st)
      <4>1. /\ k \in Nat /\ w \in Nat /\ k \in 1 .. 1 + (Len(st) - w) /\ ~ (k <= 1)
            /\ k - 1 \in 1 .. Len(st) - w /\ w + (k - 1) \in 1 .. Len(st)
        BY <1>1, <1>5, <2>2
      <4>2. new[k] = t[k - 1]
        BY <1>5, <4>1
      <4>3. t[k - 1] = st[w + (k - 1)]
        BY <1>3, <4>1
      <4>. QED BY <4>1, <4>2, <4>3
    <3>2. st[w + (k - 1)].lc = Len(st) - (w + (k - 1))
      BY <3>1 DEF Counted
    <3>. QED BY <1>1, <1>5, <3>1, <3>2
  <2>. QED BY <2>1, <2>2
<1>7. Counted(new)
  BY <1>6 DEF Counted
<1>8. Len(new) <= Len(st)
  BY <1>1, <1>5
<1>. QED BY <1>2, <1>5, <1>7, <1>8 DEF new, t

\* Following a link pushes a call with one link more.
LEMMA PushCounted ==
    ASSUME NEW st \in Seq(Frames), Counted(st), st # <<>>, Head(st).lc <= LinkLimit,
           NEW f \in Frames, f.lc = Head(st).lc + 1
    PROVE  LET new == <<f>> \o st
           IN  new \in Seq(Frames) /\ Counted(new) /\ Len(new) <= LinkLimit + 2
<1>1. Len(st) \in Nat \ {0} /\ Head(st) = st[1]
  BY EmptySeq, LenProperties
<1>2. st[1].lc = Len(st) - 1
  BY <1>1 DEF Counted
<1> DEFINE new == <<f>> \o st
<1>3. <<f>> \in Seq(Frames) /\ Len(<<f>>) = 1 /\ <<f>>[1] = f
  OBVIOUS
<1>4. /\ new \in Seq(Frames) /\ Len(new) = 1 + Len(st)
      /\ \A k \in 1 .. 1 + Len(st) : new[k] = IF k <= 1 THEN <<f>>[k] ELSE st[k - 1]
  BY <1>3, ConcatProperties
<1> HIDE DEF new
<1>5. ASSUME NEW k \in 1 .. Len(new) PROVE new[k].lc = Len(new) - k
  <2>1. CASE k = 1
    BY <1>1, <1>2, <1>3, <1>4, <2>1
  <2>2. CASE k # 1
    <3>1. new[k] = st[k - 1] /\ k - 1 \in 1 .. Len(st)
      BY <1>1, <1>4, <2>2
    <3>. QED BY <1>1, <1>4, <3>1 DEF Counted
  <2>. QED BY <2>1, <2>2
<1>6. Counted(new)
  BY <1>5 DEF Counted
<1>7. Len(new) <= LinkLimit + 2
  BY <1>1, <1>2, <1>4 DEF LinkLimit
<1>. QED BY <1>4, <1>6, <1>7 DEF new

\* A path begins with one frame, which has followed no link.
LEMMA StartLinks ==
    ASSUME NEW dev \in DOMAIN Vols, NEW root \in Nat, NEW cwd \in Nat,
           NEW path \in Paths, StartNamei(dev, root, cwd, path)
    PROVE  LinkInv'
<1> DEFINE f == Frame(root, cwd, path, FALSE, 0)
<1>1. f \in Frames /\ f.lc = 0
  BY DEF Frame, Frames, Paths
<1>2. stack' = <<f>> /\ query'.dev = dev /\ query'.root = root
  BY DEF StartNamei
<1> HIDE DEF f
<1>3. stack' \in Seq(Frames) /\ Len(stack') = 1 /\ stack'[1] = f
  BY <1>1, <1>2
<1>4. Counted(stack')
  BY <1>1, <1>3 DEF Counted
<1>. QED BY <1>2, <1>3, <1>4 DEF LinkInv, LinkDepth, LinkLimit

\* The steps of the walk: a name, a link, the way back.
LEMMA WalkLinks ==
    ASSUME LinkInv, DirNamei \/ OpenNamei
    PROVE  LinkInv'
<1>1. /\ Resolving /\ UNCHANGED query /\ query.dev \in DOMAIN Vols /\ query.root \in Nat
      /\ stack \in Seq(Frames) /\ Counted(stack) /\ LinkDepth
  BY DEF DirNamei, OpenNamei, LinkInv
<1>2. /\ Len(stack) \in Nat \ {0} /\ Top = stack[1] /\ Top \in Frames
      /\ Tail(stack) \in Seq(Frames) /\ Len(Tail(stack)) = Len(stack) - 1
      /\ \A k \in 1 .. Len(stack) : stack[k] \in Frames
  BY <1>1, EmptySeq, LenProperties, HeadTailProperties, ElementOfSeq DEF Resolving, Top
<1>3. ASSUME NEW st \in Seq(Frames), Counted(st), Len(st) <= LinkLimit + 2, stack' = st
      PROVE  LinkInv'
  BY <1>1, <1>3 DEF LinkInv, LinkDepth, Resolving
<1>0. ASSUME stack' = <<>> PROVE LinkInv'
  BY <1>0 DEF LinkInv, LinkDepth, LinkLimit, Counted, Resolving
<1>4. ASSUME NEW code, Fail(code) PROVE LinkInv'
  BY <1>0, <1>4 DEF Fail
<1>5. ASSUME NEW b \in Nat, Return(b) PROVE LinkInv'
  <2> DEFINE waiting == SelectInSeq(Tail(stack), LAMBDA f : Len(f.comps) > 1)
             rest == SubSeq(stack, waiting + 1, Len(stack))
  <2>1. waiting \in 0 .. Len(stack) - 1
    BY <1>2, Waiting
  <2>2. CASE waiting = 0
    BY <1>0, <1>5, <2>2 DEF Return
  <2>3. CASE waiting # 0
    <3>1. stack' = <<[Head(rest) EXCEPT !.dir = b, !.comps = Tail(@)]>> \o Tail(rest)
      BY <1>5, <2>3 DEF Return
    <3>2. SelectInSeq(Tail(stack), LAMBDA f : Len(f.comps) > 1) \in
             {k \in 1 .. Len(Tail(stack)) : Len(Tail(stack)[k].comps) > 1}
      BY <1>2, <2>3, WaitingFor
    <3>3. waiting + 1 \in 1 .. Len(stack) /\ Len(stack[waiting + 1].comps) > 1
      BY <1>1, <1>2, <3>2, HeadTailProperties DEF Resolving
    <3> HIDE DEF waiting
    <3>4. Head(rest) = stack[waiting + 1]
      BY <1>1, <1>2, <3>3, HeadTailOfSubSeq
    <3> DEFINE f == [stack[waiting + 1] EXCEPT !.dir = b, !.comps = Tail(@)]
    <3>5. f \in Frames /\ f.lc = stack[waiting + 1].lc
      <4>1. stack[waiting + 1] \in Frames
        BY <1>2, <3>3
      <4>2. Tail(stack[waiting + 1].comps) \in Seq(Names)
        BY <3>3, <4>1 DEF Frames
      <4>. QED BY <4>1, <4>2 DEF Frames
    <3>6. stack' = <<f>> \o Tail(rest)
      BY <3>1, <3>4
    <3> HIDE DEF f
    <3>7. /\ <<f>> \o Tail(rest) \in Seq(Frames) /\ Counted(<<f>> \o Tail(rest))
          /\ Len(<<f>> \o Tail(rest)) <= Len(stack)
      BY <1>1, <3>3, <3>5, PopCounted
    <3>8. Len(<<f>> \o Tail(rest)) <= LinkLimit + 2
      BY <1>1, <1>2, <3>7, LenProperties DEF LinkDepth, LinkLimit
    <3>. QED BY <1>3, <3>6, <3>7, <3>8
  <2>. QED BY <2>2, <2>3
<1>6. ASSUME NEW b \in DOMAIN Vol.inodes, IsLink(b), FollowLink(b) PROVE LinkInv'
  <2>1. CASE \E code : Fail(code)
    BY <1>4, <2>1
  <2>2. CASE ~ (\E code : Fail(code))
    <3> DEFINE f == Frame(query.root, Top.dir, Vol.inodes[b].target, TRUE, Top.lc + 1)
    <3>1. /\ ~ (Top.lc > LinkLimit) /\ Vol.inodes[b].mode # "fast" /\ stack' = <<f>> \o stack
      BY <1>6, <2>2 DEF FollowLink
    <3>2. Vol.inodes[b].target \in Paths
      BY <1>1, <1>6, <3>1, VolsAssumption DEF IsLink, Vol
    <3>3. Top.dir \in Nat /\ Top.lc \in Nat /\ Top.lc + 1 \in Nat /\ Top.lc <= LinkLimit
      BY <1>2, <3>1 DEF Frames, LinkLimit
    <3>4. f \in Frames /\ f.lc = Top.lc + 1
      BY <1>1, <3>2, <3>3 DEF Frame, Frames, Paths
    <3> HIDE DEF f
    <3>5. /\ <<f>> \o stack \in Seq(Frames) /\ Counted(<<f>> \o stack)
          /\ Len(<<f>> \o stack) <= LinkLimit + 2
      BY <1>1, <3>3, <3>4, PushCounted DEF Resolving, Top
    <3>. QED BY <1>3, <3>1, <3>5
  <2>. QED BY <2>1, <2>2
<1>7. ASSUME NEW name PROVE Lookup(Vol, Top.dir, name).blkno \in Nat
  BY <1>1, LookupNumber DEF Vol
<1>8. \A b : ReadInode(Vol, b) = "ok" => b \in DOMAIN Vol.inodes
  BY DEF ReadInode
<1> DEFINE r == Lookup(Vol, Top.dir, Head(Top.comps))
<1>9. CASE DirNamei
  <2>1. CASE stack' = <<[Top EXCEPT !.dir = r.blkno, !.comps = Tail(@)]>> \o Tail(stack)
    <3> DEFINE f == [Top EXCEPT !.dir = r.blkno, !.comps = Tail(@)]
    <3>1. f \in Frames /\ f.lc = stack[1].lc
      <4>1. Tail(Top.comps) \in Seq(Names)
        BY <1>2, <1>9 DEF DirNamei, Frames
      <4>. QED BY <1>2, <1>7, <4>1 DEF Frames
    <3> HIDE DEF f
    <3>2. Tail(SubSeq(stack, 1, Len(stack))) = Tail(stack)
      BY <1>1, SubSeqFull
    <3>3. /\ <<f>> \o Tail(stack) \in Seq(Frames) /\ Counted(<<f>> \o Tail(stack))
          /\ Len(<<f>> \o Tail(stack)) <= Len(stack)
      <4>1. 1 \in 1 .. Len(stack)
        BY <1>2
      <4>2. LET new == <<f>> \o Tail(SubSeq(stack, 1, Len(stack)))
            IN  new \in Seq(Frames) /\ Counted(new) /\ Len(new) <= Len(stack)
        BY <1>1, <3>1, <4>1, PopCounted
      <4>. QED BY <3>2, <4>2
    <3>4. Len(<<f>> \o Tail(stack)) <= LinkLimit + 2
      BY <1>1, <1>2, <3>3, LenProperties DEF LinkDepth, LinkLimit
    <3>5. stack' = <<f>> \o Tail(stack)
      BY <2>1 DEF f
    <3>. QED BY <1>3, <3>3, <3>4, <3>5
  <2>2. CASE \E code : Fail(code)
    BY <1>4, <2>2
  <2>3. CASE ReadInode(Vol, r.blkno) = "ok" /\ IsLink(r.blkno) /\ FollowLink(r.blkno)
    BY <1>6, <1>8, <2>3
  <2>. QED BY <1>9, <2>1, <2>2, <2>3 DEF DirNamei
<1>10. CASE OpenNamei
  <2>1. CASE Return(Top.dir)
    BY <1>2, <1>5, <2>1 DEF Frames
  <2>2. CASE Return(r.blkno)
    BY <1>5, <1>7, <2>2
  <2>3. CASE \E code : Fail(code)
    BY <1>4, <2>3
  <2>4. CASE ReadInode(Vol, r.blkno) = "ok" /\ IsLink(r.blkno) /\ FollowLink(r.blkno)
    BY <1>6, <1>8, <2>4
  <2>. QED BY <1>10, <2>1, <2>2, <2>3, <2>4 DEF OpenNamei
<1>. QED BY <1>9, <1>10

\* Every step of a session keeps the count of links.
LEMMA LinkStep == SessionInv /\ LinkInv /\ [Next]_vars => LinkInv'
<1> SUFFICES ASSUME SessionInv, LinkInv, [Next]_vars PROVE LinkInv'
  OBVIOUS
<1>1. CASE UNCHANGED <<query, stack>>
  BY <1>1 DEF LinkInv, LinkDepth, Counted, Resolving
<1>2. CASE stack' = <<>>
  BY <1>2 DEF LinkInv, LinkDepth, LinkLimit, Counted, Resolving
<1>3. ASSUME NEW code, Say(code) \/ Crash(code) PROVE LinkInv'
  BY <1>2, <1>3 DEF Say, Crash, Drop
<1>4. CASE Walk
  BY <1>4, WalkLinks DEF Walk
<1>5. CASE WalkIo
  BY <1>2, <1>3, <1>5 DEF WalkIo, NameiIo, Fail, DirIterateCrash
<1>6. CASE Refused \/ HandlerIo
  BY <1>3, <1>6 DEF Refused, HandlerIo, ReadFails, DirIterateCrash
<1>7. CASE Close
  BY <1>1, <1>3, <1>7 DEF Close, CloseFs, CloseGlobals, CloseDevice, doing
<1>8. CASE Open
  BY <1>1, <1>3, <1>8 DEF Open, OpenFs, OpenFails, OpenBuffer, OpenGlobals,
     OpenJournal, DirIterateCrash, doing
<1>9. CASE Handler
  BY <1>3, <1>9 DEF Handler, DoCd, DoChroot, DoLs, DoDirblocks, DoStat, DoFrag,
     DoBmap, DoCat, InDirectory, IntoBuffer, DumpFile
<1>10. ASSUME NEW c \in Cmds, DoOpen(c) \/ DoClose(c) PROVE LinkInv'
  BY <1>1, <1>10 DEF DoOpen, DoClose, namei, doing
<1>11. ASSUME Leave PROVE LinkInv'
  BY <1>2, <1>11 DEF Leave, Drop
<1>12. ASSUME NEW c \in Cmds, DoBlockCmd(c) \/ DoStats(c) PROVE LinkInv'
  BY <1>3, <1>12 DEF DoBlockCmd, DoStats, CheckDeviceOpen, DoGroup, DoExtent, ReadFails
<1>13. ASSUME NEW c \in Cmds, DoInodeCmd(c) PROVE LinkInv'
  <2> DEFINE a == IF c.name = "ls" THEN LsArg(c.arg) ELSE c.arg
  <2>1. CASE a.kind # "none" /\ gbls.fs \in live /\ StringToInode(a)
    <3>1. opened[gbls.fs] \in DOMAIN Vols /\ gbls.root \in Nat /\ gbls.cwd \in Nat
      BY <2>1, Handles DEF SessionInv, TypeInv, Globals
    <3>2. FsVol.super.sysdir \in Nat
      BY <3>1, VolsAssumption DEF FsVol
    <3>3. a.kind = "num" \/ a.path \in Paths
      <4>1. c.name # "open"
        BY <1>13 DEF DoInodeCmd, Command, InodeCmds
      <4>2. <<".">> \in Seq(Names)
        BY DebugfsAssumption
      <4>. QED BY <2>1, <4>1, <4>2, DebugfsAssumption DEF LsArg, Paths
    <3>4. CASE a.kind = "num"
      BY <1>2, <2>1, <3>4 DEF StringToInode
    <3>5. CASE a.kind # "num"
      BY <2>1, <3>1, <3>2, <3>3, <3>5, StartLinks DEF StringToInode
    <3>. QED BY <3>4, <3>5
  <2>. QED BY <1>3, <1>13, <2>1 DEF DoInodeCmd, CheckDeviceOpen
<1>14. CASE Work
  BY <1>4, <1>6, <1>7, <1>8, <1>9, <1>14 DEF Work
<1>15. CASE UNCHANGED vars
  BY <1>1, <1>15 DEF vars
<1>. QED BY <1>5, <1>6, <1>10, <1>11, <1>12, <1>13, <1>14, <1>15
         DEF Next, DoQuit, HandleSignal

\* However the links of a volume are nested or knotted, open_namei and
\* follow_link are never more than LinkLimit + 2 calls deep.
THEOREM LinksBounded == Spec => []LinkDepth
<1>1. Init => LinkInv
  BY DEF Init, LinkInv, LinkDepth, LinkLimit, Counted, Resolving
<1>2. LinkInv => LinkDepth
  BY DEF LinkInv
<1>. QED BY <1>1, <1>2, LinkStep, SessionInvariant, PTL DEF Spec
=============================================================================
