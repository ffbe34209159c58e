------------------------------ MODULE Debugfs ------------------------------
(***************************************************************************)
(* A session of debugfs.cmfs (debugfs.cmfs/commands.c, utils.c, main.c):   *)
(* one command at a time over the globals "gbls", interrupted by signals   *)
(* whose handler closes the device and exits.  cmfs_open, cmfs_close and   *)
(* the readers of single blocks are the library calls the commands make.   *)
(*                                                                         *)
(* An open file system is numbered; "live" holds those not yet closed, so  *)
(* that a leaked one and one used after cmfs_close are told apart.  What a *)
(* command prints is reduced to a code.                                    *)
(***************************************************************************)
EXTENDS Namei

CONSTANTS
    Cmds,       \* the commands typed: [name, arg]
    MaxOpens    \* bound on successful calls of cmfs_open

ASSUME DebugfsAssumption ==
    /\ MaxOpens \in Nat
    /\ \A c \in Cmds :
        /\ c.arg.kind \in {"none", "dev", "num", "path"}
        /\ c.name = "open" /\ c.arg.kind # "none" => c.arg.dev \in DOMAIN Vols
        /\ c.name # "open" => c.arg.kind # "dev"
        /\ c.arg.kind = "path" => c.arg.path \in Paths
    /\ "none" \notin DOMAIN Vols
    /\ "." \in Names

NULL == 0
NoDev == "none"
MinClusterBits == 12    \* CMFS_MIN_CLUSTERSIZE_BITS, the block size too
MaxClusterBits == 25    \* CMFS_MAX_CLUSTERSIZE_BITS
Signals == {"INT", "TERM"}

VARIABLES
    gbls,       \* struct dbgfs_gbls
    opened,     \* the device of each handle returned by cmfs_open
    live,       \* handles not closed
    pc,
    cmd,        \* the command being executed
    then,       \* where do_close returns to
    out,        \* what the last command said
    signals,    \* signals that have not been delivered
    nomem       \* history: do_open has returned without its buffer

vars == <<query, stack, result, gbls, opened, live, pc, cmd, then, out, signals, nomem>>

FsVol == Vols[opened[gbls.fs]]

NoCmd == [name |-> "none"]

Init ==
    /\ gbls = [fs |-> NULL, device |-> NoDev, blockbuf |-> FALSE, max |-> 0,
               root |-> 0, cwd |-> 0, jrnl |-> 0]
    /\ opened = <<>> /\ live = {}
    /\ pc = "prompt" /\ cmd = NoCmd /\ then = "prompt" /\ out = "none"
    /\ signals = Signals /\ nomem = FALSE
    /\ query = NoQuery /\ stack = <<>> /\ result = Pending

\* The command returns or crashes: what it was doing is forgotten.
doing == <<cmd, query, stack, result>>
Drop == cmd' = NoCmd /\ query' = NoQuery /\ stack' = <<>> /\ result' = Pending
Say(code) == out' = code /\ pc' = "prompt" /\ Drop
Crash(why) == out' = why /\ pc' = "crash" /\ Drop

\* do_command calls the handler of the first word.
Command(c, names) == pc = "prompt" /\ c.name \in names

\* check_device_open; a handle that was closed but not cleared is used.
CheckDeviceOpen(act) ==
    IF gbls.fs = NULL THEN Say("no device")
    ELSE IF gbls.fs \notin live THEN Crash("closed fs") ELSE act

\* A block could not be read, or cmfs_malloc_block had no memory for it: that
\* is an error or, by an errno that posix_memalign does not set, abort().
ReadFails == Say("io") \/ Crash("abort")

\* cmfs_dir_iterate2 of a directory, with memory for ctx.buf and none for
\* ctx.di: it frees ctx.di, which nothing has set.
DirIterateCrash(vol, dir) == CheckDirectory(vol, dir) = "ok" /\ Crash("bad free")

-----------------------------------------------------------------------------
(* do_close, in the steps a signal can fall between.  It is called by the  *)
(* user, by do_open, do_quit and the signal handler.                       *)

CallClose(caller) == pc' = "close" /\ then' = caller

\* cmfs_freefs
FreeFs(fs) == live \ {fs}

\* cmfs_close
CloseFs ==
    /\ pc = "close"
    /\ IF gbls.fs = NULL
       THEN out' = "no device" /\ pc' = then /\ UNCHANGED <<doing, live>>
       ELSE IF gbls.fs \notin live THEN Crash("closed twice") /\ UNCHANGED live
       ELSE live' = FreeFs(gbls.fs) /\ pc' = "closed" /\ UNCHANGED <<doing, out>>
    /\ UNCHANGED <<gbls, opened, then, signals, nomem>>

\* Mutant of CloseGlobals: gbls.fs is left.
CloseGlobalsKeeps ==
    /\ pc = "closed" /\ pc' = "cleared"
    /\ gbls' = [gbls EXCEPT !.blockbuf = FALSE]
    /\ UNCHANGED <<doing, opened, live, then, out, signals, nomem>>

CloseGlobals ==
    /\ pc = "closed" /\ pc' = "cleared"
    /\ gbls' = [gbls EXCEPT !.fs = NULL, !.blockbuf = FALSE]
    /\ UNCHANGED <<doing, opened, live, then, out, signals, nomem>>

CloseDevice ==
    /\ pc = "cleared" /\ pc' = then
    /\ gbls' = [gbls EXCEPT !.device = NoDev]
    /\ UNCHANGED <<doing, opened, live, then, out, signals, nomem>>

DoClose(c) ==
    /\ Command(c, {"close"})
    /\ out' = "none" /\ CallClose("prompt")
    /\ UNCHANGED <<doing, gbls, opened, live, signals, nomem>>

-----------------------------------------------------------------------------
(* do_open and cmfs_open.                                                  *)

DoOpen(c) ==
    /\ Command(c, {"open"})
    /\ cmd' = c /\ out' = "none"
    /\ IF gbls.device # NoDev THEN CallClose("open") ELSE pc' = "open" /\ UNCHANGED then
    /\ UNCHANGED <<namei, gbls, opened, live, signals, nomem>>

\* cmfs_read_super, when the block can be read.
ReadSuper(sb) == IF sb.magic THEN "ok" ELSE "bad magic"

\* The first check of cmfs_open that a super block fails.
OpenCode(sb) ==
    CASE ReadSuper(sb) # "ok" -> ReadSuper(sb)
      [] sb.bits = 0 \/ sb.blkno # SuperBlk -> "corrupt super"
      [] sb.cbits \notin MinClusterBits .. MaxClusterBits -> "corrupt super"
      [] sb.root = 0 \/ sb.sysdir = 0 -> "corrupt super"
      [] sb.bits # MinClusterBits -> "block size"
      [] OTHER -> "ok"

OpenFails(code) ==
    /\ gbls' = [gbls EXCEPT !.fs = NULL]
    /\ Say(code) /\ UNCHANGED <<opened, live>>

OpenFs ==
    /\ pc = "open"
    /\ IF cmd.arg.kind = "none" THEN Say("usage") /\ UNCHANGED <<gbls, opened, live>>
       ELSE LET code == OpenCode(Vols[cmd.arg.dev].super)
            IN  \/ OpenFails("io")      \* or no memory
                \/ Crash("abort") /\ UNCHANGED <<gbls, opened, live>>
                \/ code # "ok" /\ OpenFails(code)
                \/ /\ code = "ok" /\ Len(opened) < MaxOpens
                   /\ opened' = Append(opened, cmd.arg.dev)
                   /\ live' = live \cup {Len(opened')}
                   /\ gbls' = [gbls EXCEPT !.fs = Len(opened')]
                   /\ pc' = "opened" /\ UNCHANGED <<doing, out>>
    /\ UNCHANGED <<then, signals, nomem>>

\* Without memory for the buffer do_open returns as it is.
OpenBuffer ==
    /\ pc = "opened"
    /\ \/ /\ pc' = "buffer" /\ gbls' = [gbls EXCEPT !.blockbuf = TRUE]
          /\ UNCHANGED <<doing, out, nomem>>
       \/ Say("no memory") /\ nomem' = TRUE /\ UNCHANGED gbls
       \/ Crash("abort") /\ UNCHANGED <<gbls, nomem>>
    /\ UNCHANGED <<opened, live, then, signals>>

\* Mutant of OpenGlobals: the working directory of the last device stays.
OpenGlobalsOldCwd ==
    /\ pc = "buffer" /\ pc' = "globals"
    /\ gbls' = [gbls EXCEPT !.device = cmd.arg.dev, !.max = Blocks(FsVol),
                            !.root = FsVol.super.root,
                            !.cwd = IF @ = 0 THEN FsVol.super.root ELSE @]
    /\ UNCHANGED <<doing, opened, live, then, out, signals, nomem>>

OpenGlobals ==
    /\ pc = "buffer" /\ pc' = "globals"
    /\ gbls' = [gbls EXCEPT !.device = cmd.arg.dev, !.max = Blocks(FsVol),
                            !.root = FsVol.super.root, !.cwd = FsVol.super.root]
    /\ UNCHANGED <<doing, opened, live, then, out, signals, nomem>>

OpenJournal ==
    /\ pc = "globals"
    /\ \/ /\ \E r \in {Lookup(FsVol, FsVol.super.sysdir, "journal"), Err("io")} :
                gbls' = [gbls EXCEPT !.jrnl = r.blkno]
          /\ Say("ok")
       \/ Crash("abort") /\ UNCHANGED gbls
       \/ DirIterateCrash(FsVol, FsVol.super.sysdir) /\ UNCHANGED gbls
    /\ UNCHANGED <<opened, live, then, signals, nomem>>

-----------------------------------------------------------------------------
(* Commands about an inode: process_inode_args, process_ls_args and the    *)
(* same lines in do_stat and do_bmap; then string_to_inode.                *)

InodeCmds == {"cd", "chroot", "ls", "stat", "stat -t", "cat", "frag", "bmap", "dirblocks"}

\* process_ls_args: without an argument ls shows the working directory.
LsArg(a) ==
    IF a.kind # "none" THEN a
    ELSE [kind |-> "path", sys |-> FALSE, path |-> [abs |-> FALSE, comps |-> <<".">>]]

\* string_to_inode: "<n>" is a number, "//" begins at the system directory.
StringToInode(a) ==
    IF a.kind = "num"
    THEN query' = NoQuery /\ stack' = <<>> /\ result' = Ok(a.n)
    ELSE StartNamei(opened[gbls.fs], IF a.sys THEN FsVol.super.sysdir ELSE gbls.root,
                    gbls.cwd, a.path)

\* "stat -t" with nothing behind it gives string_to_inode a null pointer.
DoInodeCmd(c) ==
    LET a == IF c.name = "ls" THEN LsArg(c.arg) ELSE c.arg
    IN  /\ Command(c, InodeCmds)
        /\ CheckDeviceOpen(
               IF a.kind # "none"
               THEN cmd' = c /\ StringToInode(a) /\ pc' = "namei" /\ out' = "none"
               ELSE IF c.name = "stat -t" THEN Crash("no string") ELSE Say("usage"))
        /\ UNCHANGED <<gbls, opened, live, then, signals, nomem>>

Walk == pc = "namei" /\ (DirNamei \/ OpenNamei)
        /\ UNCHANGED <<gbls, opened, live, pc, cmd, then, out, signals, nomem>>
WalkIo ==
    /\ pc = "namei"
    /\ \/ NameiIo /\ UNCHANGED <<pc, cmd, out>>
       \/ Resolving /\ Crash("abort")
       \/ Resolving /\ Top.comps # <<"">> /\ DirIterateCrash(Vol, Top.dir)
    /\ UNCHANGED <<gbls, opened, live, then, signals, nomem>>

Refusal ==
    IF result.code # "ok" THEN result.code
    ELSE IF cmd.name \notin {"stat", "stat -t"} /\ result.blkno >= gbls.max
         THEN "bad blkno" ELSE "ok"

Refused ==
    /\ pc = "namei" /\ ~ Resolving /\ Refusal # "ok"
    /\ Say(Refusal)
    /\ UNCHANGED <<gbls, opened, live, then, signals, nomem>>

\* The handler of one of the commands "names" goes on with the inode.
Found(names) ==
    /\ pc = "namei" /\ ~ Resolving /\ Refusal = "ok" /\ cmd.name \in names
    /\ UNCHANGED <<opened, live, then, signals, nomem>>

\* Every handler reads the inode first, which may fail, as may an allocation;
\* ls goes on to cmfs_dir_iterate (dirblocks walks the blocks itself).
HandlerIo ==
    /\ \/ Found(InodeCmds) /\ ReadFails
       \/ Found({"ls"}) /\ DirIterateCrash(FsVol, result.blkno)
    /\ UNCHANGED gbls

InDirectory(b, act) ==
    IF CheckDirectory(FsVol, b) = "ok" THEN act
    ELSE Say(CheckDirectory(FsVol, b)) /\ UNCHANGED gbls

\* cmfs_read_inode into gbls.blockbuf, which is NULL if do_open had no memory.
IntoBuffer(b, act) ==
    IF ReadInode(FsVol, b) # "ok" THEN Say(ReadInode(FsVol, b))
    ELSE IF ~ gbls.blockbuf THEN Crash("no buffer") ELSE act

DoCd ==
    /\ Found({"cd"})
    /\ InDirectory(result.blkno,
            gbls' = [gbls EXCEPT !.cwd = result.blkno] /\ Say("ok"))

DoChroot ==
    /\ Found({"chroot"})
    /\ InDirectory(result.blkno,
            gbls' = [gbls EXCEPT !.root = result.blkno] /\ Say("ok"))

DoLs ==
    /\ Found({"ls"})
    /\ InDirectory(result.blkno, Say("shown") /\ UNCHANGED gbls)

DoDirblocks ==
    /\ Found({"dirblocks"})
    /\ InDirectory(result.blkno,
            IntoBuffer(result.blkno, Say("shown")) /\ UNCHANGED gbls)

DoStat ==
    /\ Found({"stat", "stat -t"})
    /\ IntoBuffer(result.blkno, Say("shown"))
    /\ UNCHANGED gbls

\* FileRead counts the extents; one that cannot be read is an error.
DoFrag ==
    /\ Found({"frag"})
    /\ IntoBuffer(result.blkno, Say("shown"))
    /\ UNCHANGED gbls

\* FileRead looks the block up, if the second argument is a number.
DoBmap ==
    /\ Found({"bmap"})
    /\ IntoBuffer(result.blkno, Say("shown")) \/ Say("bad blkno")
    /\ UNCHANGED gbls

\* cmfs_read_cached_inode: its results.
ReadCachedInode(b) == {ReadInode(FsVol, b), "io"}

\* dump_file leaves when the inode was read, and goes on with the null pointer
\* when it was not.
DumpFile(b) ==
    \E code \in ReadCachedInode(b) :
        IF code = "ok" THEN Say("nothing") ELSE Crash("no inode")

DoCat ==
    /\ Found({"cat"})
    /\ IntoBuffer(result.blkno,
            IF FsVol.inodes[result.blkno].mode # "file" THEN Say("not regular")
            ELSE DumpFile(result.blkno))
    /\ UNCHANGED gbls

-----------------------------------------------------------------------------
(* Commands about a block: process_inodestr_args, do_group, do_extent.     *)

OnDevice(b) == SuperBlk <= b /\ b <= Blocks(FsVol)

\* cmfs_read_group_desc: the value of memcpy, the address it copied to, is
\* taken for a difference.
ReadGroupDesc(b) == IF OnDevice(b) THEN "bad magic" ELSE "bad blkno"

DoGroup(b) ==
    IF b = 0 THEN Say("nothing")
    ELSE Say(ReadGroupDesc(b)) \/ ReadFails

\* cmfs_read_extent_block fills the buffer before it checks the counts.
DoExtent(b) ==
    IF ~ OnDevice(b) THEN Say("bad blkno")
    ELSE \/ ReadFails
         \/ IF b \notin DOMAIN FsVol.extents THEN Say("bad magic")
            ELSE IF ~ gbls.blockbuf THEN Crash("no buffer")
            ELSE Say(IF FsVol.extents[b] THEN "shown" ELSE "corrupt")

\* do_stats shows the super block that is in memory.
DoStats(c) ==
    /\ Command(c, {"stats"})
    /\ CheckDeviceOpen(Say("shown"))
    /\ UNCHANGED <<gbls, opened, live, then, signals, nomem>>

DoBlockCmd(c) ==
    /\ Command(c, {"group", "extent"})
    /\ CheckDeviceOpen(
           IF c.arg.kind # "num" THEN Say("usage")
           ELSE IF c.arg.n >= gbls.max THEN Say("bad blkno")
           ELSE IF c.name = "group" THEN DoGroup(c.arg.n) ELSE DoExtent(c.arg.n))
    /\ UNCHANGED <<gbls, opened, live, then, signals, nomem>>

-----------------------------------------------------------------------------
(* Leaving.                                                                *)

Leave ==
    /\ Drop /\ out' = "none"
    /\ IF gbls.device # NoDev THEN CallClose("exit") ELSE pc' = "exit" /\ UNCHANGED then

DoQuit(c) ==
    /\ Command(c, {"quit"})
    /\ Leave /\ UNCHANGED <<gbls, opened, live, signals, nomem>>

\* handle_signal, at any step; the end of the input raises SIGTERM.  The other
\* signal can interrupt the handler, and neither returns.
HandleSignal(s) ==
    /\ pc \notin {"exit", "crash"}
    /\ signals' = signals \ {s} /\ Leave
    /\ UNCHANGED <<gbls, opened, live, nomem>>

Handler == DoCd \/ DoChroot \/ DoLs \/ DoDirblocks
           \/ DoStat \/ DoFrag \/ DoBmap \/ DoCat
Close == CloseFs \/ CloseGlobals \/ CloseDevice
Open == OpenFs \/ OpenBuffer \/ OpenGlobals \/ OpenJournal
Work == Close \/ Open \/ Walk \/ Refused \/ Handler

Next ==
    \/ \E c \in Cmds : \/ DoOpen(c) \/ DoClose(c) \/ DoQuit(c)
                       \/ DoInodeCmd(c) \/ DoBlockCmd(c) \/ DoStats(c)
    \/ Work \/ WalkIo \/ HandlerIo
    \/ \E s \in signals : HandleSignal(s)

\* The program does not stop inside a command; a library call returns.
Spec == Init /\ [][Next]_vars /\ WF_vars(Work)

-----------------------------------------------------------------------------
(* Properties.                                                             *)

TypeOK ==
    /\ gbls.fs \in 0 .. Len(opened) /\ live \subseteq DOMAIN opened
    /\ gbls.device \in DOMAIN Vols \cup {NoDev}
    /\ gbls.blockbuf \in BOOLEAN /\ nomem \in BOOLEAN
    /\ {gbls.root, gbls.cwd, gbls.jrnl, gbls.max} \subseteq Nat
    /\ pc \in {"prompt", "namei", "open", "opened", "buffer", "globals",
               "close", "closed", "cleared", "exit", "crash"}
    /\ then \in {"prompt", "open", "exit"} /\ signals \subseteq Signals

\* Between commands the device that is named is the one that is open, with a
\* buffer: do_open and do_close keep fs, blockbuf and device in step whatever
\* fails in them.
DeviceIsOpen ==
    pc = "prompt" /\ gbls.device # NoDev =>
        gbls.fs \in live /\ opened[gbls.fs] = gbls.device /\ gbls.blockbuf

\* Nothing is left open by opening another device or by an open that fails,
\* once do_open has always had memory for its buffer.
OneHandle == pc = "prompt" /\ ~ nomem => live = {gbls.fs} \ {NULL}

\* Root and working directory are directories of the device that is open, not
\* of one that was open before, on volumes whose super blocks name directories.
RootAndCwd ==
    pc = "prompt" /\ gbls.device # NoDev =>
        \A d \in {gbls.root, gbls.cwd} : CheckDirectory(Vols[gbls.device], d) = "ok"

\* Between commands the globals are those of one open device: the handle, the
\* buffer, the name and the directories never belong to different ones,
\* whatever failed in the commands before.
GlobalsInStep == TypeOK /\ DeviceIsOpen /\ OneHandle /\ RootAndCwd

\* What can end the program other than exit: abort() without memory, the pointer
\* cmfs_dir_iterate2 frees without having set it when an allocation fails, the
\* buffer that do_open had no memory for, an inode that could be read once and
\* not again, "stat -t" alone, and a signal between cmfs_close and the clearing
\* of gbls.fs.
CrashHasCause ==
    pc = "crash" =>
        \/ out \in {"abort", "bad free", "no string", "no inode"}
        \/ out = "no buffer" /\ nomem
        \/ out = "closed twice" /\ signals # Signals

\* Every command comes to an end, whatever links its path leads through and
\* wherever a signal interrupts it.
CommandEnds == [](pc # "prompt" => <>(pc \in {"prompt", "exit", "crash"}))
=============================================================================
