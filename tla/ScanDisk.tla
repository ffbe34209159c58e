------------------------------ MODULE ScanDisk ------------------------------
(***************************************************************************)
(* The device scan of libtools-internal/scandisk.c and the program that    *)
(* uses it (main under DEBUG_EXE): scan_for_dev collects the block devices *)
(* from /sys/block, /proc/partitions and /dev, and main scans again as     *)
(* long as a disk has no path yet.  Devices, their paths and their holders *)
(* come and go while the scan runs.                                        *)
(*                                                                         *)
(* A device stands for its major and minor number.  Every system call on a *)
(* path is one step or part of one; where a path vanishes between two      *)
(* calls, the step chooses which of them noticed.                          *)
(*                                                                         *)
(* Opening or reading a file, reading a directory and allocating memory    *)
(* may also fail for what is there (no descriptor left, no memory, no      *)
(* permission), and the code passes over most of these failures without a  *)
(* word: the history variable failed keeps them.  stat and lstat are       *)
(* assumed to succeed for what is there.                                   *)
(***************************************************************************)
EXTENDS Integers, Sequences, SequencesExt

CONSTANTS
    Disks,      \* the names in /sys/block, sorted
    Parts,      \* [disk -> the partitions in its directory, sorted]
    NotDisks,   \* devices whose type file names something else than a disk
    Dm,         \* devices with the major number of device-mapper
    ProcOrder,  \* the devices in the order of /proc/partitions
    DevDir,     \* the names in /dev, sorted; "mapper" is a directory
    MapperDir,  \* the names in /dev/mapper, sorted
    PathDev,    \* [path -> the device it leads to, directly or by a symlink]
    SdPaths,    \* paths that begin with /dev/sd
    Layouts,    \* are the entries of /sys/block links or directories?
    MaxEvents   \* bound, by layout and delay: devices, paths and holders that
                \* come or go, and calls in a scan that fail and are passed over

Mapper == "mapper"
Children(d) == IF d \in DOMAIN Parts THEN Parts[d] ELSE <<>>
Devs == ToSet(Disks) \cup UNION {ToSet(Parts[d]) : d \in DOMAIN Parts}
Paths == DOMAIN PathDev
NoPath == ""            \* add_to_list found or allocated nothing
NullPath == "(null)"    \* its strdup failed: what printf makes of it
ParentOf(d) == {p \in DOMAIN Parts : d \in ToSet(Parts[p])}

\* A partition belongs to one disk and is no disk itself; device-mapper's
\* devices have no partitions of their own.
ASSUME DevicesAssumption ==
    /\ Disks \in Seq(Devs) /\ IsInjective(Disks)
    /\ DOMAIN Parts \subseteq ToSet(Disks) /\ Parts \in [DOMAIN Parts -> Seq(Devs)]
    /\ \A d \in DOMAIN Parts :
        /\ IsInjective(Parts[d]) /\ ToSet(Parts[d]) \cap ToSet(Disks) = {}
        /\ \A e \in DOMAIN Parts \ {d} : ToSet(Parts[d]) \cap ToSet(Parts[e]) = {}
    /\ Dm \cap (NotDisks \cup DOMAIN Parts) = {}
    /\ ProcOrder \in Seq(Devs) /\ IsInjective(ProcOrder) /\ ToSet(ProcOrder) = Devs
\* Every path is in one of the two directories that lsdev reads.
ASSUME PathsAssumption ==
    /\ PathDev \in [Paths -> Devs]
    /\ (Paths \cup {Mapper}) \cap Devs = {} /\ Mapper \notin Paths
    /\ Paths \cap {NoPath, NullPath} = {}
    /\ DevDir \in Seq(Paths \cup {Mapper}) /\ MapperDir \in Seq(Paths)
    /\ Paths \cup {Mapper} = ToSet(DevDir) \cup ToSet(MapperDir)
\* Every entry of /sys/block is a link or a directory.
ASSUME LayoutsAssumption == Layouts \subseteq {"link", "dir"}

\* The elements of s that are in S, in their order: what scandir or a loop
\* over a list leaves of it.
Those(s, S) ==
    LET upto[i \in 0 .. Len(s)] ==
            IF i = 0 THEN <<>>
            ELSE IF s[i] \in S THEN Append(upto[i - 1], s[i]) ELSE upto[i - 1]
    IN  upto[Len(s)]

VARIABLES
    layout,
    present,    \* devices the kernel knows
    paths,      \* paths in /dev
    held,       \* devices another device is built on
    events,     \* how many of them changed
    pc,
    todo,       \* names left in the directory that is read
    sub,        \* names left in the subdirectory
    holder,     \* has_holder of the entry that is visited
    again,      \* will the subdirectory be read once more?
    list,       \* the devnodes of devlisthead
    res,        \* sysfs, procpart, lsdev and mapper of devlisthead
    delay, rescan, devlist,     \* of main
    stable,     \* history: devices and paths there since the scan began
    seen,       \* history: devices and paths there at some time since
    ever,       \* history: devices held at some time since
    heldFrom,   \* history: devices held when it began
    failed      \* history: calls that failed since and were passed over

world == <<layout, present, paths, held, events>>
watched == <<stable, seen, ever, heldFrom>>
history == <<watched, failed>>
client == <<delay, rescan, devlist>>
vars == <<world, pc, todo, sub, holder, again, list, res, client,
          history>>

NoResult == [sysfs |-> 0, procpart |-> 0, lsdev |-> 0, mapper |-> 0]

\* What is there when a scan starts.
Watch ==
    /\ stable' = present \cup paths
    /\ seen' = present \cup paths
    /\ ever' = held
    /\ heldFrom' = held
    /\ failed' = {}

Init ==
    /\ layout \in Layouts
    /\ present \in {Devs, Devs \ Dm}
    /\ paths \in {{p \in Paths : PathDev[p] \in present}, {}}
    /\ held \in {{}, DOMAIN Parts \cap present}
    /\ events = 0
    /\ pc = "start"
    /\ todo = <<>> /\ sub = <<>> /\ holder = FALSE /\ again = FALSE
    /\ list = <<>>
    /\ res = NoResult
    /\ delay = 1 /\ rescan = FALSE /\ devlist = <<>>
    /\ stable = {} /\ seen = {} /\ ever = {} /\ heldFrom = {} /\ failed = {}

-----------------------------------------------------------------------------
(* The kernel and udev, while a scan runs or main sleeps.                  *)

Event ==
    /\ events + Cardinality(failed) < MaxEvents[layout][delay] /\ events' = events + 1
    /\ pc \notin {"done", "error"}
unseen == <<layout, heldFrom, failed, pc, todo, sub, holder, again, list, res, client>>

Plug(d) ==
    /\ Event
    /\ d \notin present /\ ParentOf(d) \subseteq present
    /\ present' = present \cup {d}
    /\ seen' = seen \cup {d}
    /\ UNCHANGED <<unseen, paths, held, stable, ever>>

\* A disk goes with its partitions.
Unplug(d) ==
    LET gone == {d} \cup ToSet(Children(d))
    IN  /\ Event
        /\ d \in present
        /\ present' = present \ gone
        /\ held' = held \ gone
        /\ stable' = stable \ gone
        /\ UNCHANGED <<unseen, paths, seen, ever>>

\* udev makes a path for a device, or removes the path of one that is gone.
Udev(p) ==
    /\ Event
    /\ IF p \in paths
       THEN /\ PathDev[p] \notin present
            /\ paths' = paths \ {p}
            /\ stable' = stable \ {p} /\ UNCHANGED seen
       ELSE /\ PathDev[p] \in present
            /\ paths' = paths \cup {p}
            /\ seen' = seen \cup {p} /\ UNCHANGED stable
    /\ UNCHANGED <<unseen, present, held, ever>>

Hold(d) ==
    /\ Event
    /\ d \in present \ held
    /\ held' = held \cup {d}
    /\ ever' = ever \cup {d}
    /\ UNCHANGED <<unseen, present, paths, stable, seen>>

World == (\E d \in Devs : Plug(d) \/ Unplug(d) \/ Hold(d)) \/ \E p \in Paths : Udev(p)

\* Calls on what is there that fail in the middle of a step.
Fails(calls) ==
    /\ failed' = failed \cup calls
    /\ calls # {} => events + Cardinality(failed') <= MaxEvents[layout][delay]

-----------------------------------------------------------------------------
(* The list.                                                               *)

Node(d) == [dev |-> d, sysfs |-> FALSE, disk |-> 0, holders |-> FALSE,
            proc |-> FALSE, paths |-> <<>>, mapper |-> FALSE]

\* find_dev_by_majmin: the first node of the device, 0 if there is none.
FindDev(l, d) == SelectInSeq(l, LAMBDA n : n.dev = d)

\* alloc_list_obj
Alloc(l, node) == Append(l, node)

\* flush_dev_cache: every node is freed, and every path of it.
FlushDevCache == list' = <<>>

\* The node of the device, appended if need be.
WithDev(l, d) == IF FindDev(l, d) = 0 THEN Alloc(l, Node(d)) ELSE l

\* add_lsdev_block and add_path_obj.
AddPath(l, p) ==
    LET w == WithDev(l, PathDev[p])
    IN  [w EXCEPT ![FindDev(w, PathDev[p])].paths = Append(@, p)]

\* sysfs_is_disk: 1 for a disk, 0 for something else; a mapped device has
\* neither a type nor a media file.  -1 stands for every answer below 0.
IsDisk(d) == CASE d \in Dm -> -1 [] d \in NotDisks -> 0 [] OTHER -> 1

\* Mutant of HasHolder: only the holders of the device itself count.
HasHolderOwn(d, parent) == d \in held

\* has_holder in scansysfs: a partition inherits the holder of its disk.
HasHolder(d, parent) == parent \/ d \in held

\* The node of an entry with a dev file: its kind of disk and its holders.
SysNode(d, k, h) == [dev |-> d, sysfs |-> TRUE, disk |-> k, holders |-> h,
                     proc |-> FALSE, paths |-> <<>>, mapper |-> FALSE]

\* What sysfs_is_disk and sysfs_has_subdirs_entries answer.  A type file that
\* cannot be opened gives -2, one that cannot be read 0, and a directory of
\* holders that cannot be read -1, which counts as a holder.  Of a device that
\* is vanishing, whatever has vanished is not found.
Kinds(d) == IF d \in Dm THEN {IsDisk(d)} ELSE {IsDisk(d), -1, 0}
Holders(d, parent) == {TRUE, IF d \in present THEN HasHolder(d, parent) ELSE parent}
SysNodes(d, parent) == {SysNode(d, k, h) : k \in Kinds(d), h \in Holders(d, parent)}

\* The failures behind what is known of a device that is there.
Misread(n, parent) ==
    {c \in {"type", "holders"} \X {n.dev} :
        /\ n.dev \in present
        /\ \/ c[1] = "type" /\ n.disk # IsDisk(n.dev)
           \/ c[1] = "holders" /\ n.holders # HasHolder(n.dev, parent)}
Unread(d) == {"dev"} \X ({d} \cap present)

-----------------------------------------------------------------------------
(* scan_for_dev                                                            *)

scanning == <<todo, sub, holder, again>>

\* A new list, if there is memory for it: main hands over NULL for the old one.
Start ==
    /\ pc = "start"
    /\ list' = <<>>
    /\ res' = NoResult
    /\ Watch
    /\ pc' \in {"sysblock", "error"}
    /\ UNCHANGED <<world, scanning, client>>

\* Mutant of Leave: the error of a recursive call is dropped.
LeaveOk(name, value, next) ==
    /\ res' = [res EXCEPT ![name] = 1]
    /\ pc' = next
    /\ todo' = <<>> /\ sub' = <<>> /\ holder' = FALSE /\ again' = FALSE

Leave(name, value, next) ==
    /\ res' = [res EXCEPT ![name] = value]
    /\ pc' = next
    /\ todo' = <<>> /\ sub' = <<>> /\ holder' = FALSE /\ again' = FALSE

\* emergencyout: the list is freed with its nodes.
Emergency ==
    /\ FlushDevCache
    /\ pc' = "error"
    /\ UNCHANGED <<scanning, res>>

\* scansysfs of /sys/block: the names that are there.
SysBlock ==
    /\ pc = "sysblock"
    /\ \/ todo' = Those(Disks, present)
          /\ pc' = "entry" /\ UNCHANGED <<sub, holder, again, res>>
       \/ Leave("sysfs", -1, "procpart")
    /\ UNCHANGED <<world, list, client, history>>

\* An entry of /sys/block becomes a node, unless its dev file is gone or
\* cannot be read.
SysEntry ==
    /\ pc = "entry" /\ todo # <<>>
    /\ LET d == Head(todo)
       IN  \/ /\ \/ \E n \in SysNodes(d, FALSE) :
                        /\ list' = Alloc(list, n) /\ holder' = n.holders
                        /\ Fails(Misread(n, FALSE))
                 \/ holder' = FALSE /\ UNCHANGED list /\ Fails(Unread(d))
              /\ again' = (layout = "dir")
              /\ pc' = "descend"
              /\ UNCHANGED <<todo, sub, res>>
           \/ Emergency /\ UNCHANGED failed
    /\ UNCHANGED <<world, client, watched>>

\* Its directory is read: through the link, and again if it is no link.  A
\* directory that vanished is noticed by stat or by scandir.
Descend ==
    /\ pc = "descend"
    /\ LET d == Head(todo)
       IN  \/ /\ d \in present
              /\ sub' = Those(Children(d), present)
              /\ pc' = "sub"
              /\ UNCHANGED <<todo, holder, again, res>>
           \/ /\ d \notin present
              /\ todo' = Tail(todo)
              /\ pc' = "entry"
              /\ UNCHANGED <<sub, holder, again, res>>
           \/ Leave("sysfs", -1, "procpart")
    /\ UNCHANGED <<world, list, client, history>>

\* A partition, unless its dev file is gone or cannot be read.
SubEntry ==
    /\ pc = "sub" /\ sub # <<>>
    /\ LET c == Head(sub)
       IN  /\ \/ \E n \in SysNodes(c, holder) :
                    list' = Alloc(list, n) /\ Fails(Misread(n, holder))
              \/ UNCHANGED list /\ Fails(Unread(c))
           /\ sub' = Tail(sub)
           /\ UNCHANGED <<pc, todo, holder, again, res>>
    /\ UNCHANGED <<world, client, watched>>

\* The scan of the subdirectory fails, because the partition's own directory
\* could not be read or for want of memory: either makes it -1.
SubFails ==
    /\ pc = "sub" /\ sub # <<>>
    /\ Leave("sysfs", -1, "procpart")
    /\ UNCHANGED <<world, list, client, history>>

SubEnd ==
    /\ pc = "sub" /\ sub = <<>>
    /\ IF again THEN pc' = "descend" /\ again' = FALSE /\ UNCHANGED todo
       ELSE pc' = "entry" /\ todo' = Tail(todo) /\ UNCHANGED again
    /\ UNCHANGED <<world, sub, holder, list, res, client, history>>

SysEnd ==
    /\ pc = "entry" /\ todo = <<>>
    /\ Leave("sysfs", 1, "procpart")
    /\ UNCHANGED <<world, list, client, history>>

\* scanprocpart: nodes for the devices sysfs did not show, of the lines read.
Missing(lines) == {d \in lines : FindDev(list, d) = 0}
Partitions == <<"read", "/proc/partitions">>

\* An error of read() looks like the end of the file.
Lines == {present \cap ToSet(SubSeq(ProcOrder, 1, k)) : k \in 0 .. Len(ProcOrder)}

ProcPart ==
    /\ pc = "procpart"
    /\ \/ /\ Leave("procpart", 0, "lsdev")
          /\ UNCHANGED <<list, failed>>
       \/ \E lines \in Lines :
            LET new == Those(ProcOrder, Missing(lines))
                l == list \o [i \in DOMAIN new |-> Node(new[i])]
            IN  /\ list' = [i \in DOMAIN l |->
                              IF l[i].dev \in lines /\ FindDev(l, l[i].dev) = i
                              THEN [l[i] EXCEPT !.proc = TRUE] ELSE l[i]]
                /\ Fails({x \in {Partitions} : lines # present})
                /\ Leave("procpart", 1, "lsdev")
       \/ Missing(present) # {} /\ Emergency /\ UNCHANGED failed
    /\ UNCHANGED <<world, client, watched>>

\* lsdev of /dev.
LsDev ==
    /\ pc = "lsdev"
    /\ \/ todo' = Those(DevDir, paths \cup {Mapper})
          /\ pc' = "path" /\ UNCHANGED <<sub, holder, again, res>>
       \/ Leave("lsdev", -1, "mapper")
    /\ UNCHANGED <<world, list, client, history>>

\* The directory /dev/mapper, which may be unreadable, or a path.
LsMapper ==
    /\ pc = "path" /\ todo # <<>> /\ Head(todo) = Mapper
    /\ \/ /\ todo' = Those(MapperDir, paths) \o Tail(todo)
          /\ UNCHANGED <<pc, sub, holder, again, res>>
       \/ Leave("lsdev", -1, "mapper")
    /\ UNCHANGED <<world, list, client, history>>

LsPath ==
    /\ pc = "path" /\ todo # <<>> /\ Head(todo) # Mapper
    /\ LET p == Head(todo)
       IN  \/ /\ IF p \in paths
                 THEN list' = AddPath(list, p)
                 ELSE UNCHANGED list
              /\ todo' = Tail(todo)
              /\ UNCHANGED <<pc, sub, holder, again, res>>
           \/ p \in paths /\ Emergency
    /\ UNCHANGED <<world, client, history>>

LsEnd ==
    /\ pc = "path" /\ todo = <<>>
    /\ Leave("lsdev", 1, "mapper")
    /\ UNCHANGED <<world, list, client, history>>

ProcDevices == <<"read", "/proc/devices">>

\* scanmapper, which may not be able to open /proc/devices (0) or to read it.
ScanMapper ==
    /\ pc = "mapper"
    /\ \/ /\ list' = [i \in DOMAIN list |->
                        [list[i] EXCEPT !.mapper = list[i].dev \in Dm]]
          /\ res' = [res EXCEPT !.mapper = 1] /\ UNCHANGED failed
       \/ res' = [res EXCEPT !.mapper = 1] /\ UNCHANGED list /\ Fails({ProcDevices})
       \/ UNCHANGED <<list, res, failed>>
    /\ pc' = "filter"
    /\ UNCHANGED <<world, scanning, client, watched>>

-----------------------------------------------------------------------------
(* The filter and the loop of main.                                        *)

\* Mutant of Candidate: a CD drive counts as a disk.
CandidateAny(n) == n.sysfs /\ ~ n.holders

\* filter_devices: the nodes that count as free disks.
Candidate(n) == n.sysfs /\ n.disk # 0 /\ ~ n.holders

\* add_to_list: the paths of the right kind.
Named(n) == Those(n.paths, IF n.mapper THEN ToSet(MapperDir) ELSE SdPaths)
First(n) == IF Named(n) = <<>> THEN NoPath ELSE Head(Named(n))

\* Where malloc fails for the first of them, the next one is tried; where
\* strdup fails, the device is added without a path.
Other(n) == ToSet(Tail(Named(n))) \cup {NoPath, NullPath}

RunFilter ==
    LET free == Those(list, {n \in ToSet(list) : Candidate(n)})
    IN  /\ pc = "filter"
        /\ rescan' = \E i \in DOMAIN free : free[i].paths = <<>>
        /\ \E short \in SUBSET {i \in DOMAIN free : Named(free[i]) # <<>>} :
            /\ Fails({<<"add", free[i].dev>> : i \in short})
            /\ \E other \in [short -> Paths \cup {NoPath, NullPath}] :
                LET path(i) == IF i \in short THEN other[i] ELSE First(free[i])
                    all == [i \in DOMAIN free |-> [dev |-> free[i].dev, path |-> path(i)]]
                IN  /\ \A i \in short : other[i] \in Other(free[i])
                    /\ devlist' = Those(all, {e \in ToSet(all) : e.path # NoPath})
        /\ pc' = "scanned"
        /\ UNCHANGED <<world, scanning, list, res, delay, watched>>

\* Mutant of Again: the delay does not grow.
AgainForever ==
    /\ pc = "scanned"
    /\ rescan /\ delay <= 5
    /\ rescan' = FALSE
    /\ devlist' = <<>>
    /\ FlushDevCache /\ res' = NoResult
    /\ pc' = "start"
    /\ stable' = {} /\ seen' = {} /\ ever' = {} /\ heldFrom' = {} /\ failed' = {}
    /\ UNCHANGED <<world, scanning, delay>>

\* main frees the list and sleeps before it scans again, three times at most.
Again ==
    /\ pc = "scanned"
    /\ rescan /\ delay <= 5
    /\ rescan' = FALSE
    /\ devlist' = <<>>
    /\ FlushDevCache /\ res' = NoResult
    /\ delay' = delay + 2
    /\ pc' = "start"
    /\ stable' = {} /\ seen' = {} /\ ever' = {} /\ heldFrom' = {} /\ failed' = {}
    /\ UNCHANGED <<world, scanning>>

\* Otherwise it prints what it has and frees the list.
Finish ==
    /\ pc = "scanned"
    /\ ~ rescan \/ delay > 5
    /\ pc' = "done"
    /\ rescan' = FALSE
    /\ UNCHANGED <<world, scanning, list, res, delay, devlist, history>>

Scan == \/ Start \/ SysBlock \/ SysEntry \/ Descend \/ SubEntry \/ SubFails \/ SubEnd \/ SysEnd
        \/ ProcPart \/ LsDev \/ LsMapper \/ LsPath \/ LsEnd \/ ScanMapper
        \/ RunFilter \/ Again \/ Finish

Next == World \/ Scan

Spec == Init /\ [][Next]_vars /\ WF_vars(Scan)

-----------------------------------------------------------------------------
(* Properties.                                                             *)

NodeSet == [dev : Devs, sysfs : BOOLEAN, disk : {-1, 0, 1}, holders : BOOLEAN,
            proc : BOOLEAN, paths : Seq(Paths), mapper : BOOLEAN]

\* The list holds well-formed nodes and the cursors stay in the directories.
TypeOK ==
    /\ present \subseteq Devs /\ paths \subseteq Paths /\ held \subseteq present
    /\ pc \in {"start", "sysblock", "entry", "descend", "sub", "procpart", "lsdev",
               "path", "mapper", "filter", "scanned", "done", "error"}
    /\ ToSet(todo) \subseteq Devs \cup Paths \cup {Mapper}
    /\ ToSet(sub) \subseteq Devs
    /\ list \in Seq(NodeSet)
    /\ res \in [{"sysfs", "procpart", "lsdev", "mapper"} -> {-1, 0, 1}]
    /\ delay \in {1, 3, 5, 7}

\* A scan that reports success has listed what was there all along, whatever
\* else came and went: every such device has a node, with its attributes if
\* sysfs could be read, and every such path is attached to the node that
\* find_dev_by_majmin finds for its device.  Left out is only the device whose
\* own dev file could not be read (scandisk.c:684 passes over it), and, in
\* /proc/partitions, what came after an error of read().
StableListed ==
    LET listed(d) == FindDev(list, d) # 0
    IN  pc # "error" => \A x \in stable :
            /\ x \in Devs /\ res.sysfs = 1 /\ <<"dev", x>> \notin failed =>
                  \E i \in DOMAIN list : list[i].dev = x /\ list[i].sysfs
            /\ x \in Devs /\ res.procpart = 1 /\ Partitions \notin failed => listed(x)
            /\ x \in Paths /\ res.lsdev = 1 =>
                  /\ listed(PathDev[x])
                  /\ x \in ToSet(list[FindDev(list, PathDev[x])].paths)

\* Where /sys/block holds links a device has one node only, whichever of the
\* three sources showed it first.  (Real directories are read twice, and the
\* partitions in them are listed twice.)
OneNode ==
    layout = "link" =>
        \A i, j \in DOMAIN list : list[i].dev = list[j].dev => i = j

\* The list has every device that was there all along, once.
Listed == TypeOK /\ StableListed /\ OneNode

\* Never printed: a device that was part of another one from the start of the
\* scan to its end, or a partition of such a disk, unless the dev file of the
\* disk could not be read.
HeldHidden ==
    pc \in {"scanned", "done"} =>
        \A i \in DOMAIN devlist :
            LET d == devlist[i].dev
                above == {p \in ParentOf(d) : <<"dev", p>> \notin failed}
            IN  ({d} \cup above) \cap heldFrom \cap stable = {}

Wanted(d) == IF d \in Dm THEN ToSet(MapperDir) ELSE SdPaths

\* The calls whose failure hides a free disk: its dev, type or holders cannot
\* be read, or the holders of its disk, or /proc/devices, or add_to_list gets
\* no memory.
Hiding(d) ==
    ({"dev", "type", "add"} \X {d}) \cup ({"holders"} \X ({d} \cup ParentOf(d)))
        \cup {ProcDevices}

\* Always printed: a disk that was free during the whole scan and had a path
\* of the right kind during the whole scan, if sysfs, /dev and /proc/devices
\* could be read and no call failed that can hide it.
FreeListed ==
    /\ pc \in {"scanned", "done"}
    /\ res.sysfs = 1 /\ res.lsdev = 1 /\ res.mapper = 1
    => \A p \in stable \cap Paths :
            LET d == PathDev[p]
            IN  /\ d \in stable \ NotDisks
                /\ p \in Wanted(d)
                /\ (ParentOf(d) \cup {d}) \cap ever = {}
                /\ Hiding(d) \cap failed = {}
                => \E i \in DOMAIN devlist : devlist[i].dev = d

\* What main prints is the free disks.
PrintedAreFree == HeldHidden /\ FreeListed

\* main waits for udev only if some disk, or a device that came or went, was
\* without a path at some time of the scan, or /dev could not be read.  A drive
\* that is no disk is a cause only where its type file could not be opened: the
\* -2 of sysfs_is_disk counts as a disk (scandisk.c:854).
RescanHasCause ==
    pc = "scanned" /\ rescan /\ layout = "link" =>
        \/ res.lsdev # 1
        \/ \E d \in seen \cap Devs :
              /\ d \in NotDisks \cap stable => <<"type", d>> \in failed
              /\ ~ \E p \in stable \cap Paths : PathDev[p] = d

\* The scan ends, with a list or an error: rescans are bounded by the delay.
ScanEnds == <>(pc \in {"done", "error"})
=============================================================================
