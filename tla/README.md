# cmfs: a TLA+ development

cmfs (Continuous Media File System) is a file system derived from ocfs2: a
kernel module kept as a series of patches (`src/cmfs/`), and user-space tools
that make, inspect and dump a volume (`src/cmfs-tools/`) on top of one library,
`libcmfs`.  This development models the parts of that code whose correctness
is a matter of state and order, checks small instances with TLC, and proves
the central facts for every size with TLAPS.

Paths below are relative to `src/cmfs-tools/` unless they begin with `src/`.

## 1. Inventory

### Components, their state and what is hard

| Component | State | Operations | Hard behaviour |
|---|---|---|---|
| I/O channel and block cache, `libcmfs/unix_io.c` | descriptor; a fixed array of buffers, a lookup tree and an LRU list over them, a use count | open, close; init, share, destroy a cache; read, write, vector read, each cached or not | two indexes over the same buffers; a loop that relies on a count made before it steals buffers; transfers that fail half-way; caches shared by channels |
| mkfs, `mkfs.cmfs/mkfs.c` | bitmap groups and their chains, inode group, records of system files, directories, the device's write cache | clear, lay out, allocate, format, write, flush | order of writes against crashes, signals and failing writes; sizes at the edge of a group; counters that are copied into blocks |
| bitmap search, `libcmfs/bitops.c`, `find_clear_bits` in `mkfs.c` | a bitmap | next set/clear bit, run of clear bits | bits behind the valid ones, loop bounds |
| file read, `libcmfs/fileio.c`, `extent_map.c`, `extent_tree.c` | the call's position, the list reached in the extent tree | `cmfs_file_read`, `cmfs_extent_map_get_blocks`, `cmfs_get_clusters`, `__cmfs_find_path` | holes, unwritten extents, leaves, requests across extents, 32-bit shifts, damaged blocks |
| extent iteration, `libcmfs/extents.c` | the inode, the blocks on the way down, what the walk has seen | `cmfs_extent_iterate_inode` | callbacks that change, stop or fail; errors below blocks that were changed; write-back |
| red-black tree, `libcmfs/kernel-rbtree.c` | nodes with parent, children and colour | insert, erase, first, last, next, prev | colouring loops with mirrored cases that depend on what earlier calls left |
| directories and paths: `dir_iterate.c`, `dirblock.c`, `lookup.c`, `namei.c` | block of packed records; the calls of a resolution that have not returned | iterate, look up, follow links | record lengths from the device, callbacks that change or stop, links that form a loop |
| open, inodes, group descriptors: `openfs.c`, `inode.c`, `chain.c`, `cached_inode.c`, `closefs.c`, `freefs.c`, `memory.c` | `cmfs_filesys` with superblock | open, close, read inodes and descriptors | validation of what is read, failures half-way |
| debugfs, `debugfs.cmfs/commands.c`, `utils.c`, `main.c` | `gbls`: handle, device name, buffer, root and working directory | a command line: open, close, cd, chroot, ls, stat, cat, frag, bmap, dirblocks, group, extent, stats, quit | globals that must belong to one device, signals inside any command, failures half-way through open |
| device scan, `libtools-internal/scandisk.c` | list of devices with attributes and paths; delay and rescan flag of its `main` | scan sysfs, `/proc/partitions`, `/dev`, mapper; filter; rescan | devices, paths and holders that come and go while three sources are read one after the other |
| kernel: mount and journal, `src/cmfs/0003`-`0005` | super block, system inodes, journal, work queue | mount, unmount, load and shut down a journal, recovery, module load and unload | error paths that release step by step, work that runs beside an unmount; not modelled, see section 7 |
| rest: `feature_string.c`, `bitmap.c`, `blockcheck.c`, `ismounted.c`, `getsize.c`, `getsectsize.c`, `dumpcmfs/`, `misc/`, `progress.c`, `verbose.c`, log masks | - | parsing, printing, ioctls, wrappers | not modelled, see section 7 |

### How they interact

* Everything in `libcmfs` reads and writes blocks through a channel; a channel
  may have a cache.  Callers assume that a cached channel behaves like the
  device.  `BlockDevice` states that, `BlockCache` is shown to implement it.
  The other modules therefore work on plain blocks, and let any read or write
  fail.
* mkfs does not use the channel: it writes with `pwrite` and orders its
  writes with `fsync`.  It uses `cmfs_find_next_bit_clear` of `libcmfs`.
* File read goes down the extent tree of an inode; extent iteration walks all
  of it and calls a function of the caller.  Block iteration and directory
  iteration are layers of callbacks above it.
* The cache finds its buffers through the red-black tree; `BlockCache` has a
  set in its place, and `RbTree` is shown to implement a set (`OrderedSet`).
* debugfs turns its arguments into inodes with `cmfs_namei`, which looks each
  name up with a directory walk.  `Debugfs` extends `Namei` and steps through
  it; a single lookup is one step there, and a walk of its own in `DirIterate`.
* Nothing in the user-space tools runs in parallel.  Interleavings are those
  of a loop with its own side effects, of a program with signals, failures and
  a crash of the machine, of a walk with its callback, and of the device scan
  with the kernel and udev.

### What makes each component right

* Cache: a read returns what is on the device, however many buffers were
  stolen on the way; tree, list and block numbers agree; assertions hold; no
  channel uses a freed cache; calls return.
* mkfs: no block is handed out twice, but for the one that `mkfs.c:1084` gives
  to several descriptors; counters agree with bitmaps; a durable superblock
  leads to durable structures; an old superblock never leads to new ones;
  success means a complete volume, as long as no write is cut short.
* Bitmap search: the scans and the run search agree with their definitions.
* File read: the buffer is the file; a run of blocks is uniform; success means
  everything that was asked for; sound trees are readable; reads end.
* Extent iteration: every extent once, in order; what the function changed is
  durable, nothing else changes; `i_last_eb_blk` is taken only from a whole
  walk; the walk ends.  Three of these fail in the cases of section 6.
* Red-black tree: a balanced search tree at every step, up to the place the
  loop is repairing; a set to its users.
* Directories: each entry shown once and in order, and inside its block, but
  for the last header's; reported changes reach the device; a lookup finds the
  first entry of its name; walks end on any contents.
* Paths: what is found is what the path means; link loops end.
* debugfs: between commands the globals belong to one open device; commands
  end; a crash has one of the causes that section 6 lists.
* Device scan: what is there all along is listed, once; free disks are printed
  and held ones are not; a rescan has a cause, and rescans end.  Calls that fail
  unnoticed spoil this only in the ways that the properties name.

`PROJECT.json` lists the hazards behind these, each at its line.

## 2. Plan

| Order | Module | Contents | State |
|---|---|---|---|
| 1 | `BlockDevice`, `BlockCache`, `MCBlockCache`, `BlockCacheProofs` | channel and cache, the device they implement, proofs | done |
| 2 | `Mkfs`, `MCMkfs`, `MkfsProofs`, `MkfsComplete` | layout, allocation, write order, crashes, proofs | done |
| 3 | `FindBits`, `FindBitsProofs` | bitmap search, proofs | done |
| 4 | `FileRead`, `DebugfsExtents`, `MCFileRead`, `FileReadProofs` | reading a file through its extent tree, the walks debugfs has for it, proofs | done, debugfs only checked |
| 5 | `ExtentIterate`, `MCExtentIterate` | the walk with callbacks | modelled, checked |
| 6 | `RbTree`, `OrderedSet` | the lookup tree, and the set it implements | modelled, checked |
| 7 | `DirIterate`, `MCDirIterate`, `DirIterateProofs` | block iteration, directory entries, lookup, proofs | done |
| 8 | `Namei`, `Debugfs`, `MCDebugfs`, `DebugfsProofs` | paths, open and close, the session of debugfs, proofs | done, meaning of paths only checked |
| 9 | `ScanDisk`, `MCScanDisk`, `ScanDiskProofs` | the device scan and its rescan loop, proofs | done |

Not proved yet, and within reach: of `ExtentIterate` what does not speak of the
flattened tree, `StopStops` and `ChangesDurable`, on trees in which no block is
referred to twice.

## 3. Modules and code

In every module, an action is one iteration of a loop or one call that touches
the device; the comment above it names the function.  `PROJECT.json` maps every
definition to its lines.  A definition whose comment begins "Mutant of" is a
plausible mistake in the definition that follows it and is used only to show
that a property notices it.

### BlockCache and BlockDevice

`BlockCache` has the channels (`open`, `cache`, `nocache`), the caches (`live`,
`use`, `lru`, `tree`, `blkno`, `buf`), the device (`disk`) and the running call
(`pc`, `call`, `data`, `off`, `todo`, `good`, `i`, `err`).  `lru[m]` is the
list from the next victim on; `tree[m]` is the set of buffers linked into the
lookup tree, which the code keeps apart from `icb_blkno`, so that a buffer that
is in one and not in the other is a state of the model.

* Calls: `StartRead`, `StartWrite`, `StartVec` (`io_read_block*`,
  `io_write_block*`, `io_vec_read_blocks`).  Without a cache `RawRead` and
  `WriteBlocks` do the transfer alone.
* `ReadHunk` counts the cached prefix of a hunk and reads the rest of it; then
  one action per block: `ReadSync` copies a cached block out, `StoreHit`
  copies into a buffer that has the block, `Steal` takes the victim's buffer,
  `Skip` leaves an uncached block of an uncached call alone; `SyncEnd` goes to
  the next hunk.  Writes and vector reads share that loop, as in the code.
* `Open`, `Close`, `InitCache`, `ShareCache`, `DestroyCache`, `SetNocache` are
  the life of channels and caches.

Three faults are switched on by `Faults`: a transfer that stops inside a block,
a vector read whose I/O fails after it was submitted, and a write through a
channel that does not share the cache that holds the block.  The code detects
none of them.  `stale` remembers the blocks they leave behind, so that the
properties say exactly where the cache may differ from the device.  A negative
count means bytes (`unix_io.c:189`, 230, 458, 511); nothing in the repository
passes one, and counts of the model are of blocks.

`BlockDevice` is a device without a cache: a write stores a prefix and succeeds
if that is all, a read that succeeds returns the device.  The refinement maps
`pc` to a phase and hides everything about the cache.

### Mkfs

`pc` is the position in `main`; the variables are the structures in memory,
`disk` what is durable and `pend` what was written since the last `fsync`.
`DoPwrite` may fail, after any part of the write, which ends the program; or
the write is cut short, which the program does not notice (`mkfs.c:85`), and
`lost` remembers what was left out.  `Interrupt` is SIGINT or SIGTERM wherever
the code has not blocked signals; `Crash` keeps any subset of the pending
blocks (the last version of each).  Contents of a block are records with the
fields that other structures depend on: an inode with its chain list, counters
and extent; a descriptor with bitmap, size, free count, chain, next group and
parent; the entries of a directory.  `bg_free_bits_count` has 16 bits.

Assumptions: `fsync` does not fail (the code ignores its result, so nothing
could be said otherwise); a block is written as a whole, and a short write ends
between two blocks; a volume has at least one cluster, since the program cannot
get past `cmfs_calc_cluster_groups` with fewer; a bitmap has at most 2^16 bits
(it is smaller than a block of `CMFS_MAX_BLOCKSIZE`) and a full group has room
for what mkfs allocates (`RoomAssumption`); a cluster has at most
`CMFS_MAX_CLUSTERSIZE` bytes, 8192 blocks (`ClusterAssumption`).

### FindBits

`Scan` is the body of `cmfs_find_next_bit_set` and `cmfs_find_next_bit_clear`
(the same loop over inverted bytes): it looks at the rest of a byte without
regard to `size`, and masks whole bytes.  `Loop` is an iteration of
`find_clear_bits`.  The bits of the buffer behind `size` are arbitrary.

### FileRead

One read of one file: `StartRead` is everything before the loop, `Descend` a
level of `__cmfs_find_path`, `Search`, `Hole` and `NextLeaf` are
`cmfs_get_clusters` and `cmfs_figure_hole_clusters`, `Fill` is the rest of the
loop body.  A block holds its own number, so the buffer shows where its
contents came from.  `M32` and `M64` stand for 2^32 and 2^64: the conversions
wrap where the code's do.  The caller's `got` is 0 from the start; the code sets
it only behind the check of the alignment (`fileio.c:74`), so a refused call
leaves it as it was, and no property looks at it then.

Trees are those that cmfs writes (`Sound`, `TreesAssumption`): interior records
leave no gap, depths decrease by one, extents are in order and do not overlap, a
record has whole clusters, only the last leaf may be without an extent, and file
and extents end below 2^32 blocks.  A block may be damaged (signature, more
records than fit into it), and the root may lead to no block.  `lo` and `hi` of
a list are no part of the code: they are the clusters the list is for, and
`Sound` says how those of a block follow from the record that leads to it.

`DebugfsExtents` adds `FindBlockOffset`, `DoBmap` and `CalcNumExtents`, the
walks that debugfs has for `bmap` and `frag`.  They read the same trees and are
compared with the library's answer in every state that has one.

### ExtentIterate

One call of `cmfs_extent_iterate_inode`.  The recursion is a stack of frames,
one per list being walked, each with its own copy of the block
(`eb_bufs[depth]`), position and flags.  `LeafRec` handles a data record,
`EbRec` goes into a block, `EndList` comes back from it and writes it if it was
changed, `EndRoot` finishes the inode.  The function's results are chosen from
the sets the call allows; what it changes is the record's `mark`.  The field
`errcode` is not initialised by the code: `Init` lets it be success or garbage.
`lost` remembers that writing a block has overwritten an error
(`extents.c:383`).  The properties hold for every tree and function of the run
with three exceptions, each named in the definition that has it: that
overwritten error (`EachOnceInOrder`, `ChangesDurable`, `LastEbTrusted`; the
run `extent_lost_error` shows it), an error the function reports
(`FuncFailed`), and a change in a list that begins with an empty record
(`Cut`).

### RbTree and OrderedSet

`t` is the tree: root, children, parents and colours; a node is named by its
block.  `Insert` and `Erase` are `io_cache_insert` and `io_cache_disconnect` up
to the colouring loop; then each case of an iteration is a step
(`InsertRecolor`, `InsertInner`, `InsertOuter`, `EraseRedSibling`,
`EraseRecolor`, `EraseInner`, `EraseOuter`), with the side as a parameter for
the mirrored halves.  The refinement maps the tree to the set of its nodes.

### DirIterate

One walk of one directory by `cmfs_dir_iterate` or `cmfs_lookup`: `NextExtent`
and `EndExtent` are the block iteration, `ReadBlock` reads and checks a block,
`SkipEntry`, `CallLookup`, `CallEdit` and `CorruptEntry` are an iteration over
its entries, `EndBlock` writes a changed block.  A block maps offsets to
entries; bytes of a name that are read as an entry are `Junk`.  The two checks
of entries, `SwapOk` (on reading) and `Plausible`, are kept apart as in the
code, since each leaves something to the other.  `HandedFits` says where what is
handed over ends: inside the block, but up to four bytes behind it for a live
entry in the last header, which the first check leaves out, and for a removed
one, which only the second check sees.  `Start` may end in a crash, since the
second allocation of `cmfs_dir_iterate2` fails into the free of a pointer that
is not set (`dir_iterate.c:218`, 240).  Any lengths may be in a block
(`VolumesAssumption`); the extents of the inode lie on the device
(`ExtentsAssumption`), as a read outside of it is only one more read error.
They are in the order of the file and overlap neither in it nor on the device
(`OrderAssumption`): the walk takes the records as they come and does not check
this.  A lookup passes no flags (`LookupAssumption`, `lookup.c`).

### Namei and Debugfs

`stack` holds the calls of `open_namei` and `follow_link` that have not
returned; `DirNamei` consumes a component and `OpenNamei` the last one.
`Meaning` is the reference: it replaces links inside the path and needs no
stack.  `Debugfs` adds the globals and the commands.  An open file system is a
number; `live` holds those not closed, so that leaks, double closes and uses
after a close are states.  `do_open` and `do_close` are cut where a signal can
fall between two assignments that matter (`OpenFs`, `OpenBuffer`,
`OpenGlobals`, `OpenJournal`; `CloseFs`, `CloseGlobals`, `CloseDevice`).
`nomem` remembers that an open ended without its buffer.  What a command prints
is a code.

### ScanDisk

`World` is the kernel and udev: devices, paths and holders come and go, up to
`MaxEvents`.  The scan takes a directory entry or a line of
`/proc/partitions` per step (`SysEntry`, `Descend`, `SubEntry`, `ProcPart`,
`LsDev`, `LsMapper`, `LsPath`, `ScanMapper`), then `RunFilter`, `Again`,
`Finish` are the program around it.  A device that vanishes between two system
calls of one step gives any answer the calls can give.  `stable`, `seen`,
`ever` and `heldFrom` remember what was there during the scan.

Calls also fail for what is there: a dev, type or holders file or directory
(`SysNodes`, `Unread`), `/proc/partitions` and `/proc/devices` in the middle,
`malloc` and `strdup` of `add_to_list` (`Other`).  Where the code passes over
such a failure, `failed` remembers it, and the properties name, device by
device, what it excuses (`Hiding` for what is printed).  `stat` and `lstat` are
assumed to succeed for what is there; they open nothing.  `events` and `failed`
together are bounded by `MaxEvents`.

## 4. Runs

Deadlock is checked where the system must be able to go on (the cache).  The
other models describe one run of a program or one call, which ends.

| Run | Bounds | What it checks |
|---|---|---|
| `cache` | 1 channel, 1 cache of 2 buffers, 3 blocks, hunks of 2, requests up to 3, all three faults | `LookupConsistent`, `Coherent`, `ReadReturnsDisk`, `NoAssertFails`, `EvictionOrder` |
| `cache_is_device` | 2 channels sharing 1 cache of 1 buffer, 2 blocks, requests of up to 2 in hunks of 1, vector reads of 2, no faults | the refinement `IsBlockDevice`, `NoDangling` through every order of init, share, destroy, close, `CallReturns` |
| `mkfs` | groups of 12 clusters of 2 blocks, 2 chains; 13 sizes from 1 cluster to 3 groups and 2 clusters, every failure and signal, a short write that leaves out at least one block of one write; with 5 clusters, and with one cluster in a second group and no short write, also a crash anywhere with every subset of the pending blocks | `AllocDisjoint`, `CountsMatch`, `VolumeComplete`, `OldSuperGone` |
| `mkfs_descriptors` | 1 to 3 groups | finding (`DescriptorPerGroup`) |
| `find_bits` | bytes of 3 bits, 3 bytes, every bitmap, size and run length | `ScanCorrect`, `FoundIsClear`, `FoundIsFirst` |
| `file_read` | blocks of 2 bytes, clusters of 2 blocks, files of up to 4 clusters in up to 3 extents, depth 0 to 2, every damaged block, every aligned and one unaligned offset | `ReadsFile`, `SoundTreeIsRead`, `DebugfsAgrees`, `ReadEnds` |
| `extent_walk` | 8 trees of depth 0 to 2, sparse ones among them, and 5 damaged ones, four sets of flags, functions that change records of any level, stop or fail | `ShownInOrder`, `WriteBack`, `LastEbTrusted`, `NoNeedlessWrite`, `WalkEnds` |
| `extent_lost_error` | depth 2, a function that changes interior records | finding (`LastEbFromWholeWalk`) |
| `rbtree` | 9 blocks, every sequence of insertions and removals | `RedBlack`, `Searches`, the refinement `IsOrderedSet` |
| `dir_walk` | blocks of 48 bytes, three of them in two extents, ten kinds of contents for two of them, four sets of flags, five names | `ShowsDirectory`, `InBlock`, `ChangesWritten`, `LookupFirst`, `WalkEnds` |
| `scan_disk` | a disk with a partition, a mapped device, a CD drive; both layouts of `/sys/block`; 2 events or unnoticed failures in any mixture in the first scan (1 with directories), 1 up to the end of the second | `Listed`, `PrintedAreFree`, `RescanHasCause`, `ScanEnds` |
| `debugfs` | two volumes and one that is refused, 59 commands, 3 opens, both signals, a failure at every step | `GlobalsInStep`, `CrashHasCause`, `PathsResolve`, `CommandEnds` |

Several properties are conjunctions of named parts, each with a comment of its
own in the module: `ReadsFile` of what the caller gets and of the runs it is
put together from, `RedBlack` of order, colours and black height, and so on.
Type invariants are such parts; those of `BlockCache`, `FindBits`, `Mkfs`,
`FileRead`, `DirIterate`, `ScanDisk` and `Debugfs` are proved.

### Why the bounds are enough

* Cache: stealing needs more blocks than buffers; a request longer than the
  cache and one longer than a hunk both happen with 3 blocks, 2 buffers and
  hunks of 2.  What one cache does to its list and tree does not depend on
  other caches, so sharing is checked apart, with the smallest caches; there a
  request of two blocks takes two hunks, so that the loop over hunks goes round
  again.  The proofs cover every other size.
* mkfs: sizes are chosen around every boundary the code computes: too small
  for the first descriptor, for the inode group, for a directory; a full group
  and one cluster more or less; as many groups as chains and more.  One short
  write (`MaxLost`) shows every place where one can happen; a second adds only
  blocks to those left out.
* Bitmap search: three bytes give a first, a middle and a last byte; runs can
  begin and end in each of them.  Every size is proved.
* File read: two extents per leaf and two leaves show every neighbour a lookup
  can meet (extent, hole, empty record, next leaf, end); requests of the whole
  file cross all of them.
* Extent iteration: depth 2 is the first at which a changed block lies below
  another one and an error passes through a list that is not the inode's.
  Every tree is walked with functions that change records.
* Red-black tree: every case of both loops, on both sides, at the root and one
  level below happens with 9 nodes, and trees of equal contents and different
  shapes are all reached.
* Directories: three blocks of 48 bytes hold a first, a middle and a last
  entry, removed entries of every length between live ones, and an entry at
  each distance from the end that the checks tell apart.  Two extents, the
  second before the first on the device, separate file order from disk order.
* Paths: `c1` and `c2` are one link above and exactly at the limit; links lead
  upwards, to the root, to themselves, to nothing and to a file.
* debugfs: three opens allow a device after a leaked one; every failure of
  open and every position of a signal can happen in each.
* Device scan: two events are a device that goes and comes back, a path and
  its device, a device and its holder, a device that goes and a file of another
  one that cannot be read.  A third would need a third device to show something
  new.  The third and fourth scan differ from the second in the delay only.

### Fairness

Weak fairness is assumed of the steps of the one thread that runs the call or
the program (`FairSpec`, or `Spec` in `DirIterate`, `ScanDisk` and `Debugfs`):
it is always enabled until the end and waits for nobody.  `sleep()` in the scan
returns.  Signals, failures, crashes, the world around the scan and new calls
or commands of a user have none.

## 5. Proofs

TLAPS checks eight modules.  All theorems hold for every value of the constants
that satisfies the named assumptions, which TLC evaluates in the runs.  The
invariants of `MkfsComplete` and `FileReadProofs` and `ListInv` of
`DirIterateProofs` were checked with TLC on the instances of the runs `mkfs`,
`file_read` and `dir_walk` before they were proved.

**BlockCacheProofs** (any number of channels, caches, blocks and buffers, any
hunk and request length, any faults; assumptions: sizes are positive, channels
finite, `NoCache` is no cache, `Garbage` no data).

* `TypeCorrect`, `LookupAlwaysConsistent`, `AlwaysCoherent`, `ReadsReturnDisk`,
  `AssertionsHold` follow from one inductive invariant, `Inv`.  It has four
  parts.  `Shape`: types, which call may be at which `pc`, and that each LRU
  list is a permutation.  `TreeInv`: a buffer is in the tree exactly if it has
  a block, and no block has two.  `Coherence`: cached blocks agree with the
  device also in caches nobody uses (a freed address can be allocated again),
  and `BufferInv`, what the caller's buffer holds in the middle of the loop.
  Its heart is that the blocks counted in `good_blocks` stay cached until they
  are copied out: the loop steals only behind them.
* `NeverDangling` needs its own invariant, `UseInv`: the use count is at least
  the number of channels that point to the cache.  Equality does not hold:
  `io_init_cache` on a channel that has a cache drops the pointer and not the
  use.
* `StealsInOrder` (`EvictionOrder`) from `OrderInv`: the blocks that a cached
  read of at most as many blocks as buffers has done are the last of the LRU
  list, in order, so that it never steals from itself; an uncached read that
  found one of its blocks leaves one of them as the next victim.
* `CacheIsDevice`, that `BlockCache` implements `BlockDevice`, for a cache
  without faults (`Faults = {}`; with them it does not, as `stale` shows).  To
  `Inv` and `UseInv` this adds `FaultFree`: no cache that a channel can reach is
  stale, a running write goes through the only cache in use, and a read leaves
  the caller's buffer behind its last block alone.  Then each step maps to a
  step of the device or to none; the end of a successful read needs
  `SuccessfulRead`, that the whole buffer is what the device holds.

**MkfsProofs** and **MkfsComplete** (any cluster and group size, number of chain
records and length of the cleared space, any volume size also too small ones,
any subset of the unflushed writes kept by a crash).

* `OldSuperNeverMixed` (`OldSuperGone`) from `EraseInv`: up to the first
  `fsync` only zeros are written, over the superblock first; behind it no
  version of the old superblock is left, durable or pending, unless the write
  over it was the one cut short.  A stopped program is in one of the two states.
* `NothingAllocatedTwice` (`AllocDisjoint`) and `CountersMatch` (`CountsMatch`)
  from `LayoutInv`, which says where everything is: in the first group exactly
  the clusters up to `Top` are taken, by the leading space, its descriptor, the
  inode group and the directories in this order; every other group has only its
  descriptor, at the one block these share; the inode group is in use up to
  some block.  Disjointness is not inductive by itself, since the allocators
  look at bits and counters and not at owners.  That the 16-bit counters do not
  wrap needs the two bounds on sizes above.  The used bits of the bitmap inode
  are a sum over all groups, and that they are right is also why `mismatch` is
  never reached.  The sum is a fold over a finite set.  Its recursion has one
  solution (of two, take a smallest set on which they differ), so it is enough
  to name a function that adds up one number per group in any order: the first
  group has its clusters up to `Top`, each other one its descriptor.
* `SuperblockLast` (`VolumeComplete`), for runs without a short write and but
  for the descriptors that share a block, from `FormatInv`, which adds three
  parts. `NamesInv`: entries of directories lead to numbered inodes, and which
  inodes are numbered where.  `Staged`: how much of the volume the device would
  hold if every pending write were done (`Image`), for each step of `main`.
  `SealInv`: until the last `fsync` before it no version of a new superblock
  exists, and behind it nothing outside the leading space is pending, so a
  crash cannot take back what the superblock leads to.

**FileReadProofs** (any block and cluster size and width of the two integer
types, any tree that satisfies `Sound`, any aligned or unaligned request;
`WidthAssumption`, `TreesAssumption`, `CallsAssumption`).  `ReadsTheFile`
(`ReadsFile`) and `SoundTreesAreRead` (`SoundTreeIsRead`) from one inductive
invariant, `Inv`:

* `OnPath`: the list the walk has reached is for the cluster it looks for, by
  its `lo` and `hi`.  `NotHere`: when the search for the end of a hole begins,
  no record of the leaf has the cluster, and when it goes on to the next leaf
  all records are before it.
* `MapRight`: the answer of the lookup is the rest of the extent of the cluster
  (`ExtentRun`), or a hole that no extent of the file reaches into (`HoleRun`).
  The length of a hole is taken from its leaf and at most one more; that no
  extent of any other leaf is in the way is what disjoint ranges of leaves are
  for (`LeavesApart`, `OneAt`).
* `Progress`: the blocks before `v_blkno` are done, and `wanted_blocks` are what
  is left of the request up to the end of the file.

`RunUniform` follows from `MapRight`, and `BufferIsFile` is preserved because a
run is filled as a whole.  The two restrictions of `Sound` that are not about
shape are where the code stops being right: from 2^32 blocks on,
`cmfs_clusters_to_blocks` wraps, and a leaf without records is taken for an
endless hole.

**ScanDiskProofs** (any devices, partitions, paths and order of the directories,
any number of events; a device is a partition of at most one disk, device-mapper
devices have no partitions, every path is in one of the two directories:
`DevicesAssumption`, `PathsAssumption`, `LayoutsAssumption`).  `ScanLists`
(`Listed`), `PrintsFreeDisks` (`PrintedAreFree`) and `RescansForCause`
(`RescanHasCause`) from `Inv`.

* `Sound` ties the history to the world: what is stable is there, a disk stays
  with its partitions, and what is there has been seen.  Events only take from
  `stable` and only add to `seen` and `ever`, so that what the list says of
  stable devices cannot become wrong.
* `Cover` and `CoverPaths`: a stable device is listed or still to come in the
  directories that are open, a stable path is attached or still to come.  They
  become `Results` when a source has been read to its end.
* `Nodes` and `Parent`: what sysfs said of a stable device is right, also of the
  holder a partition inherits from its disk.  `Alone` and `Turns`: which nodes
  a device can have, and that links lead to none twice.
* What `main` prints and why it waits is a matter of the steps behind the scan,
  given `Inv` (`Right`).
* Each part has the exceptions of the properties built in: a device is listed
  or its dev file is in `failed`, and so on.  As `failed` only grows during a
  scan, no step takes an excuse back.

What a loop leaves of a directory (`Those`) is a recursive function, of which a
value, its elements and their order are proved first.

**DebugfsProofs** (any volumes whose block numbers are numbers and whose links
hold paths, any commands and number of opens: `VolsAssumption`,
`DebugfsAssumption`).

* `CrashesHaveCauses` (`CrashHasCause`, six causes) and `HandlesInStep` from
  `SessionInv`: a handle in `gbls.fs` is open unless `do_close` is about to
  clear it or a signal came in between (`HandleLive`); the named device is the
  one that is open (`DeviceInv`); without an open that ran out of memory
  nothing else is open (`HandleInv`).  The steps between `close` and the
  clearing of `gbls.fs` are in the invariant because signals arrive there.
* `GlobalsAlwaysInStep` (`GlobalsInStep`) assumes `SoundRoots`: where
  `cmfs_open` accepts a super block, its root is a directory.  `do_open` does
  not look, so without this root and working directory may be anything.
* `LinksBounded` (`LinkDepth`, the second part of `PathsResolve`): each call of
  `open_namei` or `follow_link` has followed as many links as there are calls
  below it, so the limit on the count is a limit on the depth.

**DirIterateProofs** (any block size divisible by 4, any lengths in any block,
any extents on the device, any callers).  `WalkStaysInside` (`InBlock`, with
the four bytes that `HandedFits` allows) and
`ChangesReachDevice` (`ChangesWritten`) from `WalkInv`.  Its part `OnChain` says
that the next live entry is one the check on reading has looked at (`Holding`),
or lies in the last header, and that lengths lead to it from where the walk is
(`Linked`): the search for removed entries never passes a live one.  Its part
`Unwritten` says that what the callback changed and the device has not is in the
buffer, and counted.  The checks of the code are recursive functions; that they
have a value is proved once (`ScanDefined`), as every step of them moves
forward, by taking the least offset from which they have none.

`ShowsTheDirectory` (`ShowsDirectory`) and `LookupFindsFirst` (`LookupFirst`)
add `ListInv`, and rest on the order of the extents and, for the lookup, on its
flags.  `ListInv` says that what is ahead of the walk is as it was before it
(`Untouched`), that the next live entry is on the chain of lengths from the
start of its block (`OnLive`), and that the entries of the listing that have
been shown are exactly those the walk has passed (`ShownSoFar`); a lookup has
passed no entry of its name, or stopped at it (`LookedUp`).  A step passes the
entry it is at and no other, because no live entry lies inside another
(`LiveApart`, again by taking the least offset that would).  That a block
written back is not one the walk still has to read needs the extents to be
disjoint on the device.  A sound block passes both checks (`SoundSwaps`,
`SoundFits`).

**FindBitsProofs** (any byte width, any buffer).  `ScanFact` says what one
scan returns; the inductive invariant `IInv` is `TypeOK`, `LoopInv` (the
`count` bits before `off` are clear and start at `first_zero`, and no run of
`num` clear bits starts before it, stated by itself as `LoopCorrect`),
`FoundIsClear` and `FoundIsFirst`.  That
`First` chooses a least element rests on the well-foundedness of the naturals.

**Only model-checked**:

* liveness (`CallReturns`, `ReadEnds`, both `WalkEnds`, `ScanEnds`,
  `CommandEnds`), since the prover does not handle fairness;
* what is defined by recursion over data of any length, which needs an
  induction the installed provers do not do: `NameiRight` of `Namei`
  (`Meaning`), `DebugfsAgrees` of `DebugfsExtents`, whose walks are recursive
  operators, and of `ExtentIterate` what compares the walk with the flattened
  tree (`ShownInOrder`, `WriteBack`, `LastEbTrusted`);
* the rest of `ExtentIterate`, for which no inductive invariant is written;
* `RedBlack`, `Searches` and the refinement `IsOrderedSet` of `RbTree`: black
  heights and reachability in a tree are recursive as well.

## 6. Where code and comments disagree

Shown by a run:

* `mkfs_descriptors`: every group after the first gets the block of group 1
  (`mkfs.c:1084` has no group index); with three groups, two descriptors are
  written to one block.
* `extent_lost_error`: "we can only trust ctxt.last_eb_blkno if we walked the
  whole tree" (`extents.c:479`), but a read error below a changed interior block
  is overwritten by the success of writing that block (`extents.c:383`), and
  the number from the part that was walked is written to the inode.

Stated in the model as an exception of a property that holds otherwise.  The
cases happen in the runs; for those of `Mkfs`, `ExtentIterate`, `ScanDisk` and
`DirIterate` TLC finds the property violated when the exception is taken out.

* `stale` in `BlockCache`: a write that stops inside a block
  (`unix_io.c:247`), the results of a vector read that nobody examines
  (`unix_io.c:159`).
* `lost` in `Mkfs`: `do_pwrite` takes a short write for success (`mkfs.c:85`),
  and mkfs prints "successful" (`mkfs.c:1933`) about a volume of which a part
  was never written.  `VolumeComplete` excuses it, and `OldSuperGone` where
  what is left out is the zeros over the old superblock itself.
  `SameDescriptor` and `BitmapOk`: the descriptors that `mkfs.c:1084` puts on
  one block.
* `FuncFailed` and `lost` in `ExtentIterate`: an error the function reports is
  lost, because `errcode`, which the call returns, is what the last block read
  left in it (`extents.c:474`), and so is one that was overwritten
  (`extents.c:383`); a call that succeeds then has shown a part of the file and
  writes the `i_last_eb_blk` of that part.  For an interior record an error
  also does not keep the walk from the records below.
* `Cut` in `ExtentIterate`: an empty leftmost record is to be skipped
  (`extents.c:286`), but changing a record behind it empties the whole list
  (`extents.c:318`), and the extents in it are lost.
* `CrashHasCause` in `Debugfs` lists the six things that can end the program:
  `cat` goes on with a null pointer when the second read of its inode fails
  (`utils.c:259`); `stat -t` alone passes a null pointer on; a signal between
  `cmfs_close` and the clearing of `gbls.fs` closes twice (`commands.c:498`);
  after an open without memory for its buffer, commands that read into it write
  through a null pointer (`commands.c:463`); `posix_memalign` does not set
  `errno`, which `memory.c:91` examines, so a failed allocation may be an
  `abort()`; and `cmfs_dir_iterate2` frees a pointer it has not set when its
  second allocation fails (`dir_iterate.c:218`, 240), which every lookup, `ls`
  and the search for the journal in `open` go through.  `dirblocks` does not:
  it calls `cmfs_block_iterate_inode` (`commands.c:866`).
* `nomem` in `OneHandle`: after such an open `gbls.device` is null while
  `gbls.fs` is not, so the next open leaks the handle, `quit` and signals do
  not close it, and root and working directory are those of the device before.
* `OneNode` and `RescanHasCause` in `ScanDisk` hold where `/sys/block` has
  links.  With directories, partitions are listed twice, and the second nodes
  have no path, so the scan is always repeated three times.
* `failed` in `ScanDisk`: calls that fail for a device that is there, and that
  the code passes over.
  - `scansysfs` returns "1 on success" (`scandisk.c:657`) without a device
    whose dev file could not be read (`scandisk.c:684`): `StableListed`.
  - A partition of a held disk is printed when the disk's dev file could not be
    read, since the holder is looked for behind that check (`scandisk.c:682`),
    against "It's part of some other device?  Ignore it!" (`scandisk.c:857`):
    `HeldHidden`.
  - A free disk is not printed when its holders cannot be read
    (`scandisk.c:565`), its type file reads as nothing (`scandisk.c:635`), or
    `add_to_list` gets no memory (`scandisk.c:832`): `Hiding`.
  - A drive whose type file cannot be opened counts as a disk, as
    `filter_devices` tests only `!disk` (`scandisk.c:854`) and gets -2
    (`scandisk.c:648`), against "Not a disk?  Ignore it!" (`scandisk.c:853`):
    `RescanHasCause`.
* `HandedFits` in `DirIterate`: the check that "rec_len should >=
  DIRENT_HEADER_SIZE" (`dirblock.c:113`) leaves out the last header of a block
  (`dirblock.c:102`) and never sees a removed entry, and the next one counts
  the header as 8 bytes (`dir_iterate.c:84`): a name may reach four bytes
  behind the block.
* `FragCounts` in `DebugfsExtents`: `frag` counts a leading empty record as an
  extent (the comment at `commands.c:1057` says an empty record is always the
  last).

Reproduced by the model, without a property: `cat` prints nothing, because
`dump_file` leaves when its inode could be read (`utils.c:259` has the test
inverted; `DumpFile`), while its help says "Show file on stdout"
(`commands.c:85`); `group` never shows a group, because `chain.c:90` copies a
signature where it should compare it (`ReadGroupDesc`).

Read off the code, without a run:

* mkfs: `c_free` of a chain record is the size of the chain's first group
  (`mkfs.c:1558`) and `cl_next_free_rec` is 1 for chain files without a group
  (`mkfs.c:1573`); `fsync` results are ignored (`mkfs.c:106`); the system file
  is named `local_allc` in `mkfs.c:59` and `local_alloc` in `cmfs_fs.h:255`;
  `s_first_cluster_group` and `vol_generation` are never set; `check.c` opens
  the device with a block size of 0, which `cmfs_open` refuses, so an existing
  volume is never noticed.
* Extents: `cmfs_clusters_to_blocks` shifts in 32 bits and wraps (`cmfs.h:416`)
  where the comment above it promises a maximum, and a hole whose length wraps
  to 0 would keep `cmfs_file_read` from advancing (`file_read` stays below that
  width); a hole in front of a leaf without records is taken to have no end
  (`extent_map.c:84`); `CMFS_EXTENT_FLAG_APPEND` (`cmfs.h:81`) is documented
  and never examined; `block_iterate_func` returns the result of the last block
  of an extent only (`extents.c:531`), which directory walks survive because
  they write each block themselves.
* Directories: with removed entries included the size of an entry is computed
  with a header of 8 bytes.
* debugfs: `chroot` does not confine, `..` leads out of it; with a command on
  the command line the program exits without closing.
* Device scan: `flush_dev_cache` leaves the pointers to what it freed, so
  passing the old list in, as the comment at `scandisk.c:727` offers, would use
  them; running out of memory in a subdirectory of `/sys/block` is turned into
  an ordinary failure, although "it's important we check those 3 errors"
  (`scandisk.c:764`); a negative timeout does not mean that the cache never
  expires; one disk that vanishes ends the scan of sysfs, and later disks have
  no attributes and are not printed; a disk is printed as free although a
  partition of it is held.

## 7. Not modelled

* The kernel module (`src/cmfs/`): patches against a tree that is not in the
  repository.  What is hard in them, references released step by step, a
  journal's life, work queued beside an unmount, is decided by VFS and jbd2
  code one would have to invent.
* Byte order, checksums (a stub that succeeds), opening flags, alignment for
  direct I/O and statistics of the channel, writing inodes (nothing calls it).
* mkfs: options, defaults for sizes, the check for an existing volume.
* debugfs: what is printed and how a line is split into words; help, `lcd`,
  `curdev`; `icheck`, `locate` and `stat_sysdir`, which end in stubs; a command
  given on the command line.
* Device scan: `/proc/mdstat` and the removable attribute, which nothing reads
  afterwards; the cache timeout, since its only caller never reuses a list.
* `rb_replace_node`, which nothing calls.
* `dumpcmfs`, `misc/`, progress and verbose output, mount check, device and
  sector size, log masks: reading system files, ioctls, printing.
* Feature strings: tables that map words to bits.
