----------------------------- MODULE DirIterate -----------------------------
(***************************************************************************)
(* Reading a directory: cmfs_dir_iterate walks the blocks of the directory *)
(* through cmfs_block_iterate, checks each block and hands its entries to  *)
(* a callback, which may change them or stop the walk (dir_iterate.c,      *)
(* dirblock.c, extents.c); cmfs_lookup is the walk with a callback that    *)
(* stops at a name (lookup.c).                                             *)
(*                                                                         *)
(* A block maps the offsets of its entries, live or removed, to them; what *)
(* is read as an entry anywhere else, inside a name, is Junk.  The header  *)
(* of an entry in the last eight bytes reaches behind the block: its       *)
(* lengths are whatever lies there.                                        *)
(* Offsets and lengths are in bytes.  The extents of the directory are in  *)
(* its inode (ExtentIterate covers deeper trees).                          *)
(***************************************************************************)
EXTENDS Integers, Sequences

CONSTANTS
    BlockSize,      \* fs_blocksize
    ClusterBlocks,  \* blocks per cluster
    Junk,           \* bytes of a name, read as an entry
    NameLen,        \* [names -> their length]
    Directories,    \* inodes: mode, size in bytes, extent records
    Volumes,        \* contents: [block numbers -> blocks]
    Walks           \* the callers: flags, and a name to look up or NoName

ASSUME DirAssumption ==
    /\ BlockSize \in Nat \ {0} /\ BlockSize % 4 = 0
    /\ ClusterBlocks \in Nat \ {0}

NoName == "no name"
NotFound == -1
Dot == 1
Other == 3
Deleted == 4   \* CMFS_DIRENT_DOT_FILE and so on
Header == 12    \* DIRENT_HEADER_SIZE
At(b, o) == IF o \in DOMAIN b THEN b[o] ELSE Junk
Offsets == {o \in 0 .. BlockSize - 1 : o % 4 = 0}

Entries == [inode : Nat, rec_len : Nat, name : STRING, name_len : Nat]
IsBlock(b) == DOMAIN b \subseteq Offsets /\ b \in [DOMAIN b -> Entries]

\* Any lengths may be on the device.
ASSUME VolumesAssumption ==
    /\ Junk \in Entries
    /\ \A v \in Volumes : v = [x \in DOMAIN v |-> v[x]] /\ \A x \in DOMAIN v : IsBlock(v[x])

\* The extents lie on the device.
ASSUME ExtentsAssumption ==
    \A d \in Directories :
        /\ d.recs \in Seq([cpos : Nat, clusters : Nat, blkno : Nat])
        /\ \A r \in DOMAIN d.recs, v \in Volumes :
                \A i \in 0 .. d.recs[r].clusters * ClusterBlocks - 1 :
                    d.recs[r].blkno + i \in DOMAIN v

\* They are in the order of the file and do not overlap in it or on the device.
ASSUME OrderAssumption ==
    \A d \in Directories :
        /\ d.size \in Nat
        /\ \A r, s \in DOMAIN d.recs : r < s =>
              /\ d.recs[r].cpos + d.recs[r].clusters <= d.recs[s].cpos
              /\ \/ d.recs[r].blkno + d.recs[r].clusters * ClusterBlocks <= d.recs[s].blkno
                 \/ d.recs[s].blkno + d.recs[s].clusters * ClusterBlocks <= d.recs[r].blkno

\* cmfs_lookup asks for no more than the live entries.
ASSUME LookupAssumption == \A w \in Walks : w.name # NoName => w.flags = {}

VARIABLES
    disk,       \* the directory blocks on the device
    inode, walk,
    pc,
    rec,        \* the extent record that is walked
    bcount,     \* the next block of it, in blocks of the file
    buf,        \* ctx->buf
    offset, entry, nextReal, changed, doAbort,  \* of cmfs_process_dir_entry
    errcode,    \* ctx->errcode, and the result when done
    found,      \* what lookup_proc stored
    calls,      \* history: the callbacks made: block, offset, kind of entry
    first, wanted   \* history: the volume before, and with every change reported

files == <<inode, walk, first>>
cursor == <<buf, offset, entry, nextReal, changed, doAbort>>
vars == <<disk, files, pc, rec, bcount, cursor, errcode, found, calls, wanted>>

NoBuf == <<>>

Init ==
    /\ disk \in Volumes
    /\ inode \in Directories
    /\ walk \in Walks
    /\ pc = "start"
    /\ rec = 1 /\ bcount = 0
    /\ buf = NoBuf
    /\ offset = 0 /\ entry = 0 /\ nextReal = 0 /\ changed = 0 /\ doAbort = 0
    /\ errcode = "ok"
    /\ found = NotFound
    /\ calls = <<>>
    /\ first = disk /\ wanted = disk

-----------------------------------------------------------------------------
(* Checks on a block.                                                      *)

\* cmfs_swap_dir_entries_direction: the entries that begin before the last
\* header of the block must be aligned, at least a header long and hold their
\* names.  A bad length is stepped over as if it were a header.
SwapOk(b) ==
    LET bad(e) == e.rec_len < Header \/ e.rec_len % 4 # 0
        ok[o \in Offsets] ==
            LET e == At(b, o)
                len == IF bad(e) THEN Header ELSE e.rec_len
            IN  o < BlockSize - Header =>
                    /\ ~ bad(e)
                    /\ e.name_len + Header <= len
                    /\ o + len \in Offsets => ok[o + len]
    IN  ok[0]

\* Mutant of Plausible: no least length.
PlausibleAny(e) == e.rec_len % 4 = 0 /\ (e.rec_len > 0 => e.name_len + 8 <= e.rec_len)

\* The test of cmfs_process_dir_entry and cmfs_validate_entry, with 8 bytes
\* for the header.
Plausible(e) ==
    /\ e.rec_len >= 8
    /\ e.rec_len % 4 = 0
    /\ e.name_len + 8 <= e.rec_len

\* cmfs_validate_entry: a chain of plausible entries leads from o to final.
ValidateEntry(b, from, final) ==
    LET ok[o \in 0 .. final] ==
            \/ o = final
            \/ /\ Plausible(At(b, o))
               /\ o + At(b, o).rec_len <= final
               /\ ok[o + At(b, o).rec_len]
    IN  from <= final /\ ok[from]

\* The room an entry takes, by the same header.
EntrySize(e) == ((e.name_len + 11) \div 4) * 4

\* Mutant of NextOffset: the search for removed entries passes the end.
NextOffsetLoose(b, o) ==
    LET e == At(b, o)
        final == o + e.rec_len
    IN  IF "removed" \notin walk.flags \/ e.rec_len = EntrySize(e) THEN final
        ELSE CHOOSE n \in Offsets \cup {BlockSize} :
                /\ n >= o + EntrySize(e)
                /\ n = BlockSize \/ Plausible(At(b, n))
                /\ \A m \in Offsets : m >= o + EntrySize(e) /\ m < n => ~ Plausible(At(b, m))

\* The entry after the one at o: with INCLUDE_REMOVED the first offset behind
\* its name from which removed entries fill the room up to its end.
NextOffset(b, o) ==
    LET e == At(b, o)
        final == o + e.rec_len
        Stop(n) == n >= final \/ ValidateEntry(b, n, final)
    IN  IF "removed" \notin walk.flags \/ e.rec_len = EntrySize(e) THEN final
        ELSE CHOOSE n \in Offsets \cup {BlockSize} :
                /\ n >= o + EntrySize(e) /\ Stop(n)
                /\ \A m \in Offsets : m >= o + EntrySize(e) /\ m < n => ~ Stop(m)

-----------------------------------------------------------------------------
(* The walk.                                                               *)

Return(code) == errcode' = code /\ pc' = "done"

\* cmfs_check_directory and the two reads of the inode: no memory, no inode,
\* no directory.  When there is memory for ctx.buf but none for ctx.di, ctx.di
\* is freed as it is, which may end the program.
Start ==
    /\ pc = "start"
    /\ \/ /\ inode.mode = "dir"
          /\ pc' = "record" /\ UNCHANGED errcode
       \/ Return("no memory")
       \/ Return("io")
       \/ inode.mode = "dir" /\ Return("crash")
       \/ inode.mode = "bad" /\ Return("bad magic")
       \/ inode.mode \notin {"dir", "bad"} /\ Return("no directory")
    /\ UNCHANGED <<disk, files, rec, bcount, cursor, found, calls, wanted>>

Recs == inode.recs
End(r) == (Recs[r].cpos + Recs[r].clusters) * ClusterBlocks

\* cmfs_block_iterate: the extents one by one.
NextExtent ==
    /\ pc = "record"
    /\ IF rec > Len(Recs) THEN Return(errcode) /\ UNCHANGED bcount
       ELSE /\ bcount' = Recs[rec].cpos * ClusterBlocks
            /\ pc' = "block" /\ UNCHANGED errcode
    /\ UNCHANGED <<disk, files, rec, cursor, found, calls, wanted>>

Blkno == Recs[rec].blkno + bcount - Recs[rec].cpos * ClusterBlocks

\* block_iterate_func leaves the extent at the end of the file.
PastSize == bcount * BlockSize >= inode.size

EndExtent ==
    /\ pc = "block"
    /\ bcount >= End(rec) \/ PastSize
    /\ rec' = rec + 1
    /\ pc' = "record"
    /\ UNCHANGED <<disk, files, bcount, cursor, errcode, found, calls, wanted>>

\* Mutant of ReadDirBlock: the result of the check is dropped.
ReadDirBlockUnchecked(b, code) == b = disk[Blkno] /\ code = "ok"

\* cmfs_read_dir_block
ReadDirBlock(b, code) ==
    \/ b = disk[Blkno] /\ code = IF SwapOk(b) THEN "ok" ELSE "corrupted"
    \/ b = buf /\ code = "io"

\* cmfs_process_dir_block reads the block and starts at its first entry.
ReadBlock ==
    /\ pc = "block"
    /\ ~ (bcount >= End(rec) \/ PastSize)
    /\ \E b \in {disk[Blkno], buf}, code \in {"ok", "corrupted", "io"} :
        /\ ReadDirBlock(b, code)
        /\ buf' = b
        /\ errcode' = code
        /\ pc' = IF code = "ok" THEN "entry" ELSE "done"
    /\ offset' = 0
    /\ nextReal' = 0 /\ changed' = 0 /\ doAbort' = 0
    /\ entry' = IF bcount = 0 THEN Dot ELSE Other
    /\ UNCHANGED <<disk, files, rec, bcount, found, calls, wanted>>

e0 == At(buf, offset)

Fits == offset + e0.rec_len <= BlockSize /\ Plausible(e0)

CorruptEntry ==
    /\ pc = "entry" /\ offset < BlockSize
    /\ ~ Fits
    /\ Return("corrupted")
    /\ UNCHANGED <<disk, files, rec, bcount, cursor, found, calls, wanted>>

IsDots(e) == e.name \in {".", ".."}

\* Mutant of Passed: empty entries are handed over.
PassedNone(e, flags) == "nodots" \in flags /\ IsDots(e)

\* Entries the callback is not told of.
Passed(e, flags) ==
    IF e.inode = 0 /\ "empty" \notin flags THEN TRUE
    ELSE "nodots" \in flags /\ IsDots(e)

Advance ==
    /\ nextReal' = nextReal + IF nextReal = offset THEN e0.rec_len ELSE 0
    /\ offset' = NextOffset(buf, offset)

SkipEntry ==
    /\ pc = "entry" /\ offset < BlockSize
    /\ Fits /\ Passed(e0, walk.flags)
    /\ Advance
    /\ UNCHANGED <<disk, files, pc, rec, bcount, buf, entry, changed, doAbort, errcode,
                   found, calls, wanted>>

Kind == IF nextReal > offset THEN Deleted ELSE entry

\* The callback returned: ABORT leaves the block, otherwise on to the next
\* entry.
AfterCall(change, abort) ==
    /\ entry' = IF entry < Other THEN entry + 1 ELSE entry
    /\ changed' = changed + (IF change THEN 1 ELSE 0)
    /\ calls' = Append(calls, [block |-> bcount, blkno |-> Blkno,
                              offset |-> offset, kind |-> Kind])
    /\ IF abort THEN /\ doAbort' = doAbort + 1
                     /\ pc' = "end"
                     /\ UNCHANGED <<offset, nextReal>>
       ELSE Advance /\ UNCHANGED <<pc, doAbort>>

\* lookup_proc: the name and its length decide.
CallLookup ==
    /\ pc = "entry" /\ offset < BlockSize
    /\ Fits /\ ~ Passed(e0, walk.flags)
    /\ walk.name # NoName
    /\ LET match == e0.name_len = NameLen[walk.name] /\ e0.name = walk.name
       IN  /\ found' = IF match THEN e0.inode ELSE found
           /\ AfterCall(FALSE, match)
    /\ UNCHANGED <<disk, files, rec, bcount, buf, errcode, wanted>>

\* Another callback: it may replace the inode of the entry or stop.
CallEdit ==
    /\ pc = "entry" /\ offset < BlockSize
    /\ Fits /\ ~ Passed(e0, walk.flags)
    /\ walk.name = NoName
    /\ \E ino \in {e0.inode, 0}, abort \in BOOLEAN :
        /\ buf' = [buf EXCEPT ![offset].inode = ino]
        /\ wanted' = [wanted EXCEPT ![Blkno][offset].inode = ino]
        /\ AfterCall(ino # e0.inode, abort)
    /\ UNCHANGED <<disk, files, rec, bcount, errcode, found>>

\* cmfs_write_dir_block
WriteDirBlock(code) ==
    IF SwapOk(buf)
    THEN \/ code = "ok" /\ disk' = [disk EXCEPT ![Blkno] = buf]
         \/ code = "io" /\ UNCHANGED disk
    ELSE code = "corrupted" /\ UNCHANGED disk

\* Mutant of EndBlock: an abort leaves before the block is written.
EndBlockAborts ==
    /\ pc = "end" \/ (pc = "entry" /\ offset >= BlockSize)
    /\ IF doAbort > 0 THEN Return("ok") /\ UNCHANGED <<disk, bcount>>
       ELSE /\ disk' = IF changed > 0 THEN [disk EXCEPT ![Blkno] = buf] ELSE disk
            /\ bcount' = bcount + 1
            /\ pc' = "block" /\ UNCHANGED errcode
    /\ UNCHANGED <<files, rec, cursor, found, calls, wanted>>

\* The end of cmfs_process_dir_block: a block with changes is written; then
\* the error of that or the abort of the callback.
EndBlock ==
    /\ pc = "end" \/ (pc = "entry" /\ offset >= BlockSize)
    /\ \E code \in {"ok", "io", "corrupted"} :
        /\ IF changed > 0 THEN WriteDirBlock(code) ELSE code = "ok" /\ UNCHANGED disk
        /\ IF code # "ok" \/ doAbort > 0 THEN Return(code) /\ UNCHANGED bcount
           ELSE bcount' = bcount + 1 /\ pc' = "block" /\ UNCHANGED errcode
    /\ UNCHANGED <<files, rec, cursor, found, calls, wanted>>

Next == \/ Start \/ NextExtent \/ EndExtent \/ ReadBlock \/ CorruptEntry \/ SkipEntry
        \/ CallLookup \/ CallEdit \/ EndBlock

Spec == Init /\ [][Next]_vars /\ WF_vars(Next)

\* cmfs_lookup: what the walk returned, or that nothing was found.
LookupResult == IF errcode = "ok" /\ found = NotFound THEN "not found" ELSE errcode

-----------------------------------------------------------------------------
(* Properties.                                                             *)

\* The cursors stay aligned and inside the block.
TypeOK ==
    /\ pc \in {"start", "record", "block", "entry", "end", "done"}
    /\ rec \in 1 .. Len(Recs) + 1
    /\ bcount \in Nat
    /\ offset \in Offsets \cup {BlockSize}
    /\ nextReal \in Offsets \cup {BlockSize}
    /\ entry \in 0 .. Other
    /\ errcode \in {"ok", "io", "no memory", "crash", "bad magic", "no directory",
                     "corrupted"}

\* The entries of a block by their lengths alone, up to one that is broken.
Leads(b, o) == Plausible(At(b, o)) /\ o + At(b, o).rec_len <= BlockSize

Reach(b) ==
    LET reached[o \in Offsets] ==
            o = 0 \/ \E p \in Offsets : /\ Leads(b, p) /\ p + At(b, p).rec_len = o
                                       /\ reached[p]
    IN  {o \in Offsets : reached[o]}
Live(b) == {o \in Reach(b) : Leads(b, o)}

\* The blocks of the file, as far as its size goes, and where they are.
Blocks(r) ==
    {[block |-> Recs[r].cpos * ClusterBlocks + i, blkno |-> Recs[r].blkno + i] :
        i \in 0 .. Recs[r].clusters * ClusterBlocks - 1}
FileBlocks == {x \in UNION {Blocks(r) : r \in DOMAIN Recs} : x.block * BlockSize < inode.size}

\* The entries the caller asked for, in the order of the file.
Asked(e) == (e.inode # 0 \/ "empty" \in walk.flags) /\ ~ ("nodots" \in walk.flags /\ IsDots(e))
Of(x) == At(first[x.blkno], x.offset)
Listing ==
    UNION {{x \in {[block |-> f.block, blkno |-> f.blkno, offset |-> o] : o \in Live(first[f.blkno])} :
                Asked(Of(x))} : f \in FileBlocks}
Before(x, y) == x.block < y.block \/ (x.block = y.block /\ x.offset < y.offset)

\* The callbacks made for live entries, and for which ones.
Real == {i \in DOMAIN calls : calls[i].kind # Deleted}
Place(i) == [block |-> calls[i].block, blkno |-> calls[i].blkno, offset |-> calls[i].offset]
Shown == {Place(i) : i \in Real}

\* The callback sees the entries of the directory in order, none twice and none
\* left out, also while it searches the room between them for removed entries,
\* and the ones it reports as removed are none of them; a walk that ends well
\* without being stopped has shown them all.
EachEntryOnce ==
    LET all == Listing
    IN  /\ \A i, j \in Real : i < j => Before(Place(i), Place(j))
        /\ Shown \subseteq all
        /\ \A x \in Shown, y \in all : Before(y, x) => y \in Shown
        /\ pc = "done" /\ errcode = "ok" /\ doAbort = 0 => Shown = all

\* Where the name of an entry handed to the callback ends.
HandedEnd(c) == c.offset + Header + At(first[c.blkno], c.offset).name_len

\* A live entry that begins before the last header of its block ends, with its
\* name, inside the block when it is handed over: each of the two checks leaves
\* one half of this to the other.  A live entry in the last header escapes the
\* first check and a removed one is never shown to it; the second check counts
\* the header four bytes short, so these may reach four bytes behind the
\* block, and no further.
HandedFits ==
    \A i \in DOMAIN calls :
        LET c == calls[i]
        IN  /\ HandedEnd(c) <= BlockSize + 4
            /\ c.kind # Deleted /\ c.offset < BlockSize - Header => HandedEnd(c) <= BlockSize

\* The cursors stay in the block, and what is taken for an entry and its name
\* ends there or, where HandedFits says so, up to four bytes behind.
InBlock == TypeOK /\ HandedFits

\* When the walk returns success the device has every change the callback
\* reported, also the changes made before it stopped; a change that is not on
\* the device is reported as an error.
ChangesWritten == pc = "done" /\ errcode = "ok" => disk = wanted

\* A sound block is never called corrupted.
Sound(b) ==
    \E s \in SUBSET DOMAIN b :
        /\ 0 \in s
        /\ \A o \in s : /\ At(b, o).rec_len >= Header + At(b, o).name_len
                        /\ o + At(b, o).rec_len \in s \cup {BlockSize}

SoundAccepted ==
    errcode = "corrupted" => \E x \in FileBlocks : ~ Sound(first[x.blkno])

\* The walk shows the directory as it is, and refuses only broken ones.
ShowsDirectory == EachEntryOnce /\ SoundAccepted

\* What lookup_proc compares.
Named(x) == Of(x).name = walk.name /\ Of(x).name_len = NameLen[walk.name]

\* cmfs_lookup finds the first entry of that name, and says not found only if
\* there is none.
LookupFirst ==
    pc = "done" /\ walk.name # NoName /\ errcode = "ok" =>
        LET named == {x \in Listing : Named(x)}
        IN  IF named = {} THEN LookupResult = "not found"
            ELSE \E x \in named : /\ \A y \in named : ~ Before(y, x)
                                  /\ LookupResult = "ok" /\ found = Of(x).inode

\* The walk ends, whatever the lengths in the blocks are.
WalkEnds == <>(pc = "done")
=============================================================================
