CONSTANTS
    Bsz = 2
    Bpc = 2
    FsBlocks = 15
    M32 = 16
    M64 = 64
    FileClusters = 4
    FirstCluster = 1
    MaxRecs = 3
    Shapes = {"inode", "leaves", "deep"}
    Trees <- MCTrees
    Offsets <- MCOffsets
    Counts <- MCCounts
SPECIFICATION FairSpec
INVARIANTS ReadsFile SoundTreeIsRead DebugfsAgrees
PROPERTIES ReadEnds
CHECK_DEADLOCK FALSE
