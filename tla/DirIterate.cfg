SPECIFICATION Spec
CONSTANTS
    BlockSize = 48
    ClusterBlocks = 2
    Junk <- MCJunk
    NameLen <- MCNameLen
    Directories <- MCDirectories
    Volumes <- MCVolumes
    Walks <- MCWalks
INVARIANTS ShowsDirectory InBlock ChangesWritten LookupFirst
PROPERTY WalkEnds
CHECK_DEADLOCK FALSE
