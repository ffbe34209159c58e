CONSTANTS
    MaxBits = 12
    Bpc = 2
    Recs = 2
    Clear = 4
    Sizes <- LayoutSizes
    Crashes <- CrashSizes
    MaxLost <- LostBlocks
SPECIFICATION Spec
INVARIANTS AllocDisjoint CountsMatch VolumeComplete OldSuperGone
CHECK_DEADLOCK FALSE
