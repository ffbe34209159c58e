CONSTANTS
    MaxBits = 20
    Bpc = 1
    Recs = 4
    Clear = 4
    Sizes = {20, 40, 45}
    Crashes = {}
    MaxLost <- LostBlocks
SPECIFICATION Spec
INVARIANTS DescriptorPerGroup
CHECK_DEADLOCK FALSE
