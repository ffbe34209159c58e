CONSTANTS
    FsBlocks = 200
    Inputs <- LostErrorInputs
SPECIFICATION Spec
INVARIANTS LastEbFromWholeWalk
CHECK_DEADLOCK FALSE
