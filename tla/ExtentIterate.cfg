CONSTANTS
    FsBlocks = 200
    Inputs <- WalkInputs
SPECIFICATION FairSpec
INVARIANTS ShownInOrder WriteBack LastEbTrusted
PROPERTIES NoNeedlessWrite WalkEnds
CHECK_DEADLOCK FALSE
