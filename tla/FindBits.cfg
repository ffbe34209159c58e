CONSTANTS
    W = 3
    NBytes = 3
SPECIFICATION Spec
INVARIANTS ScanCorrect FoundIsClear FoundIsFirst
CHECK_DEADLOCK FALSE
