CONSTANTS
    Chans = {c1, c2}
    Caches = {m1}
    NoCache = NoCache
    NBlocks = 2
    NrBlocks = 1
    Hunk = 1
    MaxCount = 2
    MaxWrite = 2
    MaxVec = 2
    MaxUse = 2
    Data = {d1, d2}
    Garbage = Garbage
    Faults = {}
SPECIFICATION FairSpec
INVARIANTS NoDangling
PROPERTIES IsBlockDevice CallReturns
