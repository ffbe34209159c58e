CONSTANTS
    Chans = {c1}
    Caches = {m1}
    NoCache = NoCache
    NBlocks = 3
    NrBlocks = 2
    Hunk = 2
    MaxCount = 3
    MaxWrite = 2
    MaxVec = 1
    MaxUse = 1
    Data = {d1, d2}
    Garbage = Garbage
    Faults = {"torn", "vec", "bypass"}
SPECIFICATION Spec
SYMMETRY Symmetry
INVARIANTS LookupConsistent Coherent ReadReturnsDisk NoAssertFails EvictionOrder
