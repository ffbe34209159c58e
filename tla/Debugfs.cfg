SPECIFICATION Spec
CONSTANTS
    Names <- MCNames
    Vols <- MCVols
    Cmds <- MCCmds
    MaxOpens = 3
INVARIANTS GlobalsInStep CrashHasCause PathsResolve
PROPERTY CommandEnds
CHECK_DEADLOCK FALSE
