SPECIFICATION Spec
CONSTANTS
    Disks <- MCDisks
    Parts <- MCParts
    NotDisks = {"sr0"}
    Dm = {"dm0"}
    ProcOrder <- MCProcOrder
    DevDir <- MCDevDir
    MapperDir <- MCMapperDir
    PathDev <- MCPathDev
    SdPaths = {"/dev/sda", "/dev/sda1"}
    Layouts = {"link", "dir"}
    MaxEvents <- MCMaxEvents
INVARIANTS Listed PrintedAreFree RescanHasCause
PROPERTY ScanEnds
CHECK_DEADLOCK FALSE
