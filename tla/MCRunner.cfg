CONSTANTS
    MaxChunks = 2
    MaxInterrupts = 2
    MaxBinds = 4
    Cwd = "cwd"
    LocalBin = "bin"
    Binaries = {"link"}
    ScriptPath = "script"
    ResolvPath = "resolv"
    Extras = {0, 5}
    Paths <- MCPaths
    Below <- MCBelow
    Length <- MCLength
SPECIFICATION MCSpec
INVARIANTS
    HelpersStopped EndRecorded OutputComplete OwnFilesOnly TerminalRestored
    MostSpecificWins
PROPERTY RunEnds
CHECK_DEADLOCK FALSE
