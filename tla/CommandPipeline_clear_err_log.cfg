\* Clearing the error log of a timeline whose last command failed.
SPECIFICATION Spec
CONSTANTS
    None = None
    GS = "GSCD"
    RT = "RTCD"
    Timelines <- OneTimeline
    Capacity <- ErrorCapacity
    Commands <- ErrorCommands
    Uplink <- ErrorUplink
    TiRange = {0, 1, 2}
    Blocks <- ErrorBlocks
    BlockCmds <- ErrorBlockCmds
    ActiveBlocks <- ErrorBlocks
    CycleMod = 6
    MaxCycle = 3
    Rollover = FALSE
    ErrMod = 4
INVARIANTS ErrorLogStaysCleared
CHECK_DEADLOCK FALSE
