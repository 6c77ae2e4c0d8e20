\* A timeline command that removes itself by CLEAR_TIMELINE_AT.
SPECIFICATION Spec
CONSTANTS
    None = None
    GS = "GSCD"
    RT = "RTCD"
    Timelines <- OneTimeline
    Capacity <- ErrorCapacity
    Commands <- SelfCommands
    Uplink <- SelfUplink
    TiRange = {0, 1, 2}
    Blocks <- ErrorBlocks
    BlockCmds <- ErrorBlockCmds
    ActiveBlocks <- ErrorBlocks
    CycleMod = 6
    MaxCycle = 3
    Rollover = FALSE
    ErrMod = 3
INVARIANTS DropsOnlyTheExecuted
CHECK_DEADLOCK FALSE
