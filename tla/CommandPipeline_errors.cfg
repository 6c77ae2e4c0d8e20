\* Failures, stop_on_error, lockout and the error log, and lines that are served.
SPECIFICATION FairSpec
CONSTANTS
    None = None
    GS = "GSCD"
    RT = "RTCD"
    Timelines <- OneTimeline
    Capacity <- ErrorCapacity
    Commands <- ErrorCommands
    Uplink <- ErrorUplink
    TiRange = {0, 1, 2}
    Blocks <- ErrorBlocks
    BlockCmds <- ErrorBlockCmds
    ActiveBlocks <- ErrorBlocks
    CycleMod = 6
    MaxCycle = 3
    Rollover = FALSE
    ErrMod = 2
INVARIANTS LastFailureKept
PROPERTIES SoeStopsTheLine TimelineServed
CHECK_DEADLOCK FALSE
