\* A forced clear followed by a command whose time overflows.
SPECIFICATION Spec
CONSTANTS
    None = None
    GS = "GSCD"
    RT = "RTCD"
    Timelines <- OneTimeline
    Capacity <- ClockCapacity
    Commands <- ClockCommands
    Uplink <- ClockUplink
    TiRange = {0, 3, 5}
    Blocks <- ClockBlocks
    BlockCmds <- ClockBlockCmds
    ActiveBlocks <- ClockBlocks
    CycleMod = 6
    MaxCycle = 4
    Rollover = TRUE
    ErrMod = 2
INVARIANTS ClearIsReported
