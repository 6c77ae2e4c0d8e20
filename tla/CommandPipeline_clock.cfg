\* Blocks deployed onto a line whose clock rolls over and is set back.
SPECIFICATION Spec
CONSTANTS
    None = None
    GS = "GSCD"
    RT = "RTCD"
    Timelines <- OneTimeline
    Capacity <- ClockCapacity
    Commands <- ClockCommands
    Uplink <- ClockUplink
    TiRange = {0, 3}
    Blocks <- ClockBlocks
    BlockCmds <- ClockBlockCmds
    ActiveBlocks <- ClockActive
    CycleMod = 6
    MaxCycle = 4
    Rollover = TRUE
    ErrMod = 2
INVARIANTS NothingRunsEarly TimelineRunsInOrder HeadIsRunning DeployIsWhole ResultIsTruthful
