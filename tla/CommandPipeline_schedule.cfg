\* Two timelines, deployments from one to the other and to itself.
SPECIFICATION Spec
CONSTANTS
    None = None
    GS = "GSCD"
    RT = "RTCD"
    Timelines <- ScheduleTimelines
    Capacity <- ScheduleCapacity
    Commands <- ScheduleCommands
    Uplink <- ScheduleUplink
    TiRange = {0, 1, 2}
    Blocks <- ScheduleBlocks
    BlockCmds <- ScheduleBlockCmds
    ActiveBlocks <- ScheduleBlocks
    CycleMod = 8
    MaxCycle = 3
    Rollover = FALSE
    ErrMod = 2
INVARIANTS TimelineRunsInOrder HeadIsRunning DeployNeverFull
CHECK_DEADLOCK FALSE
