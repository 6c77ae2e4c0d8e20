\* Task lists that are changed, overrun and start again, and a clock that is set.
SPECIFICATION FairSpec
CONSTANTS
    Blocks <- McBlocks
    BlockCmds <- McBlockCmds
    StartUp = "initial"
    Effects <- McEffects
    Capacity = 4
    Steps = 3
    CycleMod = 8
    MaxCycle = 5
    Rollover = FALSE
INVARIANTS OneCycleAtATime NoTaskBeforeItsStep
PROPERTIES NeverTwiceInACycle OverrunRecovers
