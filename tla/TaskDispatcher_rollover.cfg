\* The last cycle of a clock that rolls over.
SPECIFICATION FairSpec
CONSTANTS
    Blocks <- McBlocks
    BlockCmds <- McBlockCmds
    StartUp = "initial"
    Effects <- PlainEffects
    Capacity = 4
    Steps = 3
    CycleMod = 8
    MaxCycle = 5
    Rollover = TRUE
INVARIANTS AwaitedCycleComes
