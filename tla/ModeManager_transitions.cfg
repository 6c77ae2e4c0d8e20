\* Transitions, deployments and removals in the line, while tables and blocks change.
SPECIFICATION FairSpec
CONSTANTS
    NotDefined = NotDefined
    Modes <- McModes
    StartUpMode = "start_up"
    InitialMode = "initial"
    Blocks <- McBlocks
    BlockCmds <- McBlockCmds
    ModeList <- McModeList
    TransitionTable <- McTable
    Ground <- McGround
    Capacity = 3
    BootCycles = {0, 1}
    CycleMod = 20
    MaxCycle = 5
INVARIANTS TransitionHasItsEnd
PROPERTIES TransitionEnds
CHECK_DEADLOCK FALSE
