\* The table of the manager, the blocks it fills, and commands that take several executions.
SPECIFICATION MCSpec
CONSTANTS
    LogMax = 2
    RtcMax = 3
    NoCode = "NONE"
    Roles <- TwoRoles
    UserRoles <- HighThenLow
    BlockRoles <- ThreeBlocks
    CellsPerBlock = 2
    Commands = {c1, c2, c3}
    Unformable = {c3}
    Unregistered = unregistered
    NopCmd = nop
    Leftover = leftover
    MaxCommands = 5
INVARIANTS PlanIsSound RegisteredIsSent
PROPERTIES DividedCommandsEnd
CHECK_DEADLOCK FALSE
