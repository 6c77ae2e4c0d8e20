\* What the two logs hold after any sequence of events and commands.
SPECIFICATION MCSpec
CONSTANTS
    Levels <- AllLevels
    TLogCapacity <- SmallRings
    CLogCapacity <- SmallClogs
    EnableClog = TRUE
    EventGroups = {1, 2, 5, 6, 7}
    LoggerGroup = 5
    DropClog1 = 6
    DropClog2 = 7
    Kinds <- ThreeKinds
    RecordLevels = {"HIGH"}
    CommandGroups = {1}
    CommandLevels = {"HIGH"}
    MaxRecords = 8
    MaxTime = 0
    MaxCommands = 3
INVARIANTS LogsAreSound LossIsOnRecord
CHECK_DEADLOCK FALSE
