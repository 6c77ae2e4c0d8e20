\* What the event handler does with the events that were recorded.
SPECIFICATION MCSpec
CONSTANTS
    Levels <- SmallLevels
    TLogCapacity <- SmallRings
    CLogCapacity <- NoClogs
    EnableClog = FALSE
    EventGroups = {1, 2, 3, 4, 5, 6, 7}
    LoggerGroup = 5
    DropClog1 = 6
    DropClog2 = 7
    HandlerGroup = 3
    HigherGroup = 4
    RuleMax = 4
    Groups = {1, 2, 3, 4, 5}
    MatchRule = 2
    Locals = {0, 1, 2}
    Settings <- TableSettings
    MaxDuplicates = 2
    MultiLevels = {2, 3}
    DefaultLevels = 3
    CounterValues = {0}
    MaxResponses = {1}
    MaxChecks = {2}
    LogMax = 2
    Kinds <- TwoKinds
    RecordLevels = {"HIGH", "LOW"}
    CommandGroups = {2}
    CommandLevels = {"HIGH"}
    MaxRecords = 3
    MaxTime = 1
    MaxCommands = 1
INVARIANTS CountersAgree HandledInOrder SkipsAreAnnounced OneResponsePerActivation HigherAnswersInstead
PROPERTIES EventsAreServed
CHECK_DEADLOCK FALSE
