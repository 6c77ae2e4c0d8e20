\* Registration, deletion and search of rules, with duplicates and rules above rules.
SPECIFICATION RulesSpec
CONSTANTS
    RuleMax = 4
    Groups = {1, 2}
    MatchRule = 2
    Locals = {0, 1}
    Settings <- MixedSettings
    MaxDuplicates = 3
    MultiLevels = {2, 4}
    DefaultLevels = 4
    CounterValues = {0}
INVARIANTS RuleTableIsSound LookupsAreExact
PROPERTIES ImplementsRegistry
CHECK_DEADLOCK FALSE
