--------------------------- MODULE EventHandlerMC ---------------------------
(***************************************************************************)
(* An instance of EventHandler for TLC: rings of two events, four rules.   *)
(* Rules 0 and 1 wait for one event, rule 2 for two matches of rule 0,     *)
(* rule 3 for every match of rule 2.                                       *)
(***************************************************************************)
EXTENDS EventHandler

CONSTANTS Kinds, RecordLevels, CommandGroups, CommandLevels, MaxCommands

SmallLevels == {"HIGH", "LOW", "EH"}
SmallRings == [l \in SmallLevels |-> 2]
NoClogs == [l \in SmallLevels |-> 1]
TwoKinds == {<<1, 1>>}

RuleOf(group, local, level, type, threshold, window) ==
    [group |-> group, local |-> local, level |-> level, match |-> level = "EH",
     type |-> type, threshold |-> threshold, window |-> window]

Table == [id \in RuleIds |->
    CASE id = 0 -> RuleOf(1, 1, "HIGH", "SINGLE", 0, 0)
      [] id = 1 -> RuleOf(1, 1, "HIGH", "CONTINUOUS", 2, 0)
      [] id = 2 -> RuleOf(MatchRule, 0, "EH", "CUMULATIVE", 2, 0)
      [] id = 3 -> RuleOf(MatchRule, 2, "EH", "SINGLE", 0, 0)]
TableSettings == {Table[id] : id \in RuleIds}

\* The table after the registration of rules 0 to 3.
TableInit ==
    /\ setting = Table
    /\ active = [id \in RuleIds |-> TRUE]
    /\ counter = [id \in RuleIds |-> 0]
    /\ sorted = <<Entry(1, 1, 0, 0), Entry(1, 1, 1, 1), Entry(MatchRule, 0, 0, 2), Entry(MatchRule, 2, 0, 3)>>
    /\ maxLevels = DefaultLevels
    /\ undef = FALSE

\* Activations of the whole chain, up to MaxCommands of them, or one other command.
VARIABLE commands

MCInit == TableInit /\ HandlerStart /\ commands = 0
MCStep == HandlerStep /\ UNCHANGED commands
MCNext ==
    \/ MCStep
    \/ /\ \E kind \in Kinds, level \in RecordLevels : RecordByUser(kind[1], kind[2], level)
       /\ UNCHANGED commands
    \/ ClockTick /\ UNCHANGED commands
    \/ /\ commands < MaxCommands /\ commands' = commands + 1
       /\ CommandRule("ACTIVATE", 3, TRUE)
    \/ /\ commands = 0 /\ commands' = MaxCommands
       /\ HandlerCommand(CommandGroups, CommandLevels)
mcVars == <<handlerVars, commands>>
\* The event utility is executed in every cycle, so that the handler, which can always take a step,
\* takes one again and again.
MCSpec == MCInit /\ [][MCNext]_mcVars /\ []<><<MCStep>>_mcVars
=============================================================================
