--------------------------- MODULE EventLoggerMC ---------------------------
(***************************************************************************)
(* An instance of EventLogger for TLC: rings of two and three events, a    *)
(* CLog of two kinds, and three kinds of events.                           *)
(***************************************************************************)
EXTENDS EventLogger

CONSTANTS Kinds, RecordLevels, CommandGroups, CommandLevels, MaxCommands

AllLevels == {"HIGH", "LOW", "EL", "EH"}
SmallRings == [l \in AllLevels |-> IF l = "HIGH" THEN 2 ELSE IF l = "LOW" THEN 3 ELSE 4]
SmallClogs == [l \in AllLevels |-> IF l = "EL" THEN 3 ELSE 2]
ThreeKinds == {<<1, 1>>, <<1, 2>>, <<2, 1>>}

VARIABLE commands   \* the number of commands given so far, bounded by MaxCommands

MCInit == LoggerInit /\ commands = 0
MCNext ==
    \/ /\ \E kind \in Kinds, level \in RecordLevels : RecordEvent(kind[1], kind[2], level)
       /\ UNCHANGED commands
    \/ /\ commands < MaxCommands /\ commands' = commands + 1
       /\ LoggerCommand(CommandGroups, CommandLevels)
MCSpec == MCInit /\ [][MCNext]_<<el, clock, commands>>
=============================================================================
