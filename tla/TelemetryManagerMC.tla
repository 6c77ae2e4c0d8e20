------------------------- MODULE TelemetryManagerMC -------------------------
(***************************************************************************)
(* An instance of TelemetryManager for TLC: two roles, one of them with    *)
(* two blocks, blocks of two cells, a log that is too small for all        *)
(* divided commands and a list of real time commands that fills.           *)
(***************************************************************************)
EXTENDS TelemetryManager

CONSTANTS MaxCommands

TwoRoles == {"HIGH", "LOW"}
ThreeBlocks == <<"HIGH", "HIGH", "LOW">>
HighThenLow == <<"HIGH", "LOW">>

VARIABLE commands   \* the number of commands given so far, bounded by MaxCommands

\* Cmd_TLM_MGR_INIT executed to its end, one of the two states to start from.
AfterInit ==
    FoldLeft(LAMBDA s, i : [Executed(s, "INIT") EXCEPT !.dcu.rtc = <<>>],
             Boot, [i \in 1..(Len(BlockRoles) + 2) |-> i])

MCInit == tm \in {Boot, AfterInit} /\ commands = 0
MCDispatch == Dispatch /\ UNCHANGED commands
MCNext ==
    \/ MCDispatch
    \/ commands < MaxCommands /\ commands' = commands + 1 /\ Command

\* The dispatcher of the real time commands runs in every cycle.  This is
\* WF_mcVars(MCDispatch): MCDispatch is enabled exactly while the list is not empty.
mcVars == <<tm, commands>>
DispatcherRuns == []<>(tm.dcu.rtc = <<>>) \/ []<><<MCDispatch>>_mcVars
MCSpec == MCInit /\ [][MCNext]_mcVars /\ DispatcherRuns
=============================================================================
