------------------------- MODULE CommandPipelineMC -------------------------
(***************************************************************************)
(* Instances of CommandPipeline for TLC.  Every run has the two realtime   *)
(* lines and one or two timelines with small lists, and a choice of        *)
(* commands and blocks that makes one family of interactions happen.       *)
(***************************************************************************)
EXTENDS CommandPipeline

\* Lines are strings: the timelines of the ground station and of block commands.
TlGs == "TLCD_GS"
TlBc == "TLCD_BC"

NopCmd == [op |-> "plain", ok |-> TRUE]
FailCmd == [op |-> "plain", ok |-> FALSE]
OtherFailCmd == [op |-> "CLEAR_TIMELINE_AT", on |-> TlGs, at |-> 0]
ClearAll(l) == [op |-> "CLEAR_ALL", on |-> l]
ClearAt(l, t) == [op |-> "CLEAR_TIMELINE_AT", on |-> l, at |-> t]
ClearErrLog(l) == [op |-> "CLEAR_ERR_LOG", on |-> l]
AppInit(l) == [op |-> "APP_INIT", on |-> l]
Deploy(l, b) == [op |-> "DEPLOY_BLOCK", on |-> l, block |-> b]
SetSoe(l, f) == [op |-> "SET_SOE_FLAG", on |-> l, flag |-> f]
SetLockout(l, f) == [op |-> "SET_LOUT_FLAG", on |-> l, flag |-> f]
SetTime(t) == [op |-> "SET_TIME", to |-> t]

At(t, c) == [ti |-> t, cmd |-> c]
Only(assignment, default) == [l \in Lines |-> IF l \in DOMAIN assignment THEN assignment[l] ELSE default]

\* A plain block, and one whose second command overflows cycle_t if it is deployed at time 2 or
\* later.
TwoNops == <<At(0, NopCmd), At(1, NopCmd)>>
FarAway(mod) == <<At(0, NopCmd), At(mod - 2, FailCmd)>>

-----------------------------------------------------------------------------
\* Two timelines that deploy blocks onto each other and onto themselves.
ScheduleTimelines == {TlGs, TlBc}
ScheduleCapacity == Only([TLCD_GS |-> 3, TLCD_BC |-> 2], 1)
ScheduleBlocks == {"two"}
ScheduleBlockCmds == [b \in ScheduleBlocks |-> TwoNops]
ScheduleCommands == {NopCmd, Deploy(TlGs, "two"), Deploy(TlBc, "two"), ClearAt(TlGs, 2)}
ScheduleUplink == Only([TLCD_GS |-> {Deploy(TlBc, "two"), Deploy(TlGs, "two")},
                        GSCD |-> {ClearAt(TlGs, 2)}], {})

-----------------------------------------------------------------------------
\* Failures, stop_on_error, lockout and the error log, handled from the ground; commands that
\* wait, and lines that stay locked.
ErrorBlocks == {}
ErrorBlockCmds == [b \in ErrorBlocks |-> <<>>]
ErrorCapacity == Only([TLCD_GS |-> 2], 1)
ErrorGround == {SetSoe(TlGs, TRUE), SetLockout(TlGs, FALSE), ClearErrLog(TlGs), AppInit(TlGs)}
ErrorOwn == {NopCmd, FailCmd, OtherFailCmd}
ErrorCommands == ErrorGround \cup ErrorOwn \cup {ClearAll(RT)}
ErrorUplink == Only([TLCD_GS |-> ErrorOwn, GSCD |-> ErrorGround, RTCD |-> {ClearAll(RT)}], {})

-----------------------------------------------------------------------------
\* A timeline onto which the ground and the line itself deploy blocks: among commands already
\* there, with and without room, a block that is not active, and one whose times overflow
\* cycle_t.  The clock rolls over and is set from the ground.
OneTimeline == {TlGs}
ClockCapacity == Only([TLCD_GS |-> 3], 1)
ClockBlocks == {"two", "far", "off"}
ClockActive == {"two", "far"}
ClockBlockCmds == [b \in ClockBlocks |-> IF b = "far" THEN FarAway(6) ELSE TwoNops]
ClockCommands == {NopCmd, FailCmd, SetTime(1)} \cup {Deploy(TlGs, b) : b \in ClockBlocks}
ClockUplink == Only([TLCD_GS |-> {NopCmd, Deploy(TlGs, "two")},
                     GSCD |-> {SetTime(1)} \cup {Deploy(TlGs, b) : b \in {"far", "off"}}], {})

-----------------------------------------------------------------------------
\* A timeline that removes its own command while another one waits.
SelfCommands == {NopCmd, ClearAt(TlGs, 1)}
SelfUplink == Only([TLCD_GS |-> SelfCommands], {})
=============================================================================
