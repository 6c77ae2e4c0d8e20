-------------------------- MODULE CommandPipeline --------------------------
(***************************************************************************)
(* The command pipeline of c2a-core: a received command packet is put into *)
(* the packet list of its line (packet_handler.c); the dispatcher          *)
(* application of the line takes it out of the list and executes it        *)
(* (command_dispatcher.c, gs_/realtime_/timeline_command_dispatcher.c); and *)
(* the commands of the dispatchers themselves clear, fill and stop lines,  *)
(* the line they are executed from included.                               *)
(*                                                                         *)
(* The flight software is one main loop.  A dispatcher runs to the end     *)
(* before anything else does, with one exception: the timer interrupt      *)
(* advances the clock at any moment.  A dispatch is therefore several      *)
(* steps (check the time, begin, execute, deploy one command after the     *)
(* other, finish) and Tick is the only action that may come between them.  *)
(***************************************************************************)
EXTENDS PacketListOps, FiniteSets

CONSTANTS
    Timelines,      \* the timelines, TLCD_ID
    GS,             \* the line of the ground station dispatcher, GSCD
    RT,             \* the line of the realtime dispatcher, RTCD
    Capacity,       \* total_nodes_ of the packet list of each line
    Commands,       \* the commands packets may carry
    Uplink,         \* which of them are received for each line
    TiRange,        \* the execution times a received timeline packet may carry
    Blocks,         \* the block commands that exist
    BlockCmds,      \* their contents: sequences of [ti, cmd]
    ActiveBlocks,   \* the blocks that are active
    CycleMod,       \* the number of values of cycle_t (2^32)
    MaxCycle,       \* OBCT_MAX_CYCLE
    Rollover,       \* TRUE: the clock rolls over; FALSE: it stops at its last value
    ErrMod,         \* the number of values of error_counter (2^32)
    None            \* no command

Lines == Timelines \cup {GS, RT}
Times == 0..(CycleMod - 1)

\* What a command does to the pipeline.  A "plain" command does nothing to it:
\* any command of the other components, and those of the dispatchers that reject
\* their parameters (ok = FALSE).
CommandSpace ==
         [op : {"plain"}, ok : BOOLEAN]
    \cup [op : {"CLEAR_ALL"}, on : Timelines \cup {RT}]
    \cup [op : {"CLEAR_ERR_LOG", "APP_INIT"}, on : Lines]
    \cup [op : {"CLEAR_TIMELINE_AT"}, on : Timelines, at : Times]
    \cup [op : {"DEPLOY_BLOCK"}, on : Timelines, block : Blocks]
    \cup [op : {"SET_SOE_FLAG", "SET_LOUT_FLAG"}, on : Timelines, flag : BOOLEAN]
    \cup [op : {"SET_TIME"}, to : 0..(MaxCycle - 1)]

Packet == [ti : Times, cmd : Commands]

ASSUME CycleAssumption ==
    /\ MaxCycle \in Nat \ {0} /\ CycleMod \in Nat /\ MaxCycle < CycleMod
    /\ ErrMod \in Nat \ {0} /\ Rollover \in BOOLEAN
ASSUME LineAssumption ==
    /\ GS # RT /\ GS \notin Timelines /\ RT \notin Timelines
    /\ Capacity \in [Lines -> Nat \ {0}]
ASSUME CommandAssumption ==
    /\ Commands \subseteq CommandSpace /\ None \notin Commands
    /\ Uplink \in [Lines -> SUBSET Commands] /\ TiRange \subseteq Times
ASSUME BlockAssumption ==
    /\ BlockCmds \in [Blocks -> Seq(Packet)] /\ ActiveBlocks \subseteq Blocks
\* Every timeline can hold a whole block (TL_TLM_PAGE_SIZE * 4 nodes against BCT_MAX_CMD_NUM
\* commands) and is far shorter than a round of the clock.
ASSUME FitAssumption ==
    \A l \in Timelines : /\ Capacity[l] <= CycleMod
                         /\ \A b \in Blocks : Len(BlockCmds[b]) <= Capacity[l]

-----------------------------------------------------------------------------
VARIABLES
    total,      \* master_clock_.total_cycle
    lists,      \* the packet list of each line
    lockout,    \* CommandDispatcher.lockout of each line
    soe,        \* CommandDispatcher.stop_on_error
    prev,       \* CommandDispatcher.prev: the last command if it failed, else None
    prevErr,    \* CommandDispatcher.prev_err, likewise
    errs,       \* CommandDispatcher.error_counter
    pc,         \* where the running dispatcher is: idle, call, exec, deploy, finish
    line,       \* the line it dispatches
    pkt,        \* the copy of the packet it executes
    ok,         \* the result of the command
    dep,        \* the deployment the command performs
    \* history, read by the properties only:
    lastRun,    \* time of the last command begun on a line since the clock went back
    lastFail,   \* the last command of a line that failed since its error log was cleared
    touched,    \* the running command cleared its own line, or the clock went back
    stopped,    \* lines an error or a late command has stopped and nobody has released
    read        \* the clock as the running timeline dispatcher has read it

vars == <<total, lists, lockout, soe, prev, prevErr, errs, pc, line, pkt, ok, dep,
          lastRun, lastFail, touched, stopped, read>>
cdisVars == <<lockout, soe, prev, prevErr, errs>>
runVars  == <<pc, line, pkt, ok, dep>>
soeVars  == <<stopped, read>>

NoPacket == [ti |-> 0, cmd |-> None]
NoDeploy == [on |-> None, block |-> None, i |-> 0, adj |-> 0, start |-> 0,
             cleared |-> FALSE, before |-> {}, placed |-> <<>>, ack |-> "PL_SUCCESS"]

Init ==
    /\ total = 0
    /\ lists = [l \in Lines |-> <<>>]
    /\ lockout = [l \in Lines |-> FALSE]
    /\ soe = [l \in Lines |-> FALSE]
    /\ prev = [l \in Lines |-> None]
    /\ prevErr = [l \in Lines |-> None]
    /\ errs = [l \in Lines |-> 0]
    /\ pc = "idle" /\ line = GS /\ pkt = NoPacket /\ ok = TRUE /\ dep = NoDeploy
    /\ lastRun = [l \in Lines |-> 0]
    /\ lastFail = [l \in Lines |-> None]
    /\ touched = FALSE
    /\ stopped = {} /\ read = 0

-----------------------------------------------------------------------------
(***************************************************************************)
(* The clock: TMGR_count_up_master_clock, called by the timer interrupt.   *)
(***************************************************************************)

NextCycle == IF total + 1 = MaxCycle THEN 0 ELSE total + 1

Tick ==
    /\ Rollover \/ total + 1 < MaxCycle
    /\ total' = NextCycle
    /\ IF NextCycle < total
         THEN lastRun' = [l \in Lines |-> 0] /\ touched' = (pc # "idle")
         ELSE UNCHANGED <<lastRun, touched>>
    /\ UNCHANGED <<lists, cdisVars, runVars, lastFail, soeVars>>

-----------------------------------------------------------------------------
(***************************************************************************)
(* Reception: PH_analyze_cmd_packet, called by the applications that read  *)
(* the uplink or make commands of their own.  A packet that is refused is  *)
(* only logged.                                                            *)
(***************************************************************************)
Enqueued(l, packet) ==
    /\ pc = "idle"
    /\ lists' = [lists EXCEPT ![l] = IF l \in Timelines THEN Inserted(@, packet)
                                                        ELSE Append(@, packet)]
    /\ UNCHANGED <<total, cdisVars, runVars, lastRun, lastFail, touched, soeVars>>

\* PH_add_gs_cmd_ and PH_add_rt_cmd_
ReceiveRealtime(l, cmd) ==
    /\ ~IsFull(lists[l], Capacity[l])
    /\ Enqueued(l, [ti |-> 0, cmd |-> cmd])

\* PH_add_tl_cmd_, and PH_add_utl_cmd_ once it has converted the time
ReceiveTimeline(l, cmd, ti) ==
    /\ InsertAck(lists[l], Capacity[l], ti, total) = "PL_SUCCESS"
    /\ Enqueued(l, [ti |-> ti, cmd |-> cmd])

\* CCP_register_tlc_asap: a command made on board, at the first free time from ti on.
ReceiveAsap(l, cmd, ti) ==
    \E asap \in Times :
        /\ asap = AsapTi(lists[l], ti, CycleMod)
        /\ InsertAck(lists[l], Capacity[l], asap, total) = "PL_SUCCESS"
        /\ Enqueued(l, [ti |-> asap, cmd |-> cmd])

-----------------------------------------------------------------------------
(***************************************************************************)
(* Dispatch.  A timeline dispatcher reads the clock and checks the head of *)
(* its list (TLCD_tlc_dispatcher_ up to the call of CDIS_dispatch_command).*)
(* A late command stops the line if stop_on_error is set; the call is made *)
(* all the same, and the interrupt may come before it.                     *)
(***************************************************************************)
StopsLate(l) == CheckTl(lists[l], total) = "PL_TLC_PAST_TIME" /\ ~lockout[l] /\ soe[l]

\* BUG (mutant): the line is locked only after the late command has been dispatched.
CheckTimelineLate(l) ==
    /\ pc = "idle"
    /\ CheckTl(lists[l], total) \in {"PL_TLC_ON_TIME", "PL_TLC_PAST_TIME"}
    /\ pc' = "call" /\ line' = l /\ read' = total
    /\ UNCHANGED <<total, lists, cdisVars, pkt, ok, dep, lastRun, lastFail, touched, stopped>>

CheckTimeline(l) ==
    /\ pc = "idle"
    /\ CheckTl(lists[l], total) \in {"PL_TLC_ON_TIME", "PL_TLC_PAST_TIME"}
    /\ lockout' = [lockout EXCEPT ![l] = @ \/ StopsLate(l)]
    /\ stopped' = IF StopsLate(l) THEN stopped \cup {l} ELSE stopped
    /\ pc' = "call" /\ line' = l /\ read' = total
    /\ UNCHANGED <<total, lists, soe, prev, prevErr, errs, pkt, ok, dep, lastRun, lastFail, touched>>

(***************************************************************************)
(* CDIS_dispatch_command up to the call of PH_dispatch_command.  The packet *)
(* at the head of the list is copied and stays in the list.  GSCD_dispatch_ *)
(* and RTCD_dispatch_ do nothing but call it.                              *)
(***************************************************************************)
\* prev_err after the copy of a failed prev
\* BUG (mutant): prev is never copied.
SavedErrorLost(l) == prevErr[l]

SavedError(l) == IF prev[l] = None THEN prevErr[l] ELSE prev[l]

\* The dispatcher of the line is called now.
Called(l) == \/ pc = "idle" /\ l \in {GS, RT}
             \/ pc = "call" /\ l = line

Begin(l) ==
    /\ Called(l)
    /\ ~lockout[l]
    /\ lists[l] # <<>>
    /\ prevErr' = [prevErr EXCEPT ![l] = SavedError(l)]
    /\ pc' = "exec"
    /\ line' = l
    /\ pkt' = Head(lists[l])
    /\ lastRun' = IF touched THEN lastRun ELSE [lastRun EXCEPT ![l] = Head(lists[l]).ti]
    /\ read' = 0
    /\ UNCHANGED <<total, lists, lockout, soe, prev, errs, ok, dep, lastFail, touched, stopped>>

\* The line is locked: CDIS_dispatch_command returns at once.
Refuse ==
    /\ pc = "call"
    /\ lockout[line]
    /\ pc' = "idle" /\ line' = GS /\ read' = 0 /\ touched' = FALSE
    /\ UNCHANGED <<total, lists, cdisVars, pkt, ok, dep, lastRun, lastFail, stopped>>

-----------------------------------------------------------------------------
(***************************************************************************)
(* Execution: the command handler CA_execute_cmd calls.                    *)
(***************************************************************************)
Executes(op) == pc = "exec" /\ pkt.cmd.op = op

Returns(result) == pc' = "finish" /\ ok' = result /\ UNCHANGED <<line, pkt, dep>>

ExecPlain ==
    /\ Executes("plain")
    /\ Returns(pkt.cmd.ok)
    /\ UNCHANGED <<total, lists, cdisVars, lastRun, lastFail, touched, soeVars>>

\* Cmd_TLCD_CLEAR_ALL_TIMELINE and Cmd_RTCD_CLEAR_ALL_REALTIME
ExecClearAll ==
    /\ Executes("CLEAR_ALL")
    /\ lists' = [lists EXCEPT ![pkt.cmd.on] = <<>>]
    /\ touched' = (touched \/ pkt.cmd.on = line)
    /\ Returns(TRUE)
    /\ UNCHANGED <<total, cdisVars, lastRun, lastFail, soeVars>>

\* Cmd_TLCD_CLEAR_TIMELINE_AT
ExecClearAt ==
    /\ Executes("CLEAR_TIMELINE_AT")
    /\ lists' = [lists EXCEPT ![pkt.cmd.on] = DropAt(@, pkt.cmd.at)]
    /\ touched' = (touched \/ (pkt.cmd.on = line /\ pkt.cmd.at = pkt.ti))
    /\ Returns(PlannedAt(lists[pkt.cmd.on], pkt.cmd.at) # {})
    /\ UNCHANGED <<total, cdisVars, lastRun, lastFail, soeVars>>

\* Cmd_GSCD_/RTCD_/TLCD_CLEAR_ERR_LOG: CDIS_clear_error_status, which leaves prev alone.
ExecClearErrLog ==
    /\ Executes("CLEAR_ERR_LOG")
    /\ prevErr' = [prevErr EXCEPT ![pkt.cmd.on] = None]
    /\ errs' = [errs EXCEPT ![pkt.cmd.on] = 0]
    /\ lastFail' = [lastFail EXCEPT ![pkt.cmd.on] = None]
    /\ Returns(TRUE)
    /\ UNCHANGED <<total, lists, lockout, soe, prev, lastRun, touched, soeVars>>

\* Cmd_TLCD_SET_SOE_FLAG and Cmd_TLCD_SET_LOUT_FLAG
ExecSetSoe ==
    /\ Executes("SET_SOE_FLAG")
    /\ soe' = [soe EXCEPT ![pkt.cmd.on] = pkt.cmd.flag]
    /\ Returns(TRUE)
    /\ UNCHANGED <<total, lists, lockout, prev, prevErr, errs, lastRun, lastFail, touched, soeVars>>

ExecSetLockout ==
    /\ Executes("SET_LOUT_FLAG")
    /\ lockout' = [lockout EXCEPT ![pkt.cmd.on] = pkt.cmd.flag]
    /\ stopped' = IF pkt.cmd.flag THEN stopped ELSE stopped \ {pkt.cmd.on}
    /\ Returns(TRUE)
    /\ UNCHANGED <<total, lists, soe, prev, prevErr, errs, lastRun, lastFail, touched, read>>

\* Cmd_AM_INITIALIZE_APP of a dispatcher application: CDIS_init
ExecAppInit ==
    LET l == pkt.cmd.on
    IN  /\ Executes("APP_INIT")
        /\ lists' = [lists EXCEPT ![l] = <<>>]
        /\ lockout' = [lockout EXCEPT ![l] = FALSE]
        /\ soe' = [soe EXCEPT ![l] = FALSE]
        /\ prev' = [prev EXCEPT ![l] = None]
        /\ prevErr' = [prevErr EXCEPT ![l] = None]
        /\ errs' = [errs EXCEPT ![l] = 0]
        /\ lastFail' = [lastFail EXCEPT ![l] = None]
        /\ stopped' = stopped \ {l}
        /\ touched' = (touched \/ l = line)
        /\ Returns(TRUE)
        /\ UNCHANGED <<total, lastRun, read>>

\* Cmd_TMGR_SET_TIME
ExecSetTime ==
    /\ Executes("SET_TIME")
    /\ total' = pkt.cmd.to
    /\ lastRun' = [l \in Lines |-> IF total' < total THEN 0 ELSE lastRun[l]]
    /\ touched' = (touched \/ total' < total)
    /\ Returns(TRUE)
    /\ UNCHANGED <<lists, cdisVars, lastFail, soeVars>>

-----------------------------------------------------------------------------
(***************************************************************************)
(* Deployment: Cmd_TLCD_DEPLOY_BLOCK, that is PL_deploy_block_cmd onto a   *)
(* timeline from the current cycle on.  When the line has no room for the  *)
(* whole block it is cleared first.                                        *)
(***************************************************************************)

NoRoom(list, capacity, length) == capacity - Len(list) < length

BlockLength == Len(BlockCmds[dep.block])

\* The return value of Cmd_TLCD_DEPLOY_BLOCK for each result of the deployment.
DeployOk(ack) == ack \in {"PL_SUCCESS", "PL_BC_TIME_ADJUSTED"}

ExecDeployInactive ==
    /\ Executes("DEPLOY_BLOCK") /\ pkt.cmd.block \notin ActiveBlocks
    /\ pc' = "finish" /\ ok' = FALSE
    /\ dep' = [NoDeploy EXCEPT !.ack = "PL_BC_INACTIVE_BLOCK"]
    /\ UNCHANGED <<total, lists, cdisVars, line, pkt, lastRun, lastFail, touched, soeVars>>

ExecDeploy ==
    LET on == pkt.cmd.on
        noRoom == NoRoom(lists[on], Capacity[on], Len(BlockCmds[pkt.cmd.block]))
        kept == IF noRoom THEN <<>> ELSE lists[on]
    IN  /\ Executes("DEPLOY_BLOCK") /\ pkt.cmd.block \in ActiveBlocks
        /\ lists' = [lists EXCEPT ![on] = kept]
        /\ dep' = [NoDeploy EXCEPT !.on = on, !.block = pkt.cmd.block, !.start = total,
                                   !.cleared = noRoom, !.before = ToSet(kept)]
        /\ touched' = (touched \/ (noRoom /\ on = line))
        /\ pc' = "deploy"
        /\ UNCHANGED <<total, cdisVars, line, pkt, ok, lastRun, lastFail, soeVars>>

\* The next command of the block: its planned time, and the cycles it is moved by.
Planned == (dep.start + dep.adj + BlockCmds[dep.block][dep.i + 1].ti) % CycleMod
Moved == Shift(lists[dep.on], Capacity[dep.on], Planned, dep.start, CycleMod)
Placed == [ti |-> (Planned + Moved) % CycleMod, cmd |-> BlockCmds[dep.block][dep.i + 1].cmd]
PlaceAck == IF Moved > Len(lists[dep.on]) THEN "PL_TLC_ALREADY_EXISTS"
            ELSE InsertAck(lists[dep.on], Capacity[dep.on], Placed.ti, dep.start)

\* One iteration of the loop over the commands of the block.
DeployPlace ==
    /\ pc = "deploy" /\ dep.i < BlockLength
    /\ PlaceAck = "PL_SUCCESS"
    /\ lists' = [lists EXCEPT ![dep.on] = Inserted(@, Placed)]
    /\ dep' = [dep EXCEPT !.i = @ + 1, !.adj = @ + Moved,
                          !.placed = Append(@, Placed.ti)]
    /\ UNCHANGED <<total, cdisVars, pc, line, pkt, ok, lastRun, lastFail, touched, soeVars>>

\* "if (ack != PL_SUCCESS) return ack": the rest of the block is not deployed.
DeployAbort ==
    /\ pc = "deploy" /\ dep.i < BlockLength
    /\ PlaceAck # "PL_SUCCESS"
    /\ dep' = [dep EXCEPT !.ack = PlaceAck]
    /\ pc' = "finish" /\ ok' = FALSE
    /\ UNCHANGED <<total, lists, cdisVars, line, pkt, lastRun, lastFail, touched, soeVars>>

\* BUG (mutant): the delays are not reported.
DeployResultSilent == IF dep.cleared THEN "PL_BC_LIST_CLEARED" ELSE "PL_SUCCESS"

DeployResult ==
    CASE dep.cleared -> "PL_BC_LIST_CLEARED"
      [] ~dep.cleared /\ dep.adj # 0 -> "PL_BC_TIME_ADJUSTED"
      [] OTHER -> "PL_SUCCESS"

DeployDone ==
    /\ pc = "deploy" /\ dep.i = BlockLength
    /\ dep' = [dep EXCEPT !.ack = DeployResult]
    /\ pc' = "finish" /\ ok' = DeployOk(DeployResult)
    /\ UNCHANGED <<total, lists, cdisVars, line, pkt, lastRun, lastFail, touched, soeVars>>

-----------------------------------------------------------------------------
(***************************************************************************)
(* The end of CDIS_dispatch_command.  PL_drop_executed drops whatever      *)
(* packet is at the head of the list now.                                  *)
(***************************************************************************)
DropExecuted(list) == IF list = <<>> THEN <<>> ELSE Tail(list)

Finish ==
    /\ pc = "finish"
    /\ lists' = [lists EXCEPT ![line] = DropExecuted(@)]
    /\ IF ok
         THEN /\ prev' = [prev EXCEPT ![line] = None]
              /\ UNCHANGED <<errs, lockout, lastFail, stopped>>
         ELSE /\ prev' = [prev EXCEPT ![line] = pkt.cmd]
              /\ errs' = [errs EXCEPT ![line] = (@ + 1) % ErrMod]
              /\ lockout' = [lockout EXCEPT ![line] = @ \/ soe[line]]
              /\ lastFail' = [lastFail EXCEPT ![line] = pkt.cmd]
              /\ stopped' = IF soe[line] THEN stopped \cup {line} ELSE stopped
    /\ pc' = "idle" /\ line' = GS /\ pkt' = NoPacket /\ ok' = TRUE /\ dep' = NoDeploy
    /\ touched' = FALSE
    /\ UNCHANGED <<total, soe, prevErr, lastRun, read>>

-----------------------------------------------------------------------------
Receive ==
    \/ \E l \in {GS, RT} : \E cmd \in Uplink[l] : ReceiveRealtime(l, cmd)
    \/ \E l \in Timelines : \E cmd \in Uplink[l], ti \in TiRange :
            ReceiveTimeline(l, cmd, ti) \/ ReceiveAsap(l, cmd, ti)

\* A dispatcher application is called: the timeline ones check the time first.
Dispatch(l) == IF l \in Timelines THEN CheckTimeline(l) ELSE Begin(l)

\* A timeline dispatcher calls CDIS_dispatch_command.
Call == (\E l \in Timelines : Begin(l)) \/ Refuse

Execute ==
    \/ ExecPlain \/ ExecClearAll \/ ExecClearAt \/ ExecClearErrLog \/ ExecSetSoe
    \/ ExecSetLockout \/ ExecAppInit \/ ExecSetTime
    \/ ExecDeployInactive \/ ExecDeploy \/ DeployPlace \/ DeployAbort \/ DeployDone

Next == Tick \/ Receive \/ (\E l \in Lines : Dispatch(l)) \/ Call \/ Execute \/ Finish

Spec == Init /\ [][Next]_vars

(***************************************************************************)
(* A running dispatcher goes on, the interrupt fires for ever, and the     *)
(* task list calls every dispatcher application again and again: when a    *)
(* dispatcher keeps finding a command to execute, it executes it.          *)
(***************************************************************************)
Fairness ==
    /\ WF_vars(Call \/ Execute \/ Finish)
    /\ WF_vars(Tick)
    /\ \A l \in Lines : SF_vars(Dispatch(l))

FairSpec == Spec /\ Fairness

-----------------------------------------------------------------------------
(***************************************************************************)
(* Properties.                                                             *)
(***************************************************************************)
Deployment ==
    [on : Timelines \cup {None}, block : Blocks \cup {None}, i : Nat, adj : Nat,
     start : Times, cleared : BOOLEAN, before : SUBSET Packet,
     placed : Seq(Times), ack : PL_ACKS]

\* A command is being executed.
Running == {"exec", "deploy", "finish"}

TypeOK ==
    /\ total \in 0..(MaxCycle - 1)
    /\ lists \in [Lines -> Seq(Packet)]
    /\ lockout \in [Lines -> BOOLEAN]
    /\ soe \in [Lines -> BOOLEAN]
    /\ prev \in [Lines -> Commands \cup {None}]
    /\ prevErr \in [Lines -> Commands \cup {None}]
    /\ errs \in [Lines -> 0..(ErrMod - 1)]
    /\ pc \in {"idle", "call"} \cup Running
    /\ line \in Lines /\ (pc = "call" => line \in Timelines)
    /\ pkt \in Packet \cup {NoPacket} /\ (pc \in Running => pkt \in Packet)
    /\ ok \in BOOLEAN
    /\ dep \in Deployment
    /\ pc = "deploy" => /\ dep.on \in Timelines /\ dep.block \in Blocks
                        /\ dep.i <= BlockLength /\ Len(dep.placed) = dep.i
    /\ lastRun \in [Lines -> Times]
    /\ lastFail \in [Lines -> Commands \cup {None}]
    /\ touched \in BOOLEAN
    /\ stopped \subseteq Lines
    /\ read \in Times

\* A timeline is strictly ordered by time: no two commands have the same time, and the
\* head is the one to execute next, whatever mixture of receptions, deployments and
\* removals made the list (PL_insert_tl_cmd, packet_list.c:289).
TimelineOrdered == \A l \in Timelines : Ordered(lists[l])

\* No list holds more packets than it has nodes, and while a block is deployed the
\* rest of the block still fits: the deployment never meets a full list
\* (packet_list.c:371), provided the block is not longer than the whole list.
DeployNeverFull ==
    /\ \A l \in Lines : Len(lists[l]) <= Capacity[l]
    /\ dep.ack # "PL_LIST_FULL"

\* Within one run of the clock (until it is set back or rolls over) the commands of a
\* timeline begin in the order of their times, and no command can still get into the
\* line before one that was begun: "now > planed" (packet_list.c:302) refuses it.
TimelineRunsInOrder ==
    \A l \in Timelines : \A i \in DOMAIN lists[l] : lastRun[l] <= lists[l][i].ti

\* The packet being executed stays at the head of its line until it is dropped, unless
\* the command cleared its own line or the clock went back meanwhile: what
\* PL_drop_executed drops (command_dispatcher.c:153) is what was executed.
HeadIsRunning ==
    pc \in Running /\ ~touched => lists[line] # <<>> /\ Head(lists[line]) = pkt

\* No timeline command begins before its time, and a deployment starts no earlier than
\* the command that performs it: what was begun since the clock went back is not ahead of
\* the clock, however the interrupt falls between the steps of a dispatch.
NothingRunsEarly ==
    /\ \A l \in Timelines : lastRun[l] <= total
    /\ pc = "deploy" => \A l \in Timelines : lastRun[l] <= dep.start
    /\ line \in Timelines /\ ~touched =>
           /\ pc = "call" => lists[line] # <<>> /\ Head(lists[line]).ti <= total
           /\ pc = "exec" => pkt.ti <= total
           /\ pc = "deploy" => pkt.ti <= dep.start

\* Every retry loop of a deployment finds a free time within active_nodes_ + 1 attempts
\* (packet_list.c:390): it never gives up because the time is taken.
DeployFindsTime == dep.ack # "PL_TLC_ALREADY_EXISTS"

\* A deployment adds exactly the commands of the block it has reached, at the times it
\* recorded, and loses nothing of what the line held after the forced clear
\* (packet_list.c:378).
DeployIsExact ==
    pc = "deploy" =>
        /\ ToSet(lists[dep.on]) = dep.before \cup
             {[ti |-> dep.placed[i], cmd |-> BlockCmds[dep.block][i].cmd] : i \in 1..dep.i}
        /\ Len(lists[dep.on]) = Cardinality(dep.before) + dep.i

\* Commands of a block keep their distances: a later command is never brought nearer to
\* an earlier one than the block says, because the delays are accumulated in adj
\* (packet_list.c:387, 398), and no two of them get the same time.
DeployKeepsSpacing ==
    \A i, j \in DOMAIN dep.placed :
        LET block == BlockCmds[dep.block]
        IN  i < j /\ dep.start + dep.adj + block[j].ti < CycleMod =>
                /\ dep.placed[i] + block[j].ti <= dep.placed[j] + block[i].ti
                /\ dep.placed[i] # dep.placed[j]

\* What a deployment leaves in the line is the block, at its distances, besides what was
\* there, and it is never refused a node or a time on the way.
DeployIsWhole == DeployNeverFull /\ DeployFindsTime /\ DeployIsExact /\ DeployKeepsSpacing

\* The result of a complete deployment tells what it did: PL_SUCCESS only if every
\* command is at its own time and nothing was cleared, PL_BC_TIME_ADJUSTED only if
\* some command was moved (packet_list.c:404).
ResultIsTruthful ==
    pc = "finish" /\ dep.on # None =>
        LET block == BlockCmds[dep.block]
            exact(i) == dep.placed[i] = (dep.start + block[i].ti) % CycleMod
        IN  /\ dep.ack = "PL_SUCCESS" =>
                  ~dep.cleared /\ Len(dep.placed) = Len(block) /\ \A i \in DOMAIN block : exact(i)
            /\ dep.ack = "PL_BC_TIME_ADJUSTED" =>
                  ~dep.cleared /\ Len(dep.placed) = Len(block) /\ \E i \in DOMAIN block : ~exact(i)

\* The last failure of a line since its error log was cleared is kept, in prev or in
\* prev_err: command_dispatcher.c:124 saves it before prev is overwritten.
LastFailureKept ==
    \A l \in Lines : lastFail[l] # None => lastFail[l] \in {prev[l], prevErr[l]}

\* An error or a late command under stop_on_error stops the line
\* (timeline_command_dispatcher.c:142, command_dispatcher.c:176): from then on none of its
\* commands begins, whatever the ground sets, clears, deploys or lets fail, until a command
\* takes the lockout back or starts the application anew; and a command that begins while
\* the flag is set is one whose time it was when the clock was read, however often the
\* interrupt has come between that and the call.
SoeStopsTheLine ==
    [][\A l \in Timelines : (pc = "call" /\ pc' = "exec" /\ line' = l) =>
           l \notin stopped /\ (soe[l] => pkt'.ti = read)]_vars

\* A command waiting in an unlocked timeline is eventually executed or removed.
TimelineServed ==
    \A l \in Timelines : \A t \in 0..(MaxCycle - 1) :
        PlannedAt(lists[l], t) # {} ~> (PlannedAt(lists[l], t) = {} \/ lockout[l])

-----------------------------------------------------------------------------
(***************************************************************************)
(* Statements of the source that the code does not keep.                   *)
(***************************************************************************)
\* "Drop the executed command from the list" (command_dispatcher.c:152): at the end of a
\* dispatch PL_drop_executed drops the executed packet or nothing.
DropsOnlyTheExecuted ==
    pc = "finish" /\ lists[line] # <<>> => Head(lists[line]) = pkt

\* "PL_BC_LIST_CLEARED: the list was cleared by force because it had not enough room"
\* (packet_list.h:276): a deployment that cleared the list says so.
ClearIsReported ==
    pc = "finish" /\ dep.cleared => dep.ack = "PL_BC_LIST_CLEARED"

\* "Deletes the command execution error information" (command_dispatcher.h:67): after
\* CDIS_clear_error_status prev_err is empty until a command fails again.
ErrorLogStaysCleared == \A l \in Lines : lastFail[l] = None => prevErr[l] = None
=============================================================================
