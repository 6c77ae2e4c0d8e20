--------------------------- MODULE TaskDispatcher ---------------------------
(***************************************************************************)
(* The task dispatcher (task_dispatcher.c) and the clock it follows        *)
(* (time_manager.c, obc_time.c).                                           *)
(*                                                                         *)
(* The main loop calls TDSP_execute_pl_as_task_list for ever.  It executes *)
(* the tasks of the task list, each at its step of a cycle, and when the   *)
(* list is empty deploys the block of the current mode again for the next  *)
(* cycle.  The tasks are the applications; among what they execute are the *)
(* commands that set the clock, choose another list or change the blocks.  *)
(*                                                                         *)
(* The clock is advanced by the timer interrupt.  The dispatcher reads it  *)
(* anew for every comparison, so every read is a step of its own and Tick  *)
(* may come between any two.                                               *)
(***************************************************************************)
EXTENDS PacketListOps

CONSTANTS
    Blocks,         \* the block commands
    BlockCmds,      \* what they hold after BCT_initialize: sequences of [ti, cmd]
    StartUp,        \* the task list of MD_MODEID_START_UP
    Effects,        \* what each task may do
    Capacity,       \* TDSP_TASK_MAX
    Steps,          \* OBCT_STEPS_PER_CYCLE
    CycleMod,       \* the number of values of cycle_t (2^32)
    MaxCycle,       \* OBCT_MAX_CYCLE
    Rollover        \* TRUE: the clock rolls over; FALSE: it stops at its last value

Tasks == DOMAIN Effects
BlockState == [cmds : Seq([ti : Nat, cmd : Tasks]), active : BOOLEAN]

EffectSpace ==
         [op : {"none"}]
    \cup [op : {"SET_TIME"}, to : 0..(MaxCycle - 1)]
    \cup [op : {"SET_TASK_LIST", "ACTIVATE", "INACTIVATE", "CLEAR_BLOCK"}, block : Blocks]

ASSUME DispatcherAssumption ==
    /\ MaxCycle \in Nat \ {0} /\ CycleMod \in Nat /\ MaxCycle < CycleMod
    /\ Steps \in Nat \ {0} /\ Capacity \in Nat \ {0} /\ Rollover \in BOOLEAN
    /\ BlockCmds \in [Blocks -> Seq([ti : Nat, cmd : Tasks])] /\ StartUp \in Blocks
    /\ \A task \in Tasks : Effects[task] \subseteq EffectSpace

Places == {"idle", "check", "later", "past", "last", "overrun", "deploy", "place", "run"}

VARIABLES
    total,      \* master_clock_.total_cycle
    step,       \* master_clock_.step
    activated,  \* task_dispatcher_.activated_at
    listId,     \* task_dispatcher_.task_list_id
    list,       \* TDSP_task_list_
    blocks,     \* the block command table
    pc,         \* the comparison the dispatcher makes next
    source      \* history: the list as the last deployment left it

vars == <<total, step, activated, listId, list, blocks, pc, source>>
clock == <<total, step>>

FreshList(id) == Deployed(<<>>, Capacity, blocks[id].cmds, 0, CycleMod).list

\* C2A_core_init: TDSP_initialize deploys the first list for cycle 0, and
\* TMGR_down_initializing_flag sets the clock back to 0.
Init ==
    /\ total = 0 /\ step = 0 /\ activated = 0
    /\ listId = StartUp
    /\ blocks = [b \in Blocks |-> [cmds |-> BlockCmds[b], active |-> TRUE]]
    /\ list = FreshList(StartUp)
    /\ source = list
    /\ pc = "idle"

-----------------------------------------------------------------------------
\* TMGR_count_up_master_clock, called by the timer interrupt.
LastStep == step + 1 = Steps

Tick ==
    /\ Rollover \/ ~LastStep \/ total + 1 < MaxCycle
    /\ step' = IF LastStep THEN 0 ELSE step + 1
    /\ total' = IF ~LastStep THEN total ELSE IF total + 1 = MaxCycle THEN 0 ELSE total + 1
    /\ UNCHANGED <<activated, listId, list, blocks, pc, source>>

-----------------------------------------------------------------------------
(***************************************************************************)
(* TDSP_execute_pl_as_task_list                                            *)
(***************************************************************************)
Goto(here, there) ==
    /\ pc = here /\ pc' = there
    /\ UNCHANGED <<clock, activated, listId, list, blocks, source>>

\* "activated_at == total": the list is for this cycle.
ThisCycle == activated = total /\ Goto("idle", "check")

\* "activated_at > total": the list is for the next cycle.
NotThisCycle == activated # total /\ Goto("idle", "later")
NextCycle == activated > total /\ Goto("later", "idle")

\* "activated_at < total": the cycle of the list is over, unless activated_at is 0 and
\* the clock is about to roll over.
NotNextCycle == activated <= total /\ Goto("later", "past")
CaughtUp == activated >= total /\ Goto("past", "idle")

\* BUG (mutant): nothing is done about a list whose cycle is over.
PastCycleIgnored == activated < total /\ Goto("past", "idle")

PastCycle == activated < total /\ Goto("past", IF activated = 0 THEN "last" ELSE "overrun")
LastCycle == Goto("last", IF total = MaxCycle - 1 THEN "idle" ELSE "overrun")

\* BUG (mutant): what is left of the old list stays in the list.
OverrunKept == Goto("overrun", "deploy")

\* TDSP_CYCLE_OVERRUN: the rest of the list is thrown away.
Overrun ==
    /\ pc = "overrun" /\ pc' = "deploy"
    /\ list' = <<>>
    /\ UNCHANGED <<clock, activated, listId, blocks, source>>

\* The head of the list against the step of the clock.
Due == CheckTl(list, step) \in {"PL_TLC_ON_TIME", "PL_TLC_PAST_TIME"}
CheckRun == Due /\ Goto("check", "run")
CheckDeploy == ~Due /\ list = <<>> /\ Goto("check", "deploy")
CheckWait == ~Due /\ list # <<>> /\ Goto("check", "idle")

\* TDSP_deploy_block_as_task_list_: activated_at is set first, then the block is deployed.
\* BUG (mutant): the list is deployed for the current cycle.
ActivatedNow == total

ActivatedNext == (total + 1) % CycleMod

Deploy ==
    /\ pc = "deploy"
    /\ activated' = ActivatedNext
    /\ pc' = "place"
    /\ UNCHANGED <<clock, listId, list, blocks, source>>

Place ==
    /\ pc = "place"
    /\ list' = IF blocks[listId].active
                 THEN Deployed(list, Capacity, blocks[listId].cmds, 0, CycleMod).list
                 ELSE list
    /\ source' = FreshList(listId)
    /\ pc' = "idle"
    /\ UNCHANGED <<clock, activated, listId, blocks>>

-----------------------------------------------------------------------------
(***************************************************************************)
(* CDIS_dispatch_command: the task at the head is executed and dropped.    *)
(* However long it takes, the interrupt goes on; what it does to the clock, *)
(* to task_list_id or to the blocks is one of its effects.                 *)
(***************************************************************************)
Effect(op) ==
    {effect \in EffectSpace : pc = "run" /\ effect.op = op /\ effect \in Effects[Head(list).cmd]}

Dropped == pc = "run" /\ pc' = "idle" /\ list' = Tail(list) /\ UNCHANGED source

RunPlain ==
    /\ Effect("none") # {}
    /\ Dropped
    /\ UNCHANGED <<clock, activated, listId, blocks>>

\* Cmd_TMGR_SET_TIME: TMGR_set_master_total_cycle_ and TDSP_resync_internal_counter
RunSetTime ==
    \E effect \in Effect("SET_TIME") :
        /\ Dropped
        /\ total' = effect.to /\ activated' = effect.to
        /\ UNCHANGED <<step, listId, blocks>>

\* Cmd_TDSP_SET_TASK_LIST and the end of a mode transition: TDSP_set_task_list_id
RunSetTaskList ==
    \E effect \in Effect("SET_TASK_LIST") :
        /\ Dropped
        /\ listId' = IF blocks[effect.block].active /\ blocks[effect.block].cmds # <<>>
                       THEN effect.block ELSE listId
        /\ UNCHANGED <<clock, activated, blocks>>

\* BCE_activate_block_by_id and BCE_inactivate_block_by_id
RunActivate ==
    \E effect \in Effect("ACTIVATE") :
        /\ Dropped
        /\ blocks' = [blocks EXCEPT ![effect.block].active = TRUE]
        /\ UNCHANGED <<clock, activated, listId>>

RunInactivate ==
    \E effect \in Effect("INACTIVATE") :
        /\ Dropped
        /\ blocks' = [blocks EXCEPT ![effect.block].active = FALSE]
        /\ UNCHANGED <<clock, activated, listId>>

\* BCT_clear_block
RunClearBlock ==
    \E effect \in Effect("CLEAR_BLOCK") :
        /\ Dropped
        /\ blocks' = [blocks EXCEPT ![effect.block] = [cmds |-> <<>>, active |-> FALSE]]
        /\ UNCHANGED <<clock, activated, listId>>

Run == RunPlain \/ RunSetTime \/ RunSetTaskList \/ RunActivate \/ RunInactivate \/ RunClearBlock

Dispatch ==
    \/ ThisCycle \/ NotThisCycle \/ NextCycle \/ NotNextCycle \/ CaughtUp \/ PastCycle \/ LastCycle
    \/ Overrun \/ CheckRun \/ CheckDeploy \/ CheckWait \/ Deploy \/ Place

Next == Tick \/ Dispatch \/ Run

Spec == Init /\ [][Next]_vars

\* The main loop calls the dispatcher for ever, every task returns, and the interrupt fires.
\* Dispatch \/ Run is always enabled and its steps are those that move pc: fairness of it is
\* stated as fairness of the moves of pc, which TLC decides without computing a deployment.
FairSpec == Spec /\ WF_pc(\E there \in Places : pc' = there) /\ WF_vars(Tick)

-----------------------------------------------------------------------------
TypeOK ==
    /\ total \in 0..(MaxCycle - 1) /\ step \in 0..(Steps - 1)
    /\ activated \in 0..(CycleMod - 1)
    /\ listId \in Blocks /\ blocks \in [Blocks -> BlockState]
    /\ list \in Seq([ti : Nat, cmd : Tasks]) /\ source \in Seq([ti : Nat, cmd : Tasks])
    /\ pc \in Places
    /\ pc = "run" => list # <<>>

\* The dispatcher never waits for more than the next cycle (task_dispatcher.c:79, 184),
\* also when the clock is set back while a list is running: were activated_at further
\* ahead, nothing would run until the clock gets there.  (For a clock that does not roll
\* over: see AwaitedCycleComes.)
NeverFarAhead == activated <= total + 1

\* A new list is for a later cycle than the one before: no list is executed twice in a
\* cycle, unless the clock was set (task_dispatcher.c:79).
NeverTwiceInACycle == [][pc = "deploy" /\ pc' = "place" => activated' > activated]_vars

\* No task begins before its step of the cycle the list is for, wherever the interrupt
\* falls between the reads of the cycle and of the step (task_dispatcher.c:100-104).
NoTaskBeforeItsStep ==
    pc = "run" => activated < total \/ (activated = total /\ Head(list).ti <= step)

\* The task list never mixes two lists: it is deployed onto an empty list
\* (task_dispatcher.c:177), so that a change of mode takes effect as a whole and only
\* between two cycles.
EmptyWhenDeployed == pc \in {"deploy", "place"} => list = <<>>

\* The task list is that of one cycle, the running or the next one (task_dispatcher.c:79, 177).
OneCycleAtATime == NeverFarAhead /\ EmptyWhenDeployed

\* A dispatcher that fell behind the clock catches up with it (task_dispatcher.c:177).  In
\* the last cycle activated_at = 0 stands for the cycle to come.
OverrunRecovers ==
    activated < total ~> activated >= total \/ (activated = 0 /\ total = MaxCycle - 1)

-----------------------------------------------------------------------------
\* "activated_at has overflowed and is back at 0" (task_dispatcher.c:165) is how the code
\* expects the cycle after the last one to be awaited: activated_at is always a cycle the
\* clock reaches.
AwaitedCycleComes == activated < MaxCycle
=============================================================================
