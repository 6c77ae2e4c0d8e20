---------------------------- MODULE ModeManager ----------------------------
(***************************************************************************)
(* The mode manager (mode_manager.c).  A transition starts by deploying a  *)
(* block of commands onto a timeline; the last command of the block ends   *)
(* the transition when its time comes, and only then the task list of the  *)
(* new mode takes the place of the old one.                                *)
(*                                                                         *)
(* So the end of a transition is a packet in a list that everybody can     *)
(* clear, fill and deploy onto, and a command that anybody can send.  The  *)
(* module composes the mode manager with that list (TLCD_ID_DEPLOY_BC) and *)
(* with the commands from the ground that touch either of them.            *)
(*                                                                         *)
(* A command runs to its end in one step; what the interrupt may do within *)
(* a deployment is the subject of CommandPipeline.                         *)
(***************************************************************************)
EXTENDS PacketListOps

CONSTANTS
    Modes,              \* MD_MODEID
    StartUpMode,        \* MD_MODEID_START_UP
    InitialMode,        \* MD_MODEID_INITIAL
    Blocks,             \* the block commands
    BlockCmds,          \* their contents after BCT_initialize: sequences of [ti, cmd]
    NotDefined,         \* MM_NOT_DEFINED
    ModeList,           \* MD_load_mode_list: a block or NotDefined for each mode
    TransitionTable,    \* MD_load_transition_table, likewise for each pair of modes
    Ground,             \* the commands the ground sends
    Capacity,           \* PH_TLC_BC_LIST_MAX
    BootCycles,         \* how long C2A_core_init may take
    CycleMod,           \* the number of values of cycle_t (2^32)
    MaxCycle            \* the last cycle of the clock, where the model stops

Entries == Blocks \cup {NotDefined}
Times == 0..(CycleMod - 1)

CommandSpace ==
         [op : {"NOP", "FINISH", "CLEAR_ALL"}]
    \cup [op : {"START"}, to : Modes]
    \cup [op : {"DEPLOY", "ACTIVATE", "INACTIVATE", "CLEAR_BLOCK", "SET_TASK_LIST"}, block : Blocks]
    \cup [op : {"CLEAR_AT"}, at : Times]
    \cup [op : {"SET_MODE_LIST"}, mode : Modes, block : Entries]
    \cup [op : {"SET_TRANSITION_TABLE"}, from : Modes, to : Modes, block : Entries]

ASSUME ModeAssumption ==
    /\ StartUpMode \in Modes /\ InitialMode \in Modes /\ NotDefined \notin Blocks
    /\ BlockCmds \in [Blocks -> Seq([ti : Times, cmd : CommandSpace])]
    /\ ModeList \in [Modes -> Entries] /\ ModeList[StartUpMode] # NotDefined
    /\ TransitionTable \in [Modes -> [Modes -> Entries]]
    /\ Ground \subseteq CommandSpace /\ BootCycles \subseteq Times
    /\ Capacity \in Nat \ {0} /\ MaxCycle \in Nat /\ CycleMod \in Nat /\ MaxCycle < CycleMod

\* A block ends a transition at most once: MM_FINISH_TRANSITION is to be the last command of
\* the block of a transition (mode_manager.c:248), as it is in sl_initial.c and sl_nop.c of
\* the examples.
ASSUME EndAssumption ==
    \A b \in Blocks : \A i, j \in DOMAIN BlockCmds[b] :
        BlockCmds[b][i].cmd.op = "FINISH" /\ BlockCmds[b][j].cmd.op = "FINISH" => i = j

VARIABLES
    stat,       \* mode_manager_.stat
    previous,   \* mode_manager_.previous_id
    current,    \* mode_manager_.current_id
    modeList,   \* mode_manager_.mode_list
    table,      \* mode_manager_.transition_table
    blocks,     \* the block command table
    line,       \* the timeline TLCD_ID_DEPLOY_BC
    taskList,   \* task_dispatcher_.task_list_id
    total,      \* master_clock_.total_cycle
    \* history, read by the properties only:
    lost,       \* the end of the running transition is not in the line
    stray,      \* the ground ended a transition that would have ended by itself, or
                \* deployed a block that ends one
    taskMode    \* the mode whose task list was selected last; NotDefined when the ground
                \* selected one, or when the list of a new mode was refused

vars == <<stat, previous, current, modeList, table, blocks, line, taskList, total,
          lost, stray, taskMode>>
tables == <<modeList, table, blocks>>
modeVars == <<stat, previous, current, taskList, taskMode>>

DeployedOnto(list, block) ==
    IF blocks[block].active THEN Deployed(list, Capacity, blocks[block].cmds, total, CycleMod).list
                            ELSE list

EndsTransition(block) == \E i \in DOMAIN blocks[block].cmds : blocks[block].cmds[i].cmd.op = "FINISH"
HasEnd(list) == \E i \in DOMAIN list : list[i].cmd.op = "FINISH"

(***************************************************************************)
(* MM_initialize starts the transition to the initial mode while the clock *)
(* still counts the initialization; TDSP_initialize then selects the task  *)
(* list of MD_MODEID_START_UP, and TMGR_down_initializing_flag sets the    *)
(* clock back to 0.                                                        *)
(***************************************************************************)
Init ==
    LET first == TransitionTable[StartUpMode][InitialMode]
    IN  /\ modeList = ModeList /\ table = TransitionTable
        /\ blocks = [b \in Blocks |-> [cmds |-> BlockCmds[b], active |-> TRUE]]
        /\ previous = StartUpMode
        /\ taskList = ModeList[StartUpMode] /\ taskMode = StartUpMode
        /\ total = 0 /\ stray = FALSE
        /\ IF first = NotDefined
             THEN line = <<>> /\ stat = "FINISHED" /\ current = StartUpMode /\ lost = FALSE
             ELSE /\ \E boot \in BootCycles :
                       line = Deployed(<<>>, Capacity, BlockCmds[first], boot, CycleMod).list
                  /\ stat = "IN_PROGRESS" /\ current = InitialMode
                  /\ lost = ~HasEnd(line)
-----------------------------------------------------------------------------
(***************************************************************************)
(* A command comes from the ground (own = FALSE) or is the head of the     *)
(* line (own = TRUE), which CDIS_dispatch_command drops when it returns:   *)
(* whatever is the head of the line by then.                               *)
(***************************************************************************)
Due == CheckTl(line, total) \in {"PL_TLC_ON_TIME", "PL_TLC_PAST_TIME"}

Runs(cmd, own) == IF own THEN Due /\ cmd = line[1].cmd ELSE cmd \in Ground

Left(list, own) == IF own /\ list # <<>> THEN Tail(list) ELSE list

\* A command that leaves the mode manager alone and makes the line what it is given.
Leaves(list, own) ==
    /\ line' = Left(list, own)
    /\ lost' = (lost \/ (stat = "IN_PROGRESS" /\ HasEnd(line) /\ ~HasEnd(line')))

\* BUG (mutant): a transition may start while another one is in progress.
MayStartAlways(to) == table[current][to] # NotDefined

MayStart(to) == stat = "FINISHED" /\ table[current][to] # NotDefined

\* MM_start_transition_; whether the deployment succeeds is not looked at.
Start(cmd, own) ==
    /\ cmd.op = "START" /\ MayStart(cmd.to)
    /\ line' = Left(DeployedOnto(line, table[current][cmd.to]), own)
    /\ previous' = current /\ current' = cmd.to /\ stat' = "IN_PROGRESS"
    /\ lost' = ~HasEnd(line')
    /\ UNCHANGED <<tables, taskList, total, stray, taskMode>>

RefuseStart(cmd, own) ==
    /\ cmd.op = "START" /\ ~MayStart(cmd.to)
    /\ Leaves(line, own)
    /\ UNCHANGED <<modeVars, tables, total, stray>>

\* TDSP_set_task_list_id
Selectable(block) == block # NotDefined /\ blocks[block].active /\ blocks[block].cmds # <<>>

NextList == modeList[current]

\* MM_finish_transition_: the transition ends even if its task list is refused.
Finish(cmd, own) ==
    /\ cmd.op = "FINISH" /\ stat = "IN_PROGRESS"
    /\ line' = Left(line, own)
    /\ stat' = "FINISHED"
    /\ taskList' = IF Selectable(NextList) THEN NextList ELSE taskList
    /\ taskMode' = IF Selectable(NextList) THEN current ELSE NotDefined
    /\ stray' = (stray \/ (~own /\ ~lost))
    /\ lost' = FALSE
    /\ UNCHANGED <<previous, current, tables, total>>

RefuseFinish(cmd, own) ==
    /\ cmd.op = "FINISH" /\ stat # "IN_PROGRESS"
    /\ Leaves(line, own)
    /\ UNCHANGED <<modeVars, tables, total, stray>>

Nop(cmd, own) ==
    /\ cmd.op = "NOP"
    /\ Leaves(line, own)
    /\ UNCHANGED <<modeVars, tables, total, stray>>

\* Cmd_TLCD_DEPLOY_BLOCK onto this timeline
Deploy(cmd, own) ==
    /\ cmd.op = "DEPLOY"
    /\ Leaves(DeployedOnto(line, cmd.block), own)
    /\ stray' = (stray \/ EndsTransition(cmd.block))
    /\ UNCHANGED <<modeVars, tables, total>>

\* Cmd_TLCD_CLEAR_ALL_TIMELINE and Cmd_TLCD_CLEAR_TIMELINE_AT of this timeline
ClearAll(cmd, own) ==
    /\ cmd.op = "CLEAR_ALL"
    /\ Leaves(<<>>, own)
    /\ UNCHANGED <<modeVars, tables, total, stray>>

ClearAt(cmd, own) ==
    /\ cmd.op = "CLEAR_AT"
    /\ Leaves(DropAt(line, cmd.at), own)
    /\ UNCHANGED <<modeVars, tables, total, stray>>

-----------------------------------------------------------------------------
\* MM_set_mode_list and MM_set_transition_table accept NotDefined and active blocks.
Registrable(block) == block = NotDefined \/ blocks[block].active

SetModeList(cmd, own) ==
    /\ cmd.op = "SET_MODE_LIST"
    /\ modeList' = IF Registrable(cmd.block) THEN [modeList EXCEPT ![cmd.mode] = cmd.block] ELSE modeList
    /\ Leaves(line, own)
    /\ UNCHANGED <<modeVars, table, blocks, total, stray>>

SetTransitionTable(cmd, own) ==
    /\ cmd.op = "SET_TRANSITION_TABLE"
    /\ table' = IF Registrable(cmd.block) THEN [table EXCEPT ![cmd.from][cmd.to] = cmd.block] ELSE table
    /\ Leaves(line, own)
    /\ UNCHANGED <<modeVars, modeList, blocks, total, stray>>

\* BCE_activate_block_by_id, BCE_inactivate_block_by_id and BCT_clear_block
SetBlock(cmd, own) ==
    /\ \/ cmd.op = "ACTIVATE" /\ blocks' = [blocks EXCEPT ![cmd.block].active = TRUE]
       \/ cmd.op = "INACTIVATE" /\ blocks' = [blocks EXCEPT ![cmd.block].active = FALSE]
       \/ /\ cmd.op = "CLEAR_BLOCK"
          /\ blocks' = [blocks EXCEPT ![cmd.block] = [cmds |-> <<>>, active |-> FALSE]]
    /\ Leaves(line, own)
    /\ UNCHANGED <<modeVars, modeList, table, total, stray>>

\* Cmd_TDSP_SET_TASK_LIST: the list is no longer that of a mode.
SetTaskList(cmd, own) ==
    /\ cmd.op = "SET_TASK_LIST"
    /\ IF Selectable(cmd.block) THEN taskList' = cmd.block /\ taskMode' = NotDefined
                                ELSE UNCHANGED <<taskList, taskMode>>
    /\ Leaves(line, own)
    /\ UNCHANGED <<stat, previous, current, tables, total, stray>>

Tick ==
    /\ total < MaxCycle
    /\ total' = total + 1
    /\ UNCHANGED <<modeVars, tables, line, lost, stray>>

-----------------------------------------------------------------------------
Execute(cmd, own) ==
    /\ Runs(cmd, own)
    /\ \/ Start(cmd, own) \/ RefuseStart(cmd, own) \/ Finish(cmd, own) \/ RefuseFinish(cmd, own)
       \/ Nop(cmd, own) \/ Deploy(cmd, own) \/ ClearAll(cmd, own) \/ ClearAt(cmd, own)
       \/ SetModeList(cmd, own) \/ SetTransitionTable(cmd, own) \/ SetBlock(cmd, own)
       \/ SetTaskList(cmd, own)

\* TLCD_bc_dispatch_, and a command received for immediate execution
RunLine == line # <<>> /\ Execute(line[1].cmd, TRUE)
RunGround == \E cmd \in Ground : Execute(cmd, FALSE)

Next == Tick \/ RunLine \/ RunGround

Spec == Init /\ [][Next]_vars

\* The interrupt fires, and the task list calls the dispatcher of the line for ever: a head
\* that stays due is run.  (This is WF_vars(RunLine): every command that is due can be run.)
LineServed == []<>~Due \/ []<><<RunLine>>_vars
FairSpec == Spec /\ WF_vars(Tick) /\ LineServed

-----------------------------------------------------------------------------
TypeOK ==
    /\ stat \in {"FINISHED", "IN_PROGRESS"}
    /\ previous \in Modes /\ current \in Modes
    /\ modeList \in [Modes -> Entries] /\ table \in [Modes -> [Modes -> Entries]]
    /\ \A b \in Blocks : blocks[b].active \in BOOLEAN
                         /\ blocks[b].cmds \in Seq([ti : Times, cmd : CommandSpace])
    /\ line \in Seq([ti : Times, cmd : CommandSpace])
    /\ taskList \in Blocks /\ total \in 0..MaxCycle
    /\ lost \in BOOLEAN /\ stray \in BOOLEAN /\ taskMode \in Modes \cup {NotDefined}

\* A transition in progress has exactly one end in the line, and when none is in progress
\* there is none: no end of an old transition is left to cut the next one short.  Unless
\* somebody removed it (lost) or the ground meddled with ends itself (stray).
TransitionHasItsEnd ==
    LET ends == {i \in DOMAIN line : line[i].cmd.op = "FINISH"}
    IN  ~stray => /\ stat = "FINISHED" => ends = {}
                  /\ stat = "IN_PROGRESS" /\ ~lost => \E i \in DOMAIN line : ends = {i}

\* The task list changes as the modes do: during a transition it is still that of the mode
\* that is left, afterwards that of the mode that is reached, and no mode is passed over
\* (mode_manager.c:217 refuses to start from within a transition).
TaskListFollowsMode ==
    taskMode # NotDefined => taskMode = IF stat = "IN_PROGRESS" THEN previous ELSE current

\* A transition whose end is in the line does end, however late the line is served
\* (timeline_command_dispatcher.c:118), unless its end is removed or
\* the ground meddles with ends itself.
TransitionEnds ==
    \A t \in 0..MaxCycle :
        stat = "IN_PROGRESS" /\ (\E i \in DOMAIN line : line[i].ti = t /\ line[i].cmd.op = "FINISH")
            ~> stat = "FINISHED" \/ lost \/ stray
=============================================================================
