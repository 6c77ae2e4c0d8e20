-------------------------- MODULE TelemetryManager --------------------------
(***************************************************************************)
(* The telemetry manager (telemetry_manager.c).  The ground registers      *)
(* telemetry by role (how often it is sent); the manager keeps a table of  *)
(* what is registered and writes the commands that generate the telemetry  *)
(* into the blocks of the role, which a master block runs.  The commands   *)
(* of a role are spread over its blocks, the first cells of all blocks     *)
(* before the second ones, and the number of registered commands alone     *)
(* says where the next one goes.                                           *)
(*                                                                         *)
(* Clearing a role and initializing the manager take several executions    *)
(* (DividedCommand), one per block; any other command may come between     *)
(* two of them.  Starting and stopping the telemetry deploys the master    *)
(* block or clears a timeline and is left out: it leaves the manager as    *)
(* it is.                                                                  *)
(***************************************************************************)
EXTENDS DividedCommand, FiniteSets, Functions

CONSTANTS
    Roles,          \* TLM_MGR_BC_ROLE
    UserRoles,      \* the roles that Cmd_TLM_MGR_CLEAR_USER_TLM clears, in order
    BlockRoles,     \* the role of each block, TLM_MGR_BC_ROLE_AT_BC_n
    CellsPerBlock,  \* TLM_MGR_MAX_CMD_NUM_PER_BC
    Commands,       \* [cmd_type, apid, tlm_id, dr_partition] as far as the type has them
    Unformable,     \* the commands that no command packet is formed for
    Unregistered,   \* a zeroed TLM_MGR_CmdElem
    NopCmd,         \* Cmd_CODE_NOP
    Leftover        \* what the blocks hold before they are initialized

BlockNumbers == DOMAIN BlockRoles
CellNumbers == 0..(CellsPerBlock - 1)

ASSUME ManagerAssumption ==
    /\ BlockRoles \in Seq(Roles) /\ Roles \subseteq ToSet(BlockRoles) /\ UserRoles \in Seq(Roles)
    /\ CellsPerBlock \in Nat \ {0}
    /\ Unregistered \notin Commands /\ NopCmd \notin Commands /\ Unformable \subseteq Commands
    /\ "INIT" \notin Roles /\ NoCode \notin Roles \cup {"INIT"}

\* A clearing command is named by the role that it clears.
Codes == Roles \cup {"INIT"}

VARIABLE tm     \* telemetry_manager_, the blocks and the divided commands

Cell(cmd, ti) == [cmd |-> cmd, ti |-> ti]
EmptyTable == [b \in BlockNumbers |-> [i \in CellNumbers |-> Unregistered]]
NothingAsked == [c \in Commands |-> 0]

Boot ==
    [dcu |-> [log |-> ClearedLog, rtc |-> <<>>],
     inited |-> FALSE,                          \* is_inited
     known |-> FALSE,                           \* cmd_table_idxes are filled
     num |-> [r \in Roles |-> 0],               \* registered_cmd_num
     elem |-> EmptyTable,                       \* cmd_table
     cells |-> [b \in BlockNumbers |-> [i \in CellNumbers |-> Cell(Leftover, i)]],
     \* history: what was registered and not deleted or cleared; the roles that are being
     \* cleared; those whose commands changed since the clearing began; the divided
     \* commands whose next execution was thrown away
     asked |-> [r \in Roles |-> NothingAsked],
     partly |-> {},
     disturbed |-> {},
     cut |-> {}]

\* TLM_MGR_RegisterInfo.cmd_table_idxes: the blocks of a role, in ascending order.
BlocksOf(r) ==
    LET own == {b \in BlockNumbers : BlockRoles[b] = r}
    IN  [k \in 1..Cardinality(own) |-> CHOOSE b \in own : Cardinality({a \in own : a < b}) = k - 1]
Size(s, r) == IF s.known THEN Len(BlocksOf(r)) ELSE 0

\* The k-th place of a role, as TLM_MGR_get_next_register_cmd_pos_ and
\* TLM_MGR_get_last_registered_cmd_pos_ compute it and TLM_MGR_find_registered_cmd_pos_
\* enumerates it.
Slot(r, k) ==
    LET n == Len(BlocksOf(r)) IN [block |-> BlocksOf(r)[(k % n) + 1], cell |-> k \div n]
Capacity(s, r) == Size(s, r) * CellsPerBlock
ElemAt(s, slot) == s.elem[slot.block][slot.cell]
CellAt(s, slot) == s.cells[slot.block][slot.cell]

Disturbed(s, r) == IF r \in s.partly THEN s.disturbed \cup {r} ELSE s.disturbed
-----------------------------------------------------------------------------
(***************************************************************************)
(* Registering and deleting.                                               *)
(***************************************************************************)
CanAdd(s, r, c) == s.inited /\ s.num[r] < Capacity(s, r) /\ c \notin Unformable

\* TLM_MGR_register_
Added(s, r, c) ==
    LET slot == Slot(r, s.num[r])
    IN  [s EXCEPT !.cells[slot.block][slot.cell] = Cell(c, slot.cell),
                  !.elem[slot.block][slot.cell] = c,
                  !.num[r] = @ + 1,
                  !.asked[r][c] = @ + 1,
                  !.disturbed = Disturbed(s, r)]

\* BUG (mutant): TLM_MGR_check_same_cmd_ compares the type only, which all commands share.
FoundOfType(s, r, c) == {k \in 0..(s.num[r] - 1) : ElemAt(s, Slot(r, k)) # Unregistered}

\* TLM_MGR_find_registered_cmd_pos_: the places that hold a command, among as many as there
\* are registered commands.
Found(s, r, c) == {k \in 0..(s.num[r] - 1) : ElemAt(s, Slot(r, k)) = c}
CanRemove(s, r, c) == s.inited /\ Found(s, r, c) # {}

\* The last command overwrites the one to delete.  It keeps its time indicator.
Moved(s, hole, last) ==
    [s EXCEPT !.elem[hole.block][hole.cell] = ElemAt(s, last),
              !.cells[hole.block][hole.cell] = CellAt(s, last)]

\* TLM_MGR_delete_
Removed(s, r, c) ==
    LET hole == Slot(r, CHOOSE k \in Found(s, r, c) : \A i \in Found(s, r, c) : k <= i)
        last == Slot(r, s.num[r] - 1)
    IN  [Moved(s, hole, last) EXCEPT
            !.cells[last.block][last.cell] = Cell(NopCmd, last.cell),
            !.elem[last.block][last.cell] = Unregistered,
            !.num[r] = @ - 1,
            !.asked[r][c] = IF @ > 0 THEN @ - 1 ELSE 0,
            !.disturbed = Disturbed(s, r)]
-----------------------------------------------------------------------------
(***************************************************************************)
(* The divided commands: one execution each.                               *)
(***************************************************************************)
\* TLM_MGR_clear_bc_to_nop_
BlockToNop(s, b) == [s EXCEPT !.cells[b] = [i \in CellNumbers |-> Cell(NopCmd, i)]]

\* DCU_register_next; the code is no longer one whose next execution was thrown away.
Next_(s, code) ==
    LET dcu == NextRegistered(s.dcu, code)
    IN  [s EXCEPT !.dcu = dcu, !.cut = IF Len(dcu.rtc) > Len(s.dcu.rtc) THEN @ \ {code} ELSE @]

\* One block of a role is cleared; counter says which.
RoleBlockCleared(s, r, counter) ==
    LET b == BlocksOf(r)[counter + 1]
        t == [BlockToNop(s, b) EXCEPT
                 !.elem[b] = EmptyTable[b],
                 !.partly = @ \cup {r},
                 !.disturbed = IF counter = 0 THEN @ \ {r} ELSE @]
    IN  Next_(t, r)

\* All blocks are cleared.
RoleCleared(s, r) ==
    LET t == [s EXCEPT !.num[r] = 0, !.dcu = Finished(@, r)]
    IN  IF r \in s.disturbed THEN t
        ELSE [t EXCEPT !.asked[r] = NothingAsked, !.partly = @ \ {r}]

\* BUG (mutant): the last block is left out.
AllClearedEarly(s, r, counter) == counter + 1 >= Size(s, r)

AllCleared(s, r, counter) == counter = Size(s, r)

\* TLM_MGR_clear_cmds_based_on_role_
ClearExecuted(s, r) ==
    LET in == [s EXCEPT !.dcu = CheckedIn(@, r)]
        counter == in.dcu.log[1].counter
    IN  CASE ~MayExecute(in.dcu) -> in
          [] MayExecute(in.dcu) /\ AllCleared(s, r, counter) -> RoleCleared(in, r)
          [] MayExecute(in.dcu) /\ ~AllCleared(s, r, counter) -> RoleBlockCleared(in, r, counter)

\* TLM_MGR_clear_info_
InfoCleared(s) ==
    [s EXCEPT !.inited = FALSE, !.known = TRUE, !.num = [r \in Roles |-> 0], !.elem = EmptyTable]

\* The first execution clears the manager, the second one loads the master and the deploy
\* block, which are left out, and each further one clears a block.
InitPart(s, counter) ==
    IF counter = 0 THEN InfoCleared(s)
    ELSE IF counter = 1 THEN s
    ELSE BlockToNop(s, counter - 1)

\* A counter beyond the last part is an error in the code; ManagerTypeOK shows that there is none.
InitLast(counter) == counter = Len(BlockRoles) + 1

InitDone(s) ==
    [s EXCEPT !.dcu = Finished(@, "INIT"), !.inited = TRUE,
              !.asked = [r \in Roles |-> NothingAsked],
              !.partly = {r \in Roles : InProgress(s.dcu, r)}, !.disturbed = {}]

\* Cmd_TLM_MGR_INIT
InitExecuted(s) ==
    LET in == [s EXCEPT !.dcu = CheckedIn(@, "INIT")]
        counter == in.dcu.log[1].counter
        t == InitPart(in, counter)
    IN  CASE ~MayExecute(in.dcu) -> in
          [] MayExecute(in.dcu) /\ InitLast(counter) -> InitDone(t)
          [] MayExecute(in.dcu) /\ ~InitLast(counter) -> Next_(t, "INIT")

Executed(s, code) == IF code = "INIT" THEN InitExecuted(s) ELSE ClearExecuted(s, code)
-----------------------------------------------------------------------------
(***************************************************************************)
(* The actions: the dispatcher of the real time commands, and the commands *)
(* of the ground.                                                          *)
(***************************************************************************)
\* RTCD executes the first command of its list, which stays there until it is done.
Dispatch ==
    /\ tm.dcu.rtc # <<>>
    /\ tm' = [Executed(tm, Head(tm.dcu.rtc)) EXCEPT !.dcu.rtc = Tail(@)]

\* Cmd_TLM_MGR_INIT, Cmd_TLM_MGR_CLEAR_HK_TLM, .._HIGH_FREQ_TLM, .._LOW_FREQ_TLM
Execute(code) == tm' = Executed(tm, code)

\* Cmd_TLM_MGR_CLEAR_USER_TLM executes one part of the clearing of each role in turn.
UserExecuted(s) ==
    LET executed[n \in 0..Len(UserRoles)] ==
            IF n = 0 THEN s ELSE Executed(executed[n - 1], UserRoles[n])
    IN  executed
ClearUser == tm' = UserExecuted(tm)[Len(UserRoles)]

\* Cmd_TLM_MGR_REGISTER_.._TLM
RegisterTlm(r, c) == CanAdd(tm, r, c) /\ tm' = Added(tm, r, c)
RegisterRefused(r, c) == ~CanAdd(tm, r, c) /\ UNCHANGED tm

\* Cmd_TLM_MGR_DELETE_.._TLM
DeleteTlm(r, c) == CanRemove(tm, r, c) /\ tm' = Removed(tm, r, c)
DeleteRefused(r, c) == ~CanRemove(tm, r, c) /\ UNCHANGED tm

\* Cmd_DCU_ABORT_CMD
Abort(code) == tm' = [tm EXCEPT !.dcu = Aborted(@, code)]

\* Cmd_DCU_DOWN_ABORT_FLAG
DownAbortFlag(code) == tm' = [tm EXCEPT !.dcu = AbortFlagDown(@, code)]

\* Cmd_DCU_CLEAR_LOG, and DCU_init_
ClearLog == tm' = [tm EXCEPT !.dcu.log = ClearedLog]

\* Cmd_RTCD_CLEAR_ALL_REALTIME throws the list of real time commands away.
ClearRealtime == tm' = [tm EXCEPT !.dcu.rtc = <<>>, !.cut = @ \cup ToSet(tm.dcu.rtc)]

\* TLM_MGR_init_by_am_
InitializeApp == tm' = [tm EXCEPT !.inited = FALSE]

Command ==
    \/ \E code \in Codes : Execute(code) \/ Abort(code) \/ DownAbortFlag(code)
    \/ \E r \in Roles, c \in Commands :
          RegisterTlm(r, c) \/ RegisterRefused(r, c) \/ DeleteTlm(r, c) \/ DeleteRefused(r, c)
    \/ ClearUser \/ ClearLog \/ ClearRealtime \/ InitializeApp

ManagerInit == tm = Boot
ManagerNext == Dispatch \/ Command
ManagerSpec == ManagerInit /\ [][ManagerNext]_tm
-----------------------------------------------------------------------------
(***************************************************************************)
(* Properties.                                                             *)
(***************************************************************************)
\* The type of the state.  A command in progress has not gone beyond its last part: the
\* counter is an index into cmd_table_idxes without a check of its own.
ManagerTypeOK ==
    /\ tm.inited \in BOOLEAN /\ tm.known \in BOOLEAN
    /\ tm.num \in [Roles -> 0..(Len(BlockRoles) * CellsPerBlock)]
    /\ tm.elem \in [BlockNumbers -> [CellNumbers -> Commands \cup {Unregistered}]]
    /\ tm.cells \in
          [BlockNumbers -> [CellNumbers ->
              [cmd : Commands \cup {NopCmd, Leftover}, ti : CellNumbers]]]
    /\ tm.dcu.rtc \in Seq(Codes) /\ Len(tm.dcu.rtc) <= RtcMax
    /\ Len(tm.dcu.log) = LogMax
    /\ \A e \in ToSet(tm.dcu.log) :
          /\ e.code \in Codes \cup {NoCode} /\ e.status \in Statuses
          /\ e.code \in Roles => e.counter <= Len(BlocksOf(e.code))
          /\ e.status = "PROGRESS" /\ e.code \in Roles => e.counter < Len(BlocksOf(e.code))
          /\ e.code = "INIT" => e.counter <= Len(BlockRoles) + 1

\* The table says what the blocks execute, from the end of the initialization on: every
\* write goes to the table and to a block (cmd_table, "現在 BC に登録されたコマンド").  The free
\* cells hold a NOP, at their own time unless the role was changed in the middle of a clearing.
TableMatchesBlocks ==
    tm.inited => \A b \in BlockNumbers, i \in CellNumbers :
        IF tm.elem[b][i] # Unregistered THEN tm.cells[b][i].cmd = tm.elem[b][i]
        ELSE /\ tm.cells[b][i].cmd = NopCmd
             /\ BlockRoles[b] \in tm.partly \/ tm.cells[b][i].ti = i

\* The commands of a role are packed from the front without gaps (TLM_MGR_RegisterInfo:
\* "コマンドは隙間なく前から詰め込まれている，という想定") while it is not being cleared and was
\* not changed in the middle of a clearing: the number of commands is where the next one goes.
CommandsArePacked ==
    tm.inited => \A r \in Roles \ tm.partly : \A k \in 0..(Capacity(tm, r) - 1) :
        ElemAt(tm, Slot(r, k)) # Unregistered <=> k < tm.num[r]

Sent(r, c) == Cardinality({k \in 0..(Capacity(tm, r) - 1) : CellAt(tm, Slot(r, k)).cmd = c})

\* The table, the blocks and the numbers of commands describe one and the same plan.
PlanIsSound == ManagerTypeOK /\ TableMatchesBlocks /\ CommandsArePacked

\* The blocks of a role execute exactly the commands that were registered and not deleted
\* or cleared since, each as often as it was registered, unless the role is being cleared or
\* was changed in the middle of a clearing.
RegisteredIsSent ==
    tm.inited => \A r \in Roles \ tm.partly : \A c \in Commands :
        Sent(r, c) = tm.asked[r][c]

\* A divided command ends: it finishes, fails or is aborted.
DividedCommandsEnd ==
    \A code \in Codes :
        (InProgress(tm.dcu, code) /\ code \notin tm.cut)
            ~> (~InProgress(tm.dcu, code) \/ code \in tm.cut)
=============================================================================
