------------------------- MODULE BlockCommandTable -------------------------
(***************************************************************************)
(* The block commands: the table (block_command_table.c), its execution    *)
(* state (block_command_executor.c) and the loader for blocks made on      *)
(* board (block_command_loader.c).                                         *)
(*                                                                         *)
(* A block has a fixed array of cells and a length.  Commands are written  *)
(* at one position, pos, that the ground moves by commands and that every  *)
(* registration moves on.  Applications on board load blocks through the   *)
(* same position, between any two commands of the ground, and have to      *)
(* leave it where it was.  Rotation executes the cells of a block in turn. *)
(*                                                                         *)
(* BCL_load_bc and Cmd_BCT_FILL_NOP register several commands and are      *)
(* several steps here; nothing else runs in between.                       *)
(***************************************************************************)
EXTENDS Naturals, Sequences

CONSTANTS
    Blocks,         \* 0..BCT_MAX_BLOCKS-1
    FirstBlock,     \* block 0
    MaxCmds,        \* BCT_MAX_CMD_NUM
    Cmds,           \* the commands that are registered
    NOP,            \* Cmd_CODE_NOP
    Loads,          \* the blocks made on board: records [block, cmds]
    FillLength,     \* the length that Cmd_BCT_FILL_NOP fills up to (10)
    MaxInterval,    \* the longest rotation interval that is set
    NoUpload

Cells == 0..(MaxCmds - 1)
Positions == [block : Blocks, cmd : 0..MaxCmds]

ASSUME TableAssumption ==
    /\ MaxCmds \in Nat \ {0} /\ FillLength \in Nat \ {0} /\ MaxInterval \in Nat \ {0}
    /\ FirstBlock \in Blocks /\ NOP \in Cmds
    /\ Loads \subseteq [block : Blocks, cmds : Seq(Cmds)]

VARIABLES
    pos,        \* block_command_table_.pos
    stored,     \* block_command_table_.pos_stored
    cells,      \* BCT_Table.cmds of each block
    length,     \* BCT_Table.length
    active,     \* BCE_Params.is_active
    rotate,     \* BCE_Params.rotate
    pc,         \* idle, or what is being registered: load, fill
    todo,       \* the commands still to register
    undef,      \* a block without commands was rotated: division by zero
    \* history, read by the properties only:
    written,    \* the cells of each block written since it was cleared
    upload      \* the commands the ground registered in a block since it cleared it

vars == <<pos, stored, cells, length, active, rotate, pc, todo, undef, written, upload>>
contents == <<cells, length, written>>
exec == <<active, rotate>>
job == <<pc, todo>>

Rotator(counter, interval, next) == [counter |-> counter, interval |-> interval, next |-> next]

\* BCE_reset_rotator_info
ResetRotator == Rotator(0, 1, 0)

\* BCT_initialize: BCT_clear_block of every block and BCT_clear_pos_; the default blocks
\* are then loaded by BCL_load_bc like any other.
Init ==
    /\ pos = [block |-> FirstBlock, cmd |-> 0] /\ stored = pos
    /\ cells \in [Blocks -> [Cells -> {NOP}]]
    /\ length = [b \in Blocks |-> 0]
    /\ active = [b \in Blocks |-> FALSE]
    /\ rotate = [b \in Blocks |-> ResetRotator]
    /\ pc = "idle" /\ todo = <<>> /\ undef = FALSE
    /\ written = [b \in Blocks |-> {}]
    /\ upload = NoUpload

Idle == pc = "idle" /\ ~undef
Uploading(b) == upload # NoUpload /\ upload.block = b
EndUpload(b) == upload' = IF Uploading(b) THEN NoUpload ELSE upload
Extended(cmd) ==
    IF Uploading(pos.block) THEN [block |-> upload.block, cmds |-> Append(upload.cmds, cmd)] ELSE upload
-----------------------------------------------------------------------------
\* BCE_clear_block
ClearedRotator(b) == ResetRotator

\* BCT_clear_block
Cleared(b) ==
    /\ pos' = [block |-> b, cmd |-> 0]
    /\ active' = [active EXCEPT ![b] = FALSE]
    /\ rotate' = [rotate EXCEPT ![b] = ClearedRotator(b)]

ClearBlock(b) ==
    /\ Idle
    /\ Cleared(b)
    /\ length' = [length EXCEPT ![b] = 0]
    /\ written' = [written EXCEPT ![b] = {}]
    /\ upload' = [block |-> b, cmds |-> <<>>]
    /\ UNCHANGED <<stored, cells, job, undef>>

\* Cmd_BCT_SET_BLOCK_POSITION
SetPosition(b, i) ==
    /\ Idle
    /\ pos' = [block |-> b, cmd |-> i]
    /\ upload' = NoUpload
    /\ UNCHANGED <<stored, contents, exec, job, undef>>

-----------------------------------------------------------------------------
(***************************************************************************)
(* BCT_register_cmd writes at the position and moves it on.                *)
(***************************************************************************)
\* BUG (mutant): a cell may be left out.
MayRegisterBeyond == pos.cmd < MaxCmds /\ pos.cmd <= length[pos.block] + 1

MayRegister == pos.cmd < MaxCmds /\ pos.cmd <= length[pos.block]

Written(cmd) ==
    /\ cells' = [cells EXCEPT ![pos.block][pos.cmd] = cmd]
    /\ pos' = [block |-> pos.block, cmd |-> pos.cmd + 1]
    /\ length' = [length EXCEPT ![pos.block] = IF @ < pos.cmd + 1 THEN pos.cmd + 1 ELSE @]
    /\ written' = [written EXCEPT ![pos.block] = @ \cup {pos.cmd}]

\* PH_add_block_cmd_: a command of the ground for the table
Register(cmd) ==
    /\ Idle /\ MayRegister
    /\ Written(cmd)
    /\ upload' = Extended(cmd)
    /\ UNCHANGED <<stored, exec, job, undef>>

\* BCT_overwrite_cmd: Cmd_BCT_OVERWRITE_CMD and the telemetry manager
Overwrite(b, i, cmd) ==
    /\ Idle /\ i < length[b]
    /\ cells' = [cells EXCEPT ![b][i] = cmd]
    /\ written' = [written EXCEPT ![b] = @ \cup {i}]
    /\ EndUpload(b)
    /\ UNCHANGED <<pos, stored, length, exec, job, undef>>

\* BCT_copy_bct: the destination is cleared first, which empties a block copied to itself.
Copy(dst, src) ==
    /\ Idle /\ ~active[dst]
    /\ Cleared(dst)
    /\ cells' = [cells EXCEPT ![dst] = [i \in Cells |-> IF i < length[src] THEN cells[src][i] ELSE @[i]]]
    /\ length' = [length EXCEPT ![dst] = IF dst = src THEN 0 ELSE length[src]]
    /\ written' = [written EXCEPT ![dst] = IF dst = src THEN {} ELSE {i \in written[src] : i < length[src]}]
    /\ upload' = NoUpload
    /\ UNCHANGED <<stored, job, undef>>

\* BCT_swap_contents with BCE_swap_contents, or BCT_swap_address with BCE_swap_address: to
\* be used together (block_command_table.h:291, 304).
Swap(a, b) ==
    LET other(c) == IF c = a THEN b ELSE IF c = b THEN a ELSE c
    IN  /\ Idle /\ ~active[a] /\ ~active[b]
        /\ cells' = [c \in Blocks |-> cells[other(c)]]
        /\ length' = [c \in Blocks |-> length[other(c)]]
        /\ rotate' = [c \in Blocks |-> rotate[other(c)]]
        /\ written' = [c \in Blocks |-> written[other(c)]]
        /\ upload' = NoUpload
        /\ UNCHANGED <<pos, stored, active, job, undef>>

-----------------------------------------------------------------------------
\* BCE_activate_block: the block of the position, if the position is at its end
Activate ==
    /\ Idle /\ length[pos.block] = pos.cmd
    /\ active' = [active EXCEPT ![pos.block] = TRUE]
    /\ UNCHANGED <<pos, stored, contents, rotate, job, undef, upload>>

\* BCE_activate_block_by_id and BCE_inactivate_block_by_id: unconditionally
SetActive(b, flag) ==
    /\ Idle
    /\ active' = [active EXCEPT ![b] = flag]
    /\ UNCHANGED <<pos, stored, contents, rotate, job, undef, upload>>

-----------------------------------------------------------------------------
(***************************************************************************)
(* Rotation: BCE_rotate_block_cmd_, called once per cycle, executes the    *)
(* next command of the block every interval-th time.                       *)
(***************************************************************************)
RotatorsSet(b, rotator) ==
    /\ rotate' = [rotate EXCEPT ![b] = rotator]
    /\ UNCHANGED <<pos, stored, contents, active, job, upload>>

NextCmd(b) == (rotate[b].next + 1) % length[b]

RotateSkip(b) ==
    /\ Idle /\ active[b] /\ rotate[b].counter + 1 < rotate[b].interval
    /\ RotatorsSet(b, Rotator(rotate[b].counter + 1, rotate[b].interval, rotate[b].next))
    /\ UNCHANGED undef

Rotate(b) ==
    /\ Idle /\ active[b] /\ rotate[b].counter + 1 >= rotate[b].interval /\ length[b] > 0
    /\ RotatorsSet(b, Rotator(0, rotate[b].interval, NextCmd(b)))
    /\ UNCHANGED undef

\* "next_cmd %= 0": what the program does from here on is not defined.
RotateEmpty(b) ==
    /\ Idle /\ active[b] /\ rotate[b].counter + 1 >= rotate[b].interval /\ length[b] = 0
    /\ undef' = TRUE
    /\ UNCHANGED <<pos, stored, contents, exec, job, upload>>

\* Cmd_BCE_SET_ROTATE_INTERVAL and BCE_reset_rotator_info
SetRotateInterval(b, n) ==
    /\ Idle
    /\ RotatorsSet(b, Rotator(rotate[b].counter, n, rotate[b].next))
    /\ UNCHANGED undef

ResetRotatorInfo(b) ==
    /\ Idle
    /\ RotatorsSet(b, ResetRotator)
    /\ UNCHANGED undef

-----------------------------------------------------------------------------
(***************************************************************************)
(* BCL_load_bc: store the position, clear the block, register, activate,   *)
(* restore the position.                                                   *)
(***************************************************************************)
\* BUG (mutant): the position is stored after the block was cleared.
StoredPosLate(b) == [block |-> b, cmd |-> 0]

StoredPos(b) == pos

LoadBegin(load) ==
    /\ Idle
    /\ stored' = StoredPos(load.block)
    /\ Cleared(load.block)
    /\ length' = [length EXCEPT ![load.block] = 0]
    /\ written' = [written EXCEPT ![load.block] = {}]
    /\ EndUpload(load.block)
    /\ pc' = "load" /\ todo' = load.cmds
    /\ UNCHANGED <<cells, undef>>

LoadEnd ==
    /\ pc = "load" /\ todo = <<>>
    /\ active' = IF length[pos.block] = pos.cmd THEN [active EXCEPT ![pos.block] = TRUE] ELSE active
    /\ pos' = stored
    /\ pc' = "idle"
    /\ UNCHANGED <<stored, contents, rotate, todo, undef, upload>>

\* One registration of the load function, or of Cmd_BCT_FILL_NOP, which both ignore
\* whether it is refused.
RegisterNext ==
    /\ pc # "idle" /\ todo # <<>>
    /\ IF MayRegister THEN Written(Head(todo)) ELSE UNCHANGED <<pos, contents>>
    /\ todo' = Tail(todo)
    /\ upload' = IF pc = "fill" /\ MayRegister THEN Extended(Head(todo)) ELSE upload
    /\ UNCHANGED <<stored, exec, pc, undef>>

\* Cmd_BCT_FILL_NOP: as many NOPs as the block of the position lacks
FillBegin(n) ==
    /\ Idle /\ pos.cmd + n = FillLength
    /\ pc' = "fill" /\ todo' = [i \in 1..n |-> NOP]
    /\ UNCHANGED <<pos, stored, contents, exec, undef, upload>>

FillEnd ==
    /\ pc = "fill" /\ todo = <<>>
    /\ pc' = "idle"
    /\ UNCHANGED <<pos, stored, contents, exec, todo, undef, upload>>

-----------------------------------------------------------------------------
Next ==
    \/ \E b \in Blocks :
         \/ ClearBlock(b) \/ RotateSkip(b) \/ Rotate(b) \/ RotateEmpty(b) \/ ResetRotatorInfo(b)
         \/ SetActive(b, TRUE) \/ SetActive(b, FALSE)
         \/ \E i \in Cells : SetPosition(b, i) \/ \E cmd \in Cmds : Overwrite(b, i, cmd)
         \/ \E c \in Blocks : Copy(b, c) \/ Swap(b, c)
         \/ \E n \in 1..MaxInterval : SetRotateInterval(b, n)
    \/ \E cmd \in Cmds : Register(cmd)
    \/ Activate
    \/ \E load \in Loads : LoadBegin(load)
    \/ \E n \in 1..FillLength : FillBegin(n)
    \/ RegisterNext \/ LoadEnd \/ FillEnd

Spec == Init /\ [][Next]_vars

-----------------------------------------------------------------------------
TypeOK ==
    /\ pos \in Positions /\ stored \in Positions
    /\ cells \in [Blocks -> [Cells -> Cmds]]
    /\ length \in [Blocks -> 0..MaxCmds]
    /\ active \in [Blocks -> BOOLEAN]
    /\ rotate \in [Blocks -> [counter : Nat, interval : 1..MaxInterval, next : Cells]]
    /\ pc \in {"idle", "load", "fill"} /\ todo \in Seq(Cmds) /\ undef \in BOOLEAN
    /\ written \in [Blocks -> SUBSET Cells]
    /\ upload \in [block : Blocks, cmds : Seq(Cmds)] \cup {NoUpload}

\* "One cannot register discontinuously, leaving out cells" (block_command_table.c:184): a
\* block holds no command left over from before it was cleared, whatever mixture of
\* registration, positioning, copying, swapping and loading made it.
NoHoles == \A b \in Blocks : \A i \in Cells : i < length[b] => i \in written[b]

\* The rotation never reaches a cell behind the end of the block
\* (block_command_executor.c:249), also when the block was cleared, copied or loaded anew.
RotatorInRange == \A b \in Blocks : rotate[b].next < length[b] \/ rotate[b].next = 0

\* Whatever a deployment or a rotation of a block executes was written into this block since it was
\* cleared (block_command_table.c:184, block_command_executor.c:249).
BlocksAreSound == NoHoles /\ RotatorInRange

\* What the ground uploads into a block arrives whole and in order, and the position is
\* behind it, even if applications load other blocks between two of its commands
\* (BCT_store_pos, block_command_table.h:178).
UploadIsWhole ==
    pc # "load" /\ upload # NoUpload =>
        /\ pos = [block |-> upload.block, cmd |-> Len(upload.cmds)]
        /\ length[upload.block] = Len(upload.cmds)
        /\ \A i \in DOMAIN upload.cmds : cells[upload.block][i - 1] = upload.cmds[i]

=============================================================================
