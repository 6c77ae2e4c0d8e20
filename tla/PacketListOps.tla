--------------------------- MODULE PacketListOps ---------------------------
(***************************************************************************)
(* The packet lists of tlm_cmd/packet_list.c, as sequences.                *)
(*                                                                         *)
(* A packet list holds command packets in the order of its active nodes.   *)
(* A packet is a record [ti |-> execution time, cmd |-> command].  The     *)
(* operators are the list functions that depend on the times: the ordered  *)
(* insertion PL_insert_tl_cmd, the comparison PL_check_tl_cmd, the search   *)
(* of TLCD_drop_tl_cmd_at_ and the retry loop of PL_deploy_block_cmd.       *)
(*                                                                         *)
(* The same functions serve the timelines (times are cycles) and the task  *)
(* list (times are steps of a cycle).                                      *)
(***************************************************************************)
EXTENDS Naturals, Sequences, SequencesExt

PL_ACKS == {"PL_SUCCESS", "PL_LIST_FULL", "PL_TLC_PAST_TIME", "PL_TLC_ALREADY_EXISTS",
            "PL_BC_INACTIVE_BLOCK", "PL_BC_LIST_CLEARED", "PL_BC_TIME_ADJUSTED"}

IsFull(list, capacity) == Len(list) >= capacity

\* Strictly ordered by time: no two packets of the list have the same time.
Ordered(list) == \A i, j \in DOMAIN list : i < j => list[i].ti < list[j].ti

-----------------------------------------------------------------------------
(***************************************************************************)
(* PL_insert_tl_cmd.  The scan starts at the second node and stops at the  *)
(* first node whose time is not less than the planned one.                 *)
(***************************************************************************)
ScanStop(list, planed) == Min({i \in 2..Len(list) : list[i].ti >= planed})

Occupied(list, planed) ==
    /\ list # <<>>
    /\ list[1].ti <= planed
    /\ planed <= list[Len(list)].ti
    /\ \/ list[1].ti = planed
       \/ list[Len(list)].ti = planed
       \/ list[ScanStop(list, planed)].ti = planed

\* BUG (mutant): times that have passed are accepted.
InsertAckAnyTime(list, capacity, planed, now) ==
    CASE IsFull(list, capacity) -> "PL_LIST_FULL"
      [] ~IsFull(list, capacity) /\ Occupied(list, planed) -> "PL_TLC_ALREADY_EXISTS"
      [] OTHER -> "PL_SUCCESS"

InsertAck(list, capacity, planed, now) ==
    CASE now > planed -> "PL_TLC_PAST_TIME"
      [] now <= planed /\ IsFull(list, capacity) -> "PL_LIST_FULL"
      [] now <= planed /\ ~IsFull(list, capacity) /\ Occupied(list, planed)
           -> "PL_TLC_ALREADY_EXISTS"
      [] OTHER -> "PL_SUCCESS"

\* BUG (mutant): the comparison with the head is reversed.
InsertPosReversed(list, planed) ==
    CASE list = <<>> -> 1
      [] list # <<>> /\ list[Len(list)].ti < planed -> 1
      [] OTHER -> Len(list) + 1

InsertPos(list, planed) ==
    CASE list = <<>> -> 1
      [] list # <<>> /\ list[Len(list)].ti < planed -> Len(list) + 1
      [] list # <<>> /\ list[Len(list)].ti >= planed /\ list[1].ti > planed -> 1
      [] OTHER -> ScanStop(list, planed)

\* BUG (mutant): the node found is overwritten.
InsertedOver(list, packet) ==
    LET pos == InsertPos(list, packet.ti)
    IN  IF pos > Len(list) THEN Append(list, packet) ELSE ReplaceAt(list, pos, packet)

Inserted(list, packet) == InsertAt(list, InsertPos(list, packet.ti), packet)

-----------------------------------------------------------------------------
\* BUG (mutant): a time that has passed does not count as reached.
CheckTlExact(list, time) ==
    IF list # <<>> /\ list[1].ti = time THEN "PL_TLC_ON_TIME" ELSE "PL_TLC_NOT_YET"

\* BUG (mutant): the comparison of the times is reversed.
CheckTlReversed(list, time) ==
    CASE list # <<>> /\ list[1].ti = time -> "PL_TLC_ON_TIME"
      [] list # <<>> /\ list[1].ti > time -> "PL_TLC_PAST_TIME"
      [] OTHER -> "PL_TLC_NOT_YET"

\* PL_check_tl_cmd: the head of the list against a time.
CheckTl(list, time) ==
    CASE list # <<>> /\ list[1].ti = time -> "PL_TLC_ON_TIME"
      [] list # <<>> /\ list[1].ti < time -> "PL_TLC_PAST_TIME"
      [] OTHER -> "PL_TLC_NOT_YET"

(***************************************************************************)
(* The search of CCP_register_tlc_asap: along a list that covers the time,  *)
(* every node that holds the time reached so far moves it on by one.       *)
(***************************************************************************)
AsapTi(list, ti, mod) ==
    IF list # <<>> /\ list[1].ti <= ti /\ ti <= list[Len(list)].ti
      THEN FoldLeft(LAMBDA t, packet : IF packet.ti = t THEN (t + 1) % mod ELSE t, ti, list)
      ELSE ti

\* The node TLCD_drop_tl_cmd_at_ finds: the first one with exactly this time.
PlannedAt(list, time) == {i \in DOMAIN list : list[i].ti = time}

DropAt(list, time) ==
    IF PlannedAt(list, time) = {} THEN list
    ELSE RemoveAt(list, Min(PlannedAt(list, time)))

-----------------------------------------------------------------------------
(***************************************************************************)
(* The retry loop of PL_deploy_block_cmd: while the time is taken, one     *)
(* cycle later, at most once for every node of the list and once more.     *)
(* Times are unsigned integers of the cycle_t width (mod).                 *)
(***************************************************************************)
FreeShifts(list, capacity, planed, now, mod) ==
    {k \in 0..Len(list) :
        InsertAck(list, capacity, (planed + k) % mod, now) # "PL_TLC_ALREADY_EXISTS"}

Shift(list, capacity, planed, now, mod) ==
    LET free == FreeShifts(list, capacity, planed, now, mod)
    IN  IF free = {} THEN Len(list) + 1 ELSE Min(free)

\* One command of the block placed: d has the list so far, the delays so far and the result.
CmdPlaced(d, command, capacity, start, mod) ==
    LET planed == (start + d.adj + command.ti) % mod
        moved == Shift(d.list, capacity, planed, start, mod)
        at == [ti |-> (planed + moved) % mod, cmd |-> command.cmd]
        ack == IF moved > Len(d.list) THEN "PL_TLC_ALREADY_EXISTS"
               ELSE InsertAck(d.list, capacity, at.ti, start)
    IN  CASE d.ack # "PL_SUCCESS" -> d
          [] d.ack = "PL_SUCCESS" /\ ack # "PL_SUCCESS" -> [d EXCEPT !.ack = ack]
          [] OTHER -> [d EXCEPT !.list = Inserted(@, at), !.adj = @ + moved]

\* The loop over the commands of the block: what it has done after each of them.
Placing(empty, block, capacity, start, mod) ==
    LET placed[i \in 0..Len(block)] ==
            IF i = 0 THEN empty ELSE CmdPlaced(placed[i - 1], block[i], capacity, start, mod)
    IN  placed

\* PL_deploy_block_cmd as a whole: the list it leaves and what it returns.
Deployed(list, capacity, block, start, mod) ==
    LET cleared == capacity - Len(list) < Len(block)
        empty == [list |-> IF cleared THEN <<>> ELSE list, adj |-> 0, ack |-> "PL_SUCCESS"]
        done == Placing(empty, block, capacity, start, mod)[Len(block)]
    IN  [list |-> done.list,
         ack |-> CASE done.ack # "PL_SUCCESS" -> done.ack
                   [] done.ack = "PL_SUCCESS" /\ cleared -> "PL_BC_LIST_CLEARED"
                   [] done.ack = "PL_SUCCESS" /\ ~cleared /\ done.adj # 0 -> "PL_BC_TIME_ADJUSTED"
                   [] OTHER -> "PL_SUCCESS"]
=============================================================================
