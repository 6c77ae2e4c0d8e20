----------------------------- MODULE PacketList -----------------------------
(***************************************************************************)
(* A packet list as tlm_cmd/packet_list.c builds it: a fixed stock of      *)
(* nodes, each with its own place for a packet, threaded into two singly   *)
(* linked lists.  The active list has a head, a tail and a length; the     *)
(* inactive list is a stack.  Packets are copied into a node and nodes     *)
(* move between the lists, so a wrong link loses nodes for ever.           *)
(*                                                                         *)
(* A list is used either as a timeline (PL_insert_tl_cmd) or as a queue    *)
(* (PL_push_back); both drop their head when it was executed.  Uplink and  *)
(* Downlink are two uses of it as a queue.                                 *)
(***************************************************************************)
EXTENDS Naturals, Sequences, FiniteSets

CONSTANTS
    Size,       \* total_nodes_, for each use of a list
    Packets,    \* the packets of each use; those of a timeline have a time ti
    Clock,      \* the times at which packets are inserted
    ExecMod,    \* the number of values of executed_nodes_ (2^32)
    NULL

Uses == DOMAIN Size

ASSUME ListAssumption ==
    /\ ExecMod \in Nat \ {0} /\ Clock \subseteq Nat
    /\ "timeline" \in Uses /\ DOMAIN Packets = Uses
    /\ \A u \in Uses : Size[u] \in Nat \ {0} /\ NULL \notin 1..Size[u] /\ Packets[u] # {}
    /\ \A packet \in Packets["timeline"] : packet.ti \in Nat

VARIABLES
    next,           \* PL_Node.next
    packet,         \* what PL_Node.packet points to; nothing is ever erased
    activeHead,     \* active_list_head_
    activeTail,     \* active_list_tail_
    inactiveHead,   \* inactive_list_head_
    activeNodes,    \* active_nodes_
    executed,       \* executed_nodes_
    use             \* what the list is used for; it never changes

Nodes == 1..Size[use]
nodes == <<next, packet, activeHead, activeTail, inactiveHead, activeNodes>>
vars == <<nodes, executed, use>>

\* PL_clear_list threads all nodes into the inactive list in the order of the stock.
Stock == [n \in Nodes |-> IF n = Size[use] THEN NULL ELSE n + 1]

Init ==
    /\ use \in Uses
    /\ next = Stock
    /\ packet = [n \in Nodes |-> CHOOSE p \in Packets[use] : TRUE]
    /\ activeHead = NULL /\ activeTail = NULL /\ inactiveHead = 1
    /\ activeNodes = 0 /\ executed = 0

\* The k-th node from a head on.
NodeAt(head, k) ==
    LET at[i \in 1..k] ==
          IF i = 1 THEN head
          ELSE IF at[i - 1] = NULL THEN NULL ELSE next[at[i - 1]]
    IN  at[k]

Time(node) == packet[node].ti
-----------------------------------------------------------------------------
\* PL_get_free_node_ and the copy of the packet.
Store(p) ==
    /\ inactiveHead # NULL
    /\ inactiveHead' = next[inactiveHead]
    /\ packet' = [packet EXCEPT ![inactiveHead] = p]
    /\ activeNodes' = activeNodes + 1
    /\ UNCHANGED <<executed, use>>

PushFront(p) ==
    LET new == inactiveHead
    IN  /\ Store(p)
        /\ next' = [next EXCEPT ![new] = activeHead]
        /\ activeHead' = new
        /\ activeTail' = IF activeTail = NULL THEN new ELSE activeTail

PushBack(p) ==
    LET new == inactiveHead
    IN  /\ Store(p)
        /\ next' = IF activeTail = NULL THEN [next EXCEPT ![new] = NULL]
                   ELSE [next EXCEPT ![new] = NULL, ![activeTail] = new]
        /\ activeHead' = IF activeTail = NULL THEN new ELSE activeHead
        /\ activeTail' = new

InsertAfter(pos, p) ==
    LET new == inactiveHead
    IN  IF pos = activeTail THEN PushBack(p)
        ELSE /\ Store(p)
             /\ next' = [next EXCEPT ![new] = next[pos], ![pos] = new]
             /\ UNCHANGED <<activeHead, activeTail>>

\* The nodes of the scan: the first from the second node on that is not earlier.
NotEarlier(time) == {k \in 2..activeNodes : Time(NodeAt(activeHead, k)) >= time}
First(S) == CHOOSE k \in S : \A j \in S : k <= j

\* BUG (mutant): the packet is inserted after the node found instead of before it.
InsertBetweenLate(p) ==
    LET k == First(NotEarlier(p.ti))
    IN  /\ Time(NodeAt(activeHead, k)) # p.ti
        /\ InsertAfter(NodeAt(activeHead, k), p)

InsertBetween(p) ==
    LET k == First(NotEarlier(p.ti))
    IN  /\ Time(NodeAt(activeHead, k)) # p.ti
        /\ InsertAfter(NodeAt(activeHead, k - 1), p)

\* PL_insert_tl_cmd
InsertTlCmd(p, now) ==
    /\ use = "timeline"
    /\ now <= p.ti
    /\ inactiveHead # NULL
    /\ \/ activeHead = NULL /\ PushFront(p)
       \/ /\ activeHead # NULL
          /\ \/ Time(activeTail) < p.ti /\ PushBack(p)
             \/ Time(activeTail) >= p.ti /\ Time(activeHead) > p.ti /\ PushFront(p)
             \/ Time(activeTail) > p.ti /\ Time(activeHead) < p.ti /\ InsertBetween(p)

\* PH_add_gs_cmd_, PH_add_rt_cmd_ and PH_add_tlm_to_pl
Push(p) == use # "timeline" /\ PushBack(p)
-----------------------------------------------------------------------------
\* PL_drop_head_
DropHead ==
    /\ activeHead # NULL
    /\ activeHead' = next[activeHead]
    /\ activeTail' = IF next[activeHead] = NULL THEN NULL ELSE activeTail
    /\ next' = [next EXCEPT ![activeHead] = inactiveHead]
    /\ inactiveHead' = activeHead
    /\ activeNodes' = activeNodes - 1
    /\ UNCHANGED packet

\* PL_drop_executed
DropExecuted == DropHead /\ executed' = (executed + 1) % ExecMod /\ UNCHANGED use

\* PL_drop_node, given the node before the current one
DropNode(prev, current) ==
    /\ current # NULL /\ activeHead # NULL
    /\ next' = [next EXCEPT ![prev] = next[current], ![current] = inactiveHead]
    /\ activeTail' = IF activeTail = current THEN prev ELSE activeTail
    /\ inactiveHead' = current
    /\ activeNodes' = activeNodes - 1
    /\ UNCHANGED <<activeHead, packet>>

\* TLCD_drop_tl_cmd_at_: the first node with the time, found by following the links.
DropTlCmdAt(time) ==
    LET found == {k \in 1..activeNodes : Time(NodeAt(activeHead, k)) = time}
        k == First(found)
    IN  /\ use = "timeline" /\ found # {}
        /\ \/ k = 1 /\ DropHead
           \/ k > 1 /\ DropNode(NodeAt(activeHead, k - 1), NodeAt(activeHead, k))
        /\ UNCHANGED <<executed, use>>

ClearList ==
    /\ next' = Stock
    /\ activeHead' = NULL /\ activeTail' = NULL /\ inactiveHead' = 1
    /\ activeNodes' = 0 /\ executed' = 0
    /\ UNCHANGED <<packet, use>>

Next ==
    \/ \E p \in Packets[use] : Push(p) \/ \E now \in Clock : InsertTlCmd(p, now)
    \/ use = "timeline" /\ \E p \in Packets[use] : DropTlCmdAt(p.ti)
    \/ DropExecuted \/ ClearList

Spec == Init /\ [][Next]_vars
-----------------------------------------------------------------------------

\* The packet list implements the queue: the packets of the active nodes from the head on.
Queue == INSTANCE PacketQueue WITH
            queue <- [k \in 1..activeNodes |-> packet[NodeAt(activeHead, k)]]

\* Every operation on the nodes does to the packets what the queue says, and nothing else.
ImplementsQueue == Queue!QueueSpec
=============================================================================
