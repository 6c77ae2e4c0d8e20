---------------------------- MODULE PacketQueue ----------------------------
(***************************************************************************)
(* What a packet list promises its users: a bounded queue of packets that  *)
(* is kept in the order of their times when packets are inserted by time.  *)
(* The order, the refusals and the search are those of PacketListOps; the  *)
(* module says nothing of nodes and pointers.                              *)
(***************************************************************************)
EXTENDS PacketListOps

CONSTANTS
    Size,       \* the number of packets a queue can hold, for each use of it
    Packets,    \* the packets of each use; those of a timeline have a time ti
    Clock,      \* the times at which packets are inserted
    ExecMod     \* the number of values of the counter of executed packets

VARIABLES
    queue,      \* the packets, the first to be taken at the front
    executed,   \* how many packets were taken since the queue was emptied
    use         \* a timeline, into which packets are inserted by their times, or another use

queueVars == <<queue, executed, use>>

QueueInit == queue = <<>> /\ executed = 0 /\ use \in DOMAIN Size

QueuePush(packet) ==
    /\ use # "timeline" /\ Len(queue) < Size[use]
    /\ queue' = Append(queue, packet)
    /\ UNCHANGED <<executed, use>>

QueueInsert(packet, now) ==
    /\ use = "timeline" /\ InsertAck(queue, Size[use], packet.ti, now) = "PL_SUCCESS"
    /\ queue' = Inserted(queue, packet)
    /\ UNCHANGED <<executed, use>>

QueueTake ==
    /\ queue # <<>>
    /\ queue' = Tail(queue)
    /\ executed' = (executed + 1) % ExecMod
    /\ UNCHANGED use

QueueDropAt(time) ==
    /\ use = "timeline" /\ PlannedAt(queue, time) # {}
    /\ queue' = DropAt(queue, time)
    /\ UNCHANGED <<executed, use>>

QueueClear == queue' = <<>> /\ executed' = 0 /\ UNCHANGED use

QueueNext ==
    \/ \E packet \in Packets[use] : QueuePush(packet) \/ \E now \in Clock : QueueInsert(packet, now)
    \/ use = "timeline" /\ \E packet \in Packets[use] : QueueDropAt(packet.ti)
    \/ QueueTake \/ QueueClear

QueueSpec == QueueInit /\ [][QueueNext]_queueVars
=============================================================================
