---------------------------- MODULE PacketListMC ----------------------------
(***************************************************************************)
(* Packet lists in all their uses, for TLC: a timeline, a queue on its     *)
(* own, the list of ground commands behind the receiving side of the       *)
(* uplink, and the list of telemetry in front of the frames of the         *)
(* downlink.  A behaviour has one use of a list.                           *)
(***************************************************************************)
EXTENDS Uplink, Downlink

McPackets == [timeline |-> [ti : 0..4, cmd : {"NOP"}], queue |-> {"NOP", "SET"},
              commands |-> Commands, telemetry |-> TelemetryPackets]

McSize == [timeline |-> 4, queue |-> 4, commands |-> 1, telemetry |-> 2]

mcVars == <<vars, downVars, upVars>>

McInit == Init /\ DownlinkStart /\ UplinkStart

McNext ==
    \/ use \in {"timeline", "queue"} /\ Next /\ UNCHANGED <<downVars, upVars>>
    \/ DownlinkNext /\ UNCHANGED upVars
    \/ UplinkNext /\ UNCHANGED downVars

McSpec == McInit /\ [][McNext]_mcVars /\ DownlinkFairness /\ UplinkFairness
=============================================================================
