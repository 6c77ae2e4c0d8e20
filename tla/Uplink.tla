------------------------------- MODULE Uplink -------------------------------
(***************************************************************************)
(* The commands from the ground: the receiving side of COP-1 (FARM-1) as   *)
(* the ground station driver of the example computer implements it         *)
(* (gs_validate.c, gs.c), above the packet list PH_gs_cmd_list.            *)
(* Type A frames carry a number and are accepted in order only; what was   *)
(* accepted is reported in the trailer of the telemetry frames (CLCW), and *)
(* the ground repeats what was not.  A number too far away locks the       *)
(* receiver, until a control frame unlocks it.                             *)
(*                                                                         *)
(* The ground station and the two radio channels are external: frames      *)
(* arrive in the order in which they were sent or not at all, reports are  *)
(* late or lost.  The ground keeps a window of Window commands.            *)
(***************************************************************************)
EXTENDS PacketList

CONSTANTS
    NumberMod,         \* GS_RECEIVE_WINDOW: the number of values of type_a_counter
    DefaultWidth,   \* GS_POSITIVE_WINDOW_WIDTH_DEFAULT
    Widths,         \* the positive window widths that Cmd_CSRV_GS_SET_FARM_PW sets
    Window,         \* how many commands the ground sends ahead
    Total,          \* bound: the number of commands the ground has
    InFlight        \* bound: the number of frames on the way

ASSUME UplinkAssumption ==
    /\ NumberMod \in Nat \ {0} /\ Total \in Nat /\ InFlight \in Nat \ {0} /\ Window \in Nat \ {0}
    /\ Widths \cup {DefaultWidth} \subseteq {w \in Nat \ {0} : 2 * w < NumberMod}
    /\ Window <= DefaultWidth

VARIABLES
    farm,       \* gs_validate_info_: [vr, lockout, retransmit, pw]; vr is type_a_counter
    flight,     \* the frames on their way to the satellite
    report,     \* the report on its way to the ground, NULL when there is none
    ground,     \* [acked, hi, need]: the oldest command that is not acknowledged, the first that was
                \* never sent, and the control frame that is needed before commands are sent
    accepted,   \* history: the commands accepted in order, from 0 on
    inOrder,    \* history: no other command was accepted
    upset       \* history: "reset" after Cmd_CSRV_GS_DRIVER_RESET, "narrow" after a smaller width;
                \* bound: one of the two

upVars == <<farm, flight, report, ground, accepted, inOrder, upset>>

Commands == [id : 0..(Total - 1)]
AD(id) == [type |-> "AD", ns |-> id % NumberMod, id |-> id]
Unlock == [type |-> "UNLOCK"]
SetVr(vr) == [type |-> "SET_VR", vr |-> vr]

\* GS_validate_init
Validated == [vr |-> 0, lockout |-> FALSE, retransmit |-> FALSE, pw |-> DefaultWidth]

UplinkStart ==
    /\ farm = Validated
    /\ flight = <<>> /\ report = NULL
    /\ ground = [acked |-> 0, hi |-> 0, need |-> "none"]
    /\ accepted = 0 /\ inOrder = TRUE /\ upset = "no"
-----------------------------------------------------------------------------
\* PH_add_gs_cmd_: a list without room refuses the packet, and the frame counts as received.
Enqueue(p) == IF inactiveHead = NULL THEN UNCHANGED vars ELSE Push(p)

SeqDiff(frame) == (NumberMod + frame.ns - farm.vr) % NumberMod

\* BUG (mutant): what is ahead of the expected number within the window is accepted as well.
IsExpectedInWindow(frame) == SeqDiff(frame) <= farm.pw

IsExpected(frame) == SeqDiff(frame) = 0
IsAhead(frame) == ~IsExpected(frame) /\ SeqDiff(frame) <= farm.pw
IsOld(frame) == ~IsExpected(frame) /\ ~IsAhead(frame) /\ NumberMod - farm.pw <= SeqDiff(frame)
IsOutside(frame) == ~IsExpected(frame) /\ ~IsAhead(frame) /\ ~IsOld(frame)

\* GS_check_ad_cmd_
Accept(frame) ==
    /\ IsExpected(frame)
    /\ farm' = [farm EXCEPT !.retransmit = FALSE, !.vr = (@ + 1) % NumberMod]
    /\ Enqueue([id |-> frame.id])
    /\ accepted' = IF frame.id = accepted THEN accepted + 1 ELSE accepted
    /\ inOrder' = (inOrder /\ frame.id = accepted)

Discard(frame) ==
    /\ ~IsExpected(frame)
    /\ farm' = [farm EXCEPT !.retransmit = @ \/ IsAhead(frame), !.lockout = IsOutside(frame)]
    /\ UNCHANGED <<vars, accepted, inOrder>>

CheckAd(frame) ==
    /\ frame.type = "AD"
    /\ \/ ~farm.lockout /\ (Accept(frame) \/ Discard(frame))
       \/ farm.lockout /\ UNCHANGED <<vars, farm, accepted, inOrder>>

\* BUG (mutant): control frames are refused in a lockout, as commands are.
CheckUnlockRefused(frame) ==
    /\ frame.type = "UNLOCK"
    /\ farm' = IF farm.lockout THEN farm ELSE [farm EXCEPT !.retransmit = FALSE]
    /\ UNCHANGED <<vars, accepted, inOrder>>

\* GS_check_bc_cmd_
CheckUnlock(frame) ==
    /\ frame.type = "UNLOCK"
    /\ farm' = [farm EXCEPT !.lockout = FALSE, !.retransmit = FALSE]
    /\ UNCHANGED <<vars, accepted, inOrder>>

CheckSetVr(frame) ==
    /\ frame.type = "SET_VR"
    /\ farm' = IF farm.lockout THEN farm ELSE [farm EXCEPT !.vr = frame.vr, !.retransmit = FALSE]
    /\ UNCHANGED <<vars, accepted, inOrder>>

\* GS_analyze_rec_data_ of the frame that arrives first.
ReceiveFrame ==
    /\ flight # <<>> /\ flight' = Tail(flight)
    /\ LET frame == Head(flight)
       IN  CheckAd(frame) \/ CheckUnlock(frame) \/ CheckSetVr(frame)
    /\ UNCHANGED <<report, ground, upset>>

\* The dispatcher of ground commands.
Dispatch == DropExecuted /\ UNCHANGED upVars

\* GS_form_clcw, into a telemetry frame that arrives.
FormClcw ==
    /\ report' = [vr |-> farm.vr, lockout |-> farm.lockout]
    /\ UNCHANGED <<vars, farm, flight, ground, accepted, inOrder, upset>>

\* Cmd_CSRV_GS_SET_FARM_PW
SetFarmPw(pw) ==
    /\ upset # "reset"
    /\ farm' = [farm EXCEPT !.pw = pw]
    /\ upset' = IF pw < Window THEN "narrow" ELSE upset
    /\ UNCHANGED <<vars, flight, report, ground, accepted, inOrder>>

\* Cmd_CSRV_GS_DRIVER_RESET
DriverReset ==
    /\ upset = "no"
    /\ farm' = Validated /\ upset' = "reset"
    /\ UNCHANGED <<vars, flight, report, ground, accepted, inOrder>>
-----------------------------------------------------------------------------
\* The channel loses frames.
LoseFrame ==
    /\ flight # <<>> /\ flight' = Tail(flight)
    /\ UNCHANGED <<vars, farm, report, ground, accepted, inOrder, upset>>

\* The ground.
Send(frame) ==
    /\ Len(flight) < InFlight
    /\ flight' = Append(flight, frame)
    /\ UNCHANGED <<vars, farm, report, accepted, inOrder, upset>>

SendNew ==
    /\ ground.need = "none" /\ ground.hi < Total /\ ground.hi < ground.acked + Window
    /\ Send(AD(ground.hi))
    /\ ground' = [ground EXCEPT !.hi = @ + 1]

SendAgain(id) ==
    /\ ground.need = "none"
    /\ Send(AD(id)) /\ UNCHANGED ground

SendControl ==
    /\ \/ ground.need = "unlock" /\ Send(Unlock)
       \/ ground.need = "set_vr" /\ Send(SetVr(ground.acked % NumberMod))
    /\ UNCHANGED ground

\* A report acknowledges the commands before its number, if they are among those that were sent.
Reported == {id \in ground.acked..ground.hi : id % NumberMod = report.vr}

ReceiveReport ==
    /\ report # NULL /\ report' = NULL
    /\ ground' = IF report.lockout THEN [ground EXCEPT !.need = "unlock"]
                 ELSE IF Reported = {} THEN [ground EXCEPT !.need = "set_vr"]
                 ELSE [ground EXCEPT !.need = "none", !.acked = CHOOSE id \in Reported : TRUE]
    /\ UNCHANGED <<vars, farm, flight, accepted, inOrder, upset>>
-----------------------------------------------------------------------------
UplinkSteps ==
    \/ ReceiveFrame \/ Dispatch \/ FormClcw \/ DriverReset
    \/ \E pw \in Widths : SetFarmPw(pw)
    \/ LoseFrame \/ SendNew \/ SendControl \/ ReceiveReport
    \/ \E id \in ground.acked..(ground.hi - 1) : SendAgain(id)

AsCommands(A) == use = "commands" /\ A
UplinkNext == AsCommands(UplinkSteps)

\* The ground goes on: with new commands, the oldest one again, or the control frame it needs.
GroundSends == SendNew \/ (ground.acked < ground.hi /\ SendAgain(ground.acked)) \/ SendControl

\* What the ground repeats arrives.
RepeatedArrives == ReceiveFrame /\ (Head(flight).type = "AD" => Head(flight).id = ground.acked)

\* The satellite receives and sends telemetry, the ground goes on, and the channel does not lose for
\* ever what is repeated.
UplinkFairness ==
    /\ WF_<<vars, upVars>>(AsCommands(ReceiveFrame \/ LoseFrame))
    /\ WF_<<vars, upVars>>(AsCommands(FormClcw))
    /\ WF_<<vars, upVars>>(AsCommands(ReceiveReport))
    /\ SF_<<vars, upVars>>(AsCommands(GroundSends))
    /\ SF_<<vars, upVars>>(AsCommands(RepeatedArrives))

UplinkSpec == Init /\ UplinkStart /\ [][UplinkNext]_<<vars, upVars>> /\ UplinkFairness
-----------------------------------------------------------------------------
\* As long as the driver is not reset, commands are accepted in order, none is left out and none is
\* accepted twice, whatever is lost, repeated or reported late and although the numbers come round
\* again; what is acknowledged was accepted; a repetition is asked for only when something is
\* missing; and the receiver locks itself only if its window was made smaller than that of the ground.
CommandsInOrder ==
    upset # "reset" =>
        /\ inOrder
        /\ ground.acked <= accepted /\ accepted <= ground.hi
        /\ farm.vr = accepted % NumberMod
        /\ farm.retransmit => accepted < ground.hi
        /\ farm.lockout => upset = "narrow"

\* All commands are acknowledged in the end, also after lockouts, while the window is narrow, and
\* after a reset (after which some may have been lost or repeated).
LinkRecovers == <>[](use = "commands" => ground.acked = Total)
=============================================================================
