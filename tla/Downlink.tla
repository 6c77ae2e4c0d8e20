------------------------------ MODULE Downlink ------------------------------
(***************************************************************************)
(* From the list of telemetry packets to the frames that leave for the     *)
(* ground: tcp_to_m_pdu.c (T2M) cuts the packets of a packet list into the *)
(* data fields of frames of fixed size, and the application of the ground  *)
(* station driver numbers the frames and sends them.  A packet may begin   *)
(* in one frame and end in the next; a frame says where its first packet   *)
(* begins, which is all that a receiver has to find its way again after a  *)
(* lost frame.  A frame that is not full when the packets end is completed *)
(* by a fill packet, after a while.                                        *)
(*                                                                         *)
(* The loop of T2M_form_m_pdu is several steps: the timer interrupt may    *)
(* come between any two of them.                                           *)
(***************************************************************************)
EXTENDS PacketList

CONSTANTS
    DataSize,       \* M_PDU_DATA_SIZE
    HeaderLen,      \* SP_PRM_HDR_LEN
    Lengths,        \* the lengths of telemetry packets
    FifoSize,       \* CCSDS_FIFO_SIZE: the frames of one execution
    CounterMod,     \* AOSTF_COUNTER_MAX
    FlushIntervals,      \* the flush intervals that the ground sets
    DefaultInterval,    \* the one of T2M_initialize
    TelemetryMax    \* bound: the number of telemetry packets that are made

\* Time matters up to the longest interval only.
ElapsedMax == CHOOSE n \in FlushIntervals \cup {DefaultInterval} : \A m \in FlushIntervals \cup {DefaultInterval} : m <= n

ASSUME DownlinkAssumption ==
    /\ HeaderLen \in Nat \ {0} /\ DataSize \in Nat /\ DataSize > HeaderLen
    /\ Lengths \subseteq Nat /\ \A len \in Lengths : HeaderLen < len /\ len <= DataSize
    /\ FifoSize \in Nat \ {0} /\ CounterMod \in Nat \ {0}
    /\ FlushIntervals \subseteq Nat /\ DefaultInterval \in Nat
    /\ TelemetryMax \in Nat
    /\ "telemetry" \in Uses => [number : 0..TelemetryMax, len : 1..DataSize] \subseteq Packets["telemetry"]

VARIABLES
    t2m,        \* TcpToMPdu: [rp, wp, fhpValid, interval], and for last_updated the time since then
    mPdu,       \* the frame in the making: [fhp, data]
    counter,    \* aostf_counter
    frames,     \* the frames that the running execution may still make; 0: it is not running
    sent,       \* history: the frames sent
    made,       \* history: how many telemetry packets were made
    disturbed   \* history: the application was initialized again, or the clock was set

downVars == <<t2m, mPdu, counter, frames, sent, made, disturbed>>

\* Byte number at of a packet.  What is in the bytes is the number of the packet; the first ones say
\* how long it is.  A fill packet has the number 0.
Byte(p, at) == [number |-> p.number, at |-> at, len |-> p.len]
Fill(len) == [number |-> 0, len |-> len]
TelemetryPackets == [number : 0..TelemetryMax, len : 1..DataSize]
NoHeader == DataSize    \* M_PDU_PTR_NO_HDR

Initialized == [rp |-> 0, wp |-> 0, fhpValid |-> FALSE, interval |-> DefaultInterval, elapsed |-> 0]

DownlinkStart ==
    /\ t2m = Initialized
    /\ mPdu = [fhp |-> 0, data |-> [i \in 1..DataSize |-> Byte(Fill(1), 0)]]
    /\ counter = 0 /\ frames = 0
    /\ sent = <<>> /\ made = 0 /\ disturbed = FALSE

HeadPacket == packet[activeHead]
IsEmpty == activeNodes = 0
-----------------------------------------------------------------------------
\* PH_add_tlm_to_pl: a packet for which there is no room is refused.
MakeTelemetry(len) ==
    /\ frames = 0 /\ made < TelemetryMax
    /\ Push([number |-> made + 1, len |-> len])
    /\ made' = made + 1
    /\ UNCHANGED <<t2m, mPdu, counter, frames, sent, disturbed>>

\* BUG (mutant): last_updated is set whenever the application is executed.
StartExecutionTouches ==
    /\ frames = 0
    /\ frames' = FifoSize
    /\ t2m' = [t2m EXCEPT !.elapsed = 0]
    /\ UNCHANGED <<vars, mPdu, counter, sent, made, disturbed>>

\* CSRV_GS_rt_tlm_packet_handler_app_: up to FifoSize frames.
StartExecution ==
    /\ frames = 0
    /\ frames' = FifoSize
    /\ UNCHANGED <<vars, t2m, mPdu, counter, sent, made, disturbed>>

\* The packets end: nothing to send, or a frame that is left as it is until the interval is over.
StopsHere == IsEmpty /\ t2m.wp # DataSize /\ (t2m.wp = 0 \/ t2m.elapsed < t2m.interval)

StopForming ==
    /\ frames > 0 /\ StopsHere
    /\ frames' = 0
    /\ UNCHANGED <<vars, t2m, mPdu, counter, sent, made, disturbed>>

\* TSP_setup_fill_packet
FillLen(left) == IF left > HeaderLen THEN left ELSE HeaderLen + 1

PushFill ==
    /\ frames > 0 /\ IsEmpty /\ t2m.wp \notin {0, DataSize} /\ t2m.elapsed >= t2m.interval
    /\ Push(Fill(FillLen(DataSize - t2m.wp)))
    /\ UNCHANGED downVars

\* What one iteration of the loop writes.
WriteLen ==
    LET left == HeadPacket.len - t2m.rp
        room == DataSize - t2m.wp
    IN  IF left > room THEN room ELSE left

\* BUG (mutant): the pointer is set by the last packet of a frame that begins in it.
BeginsHereLast == t2m.rp = 0

\* The first packet that begins in the frame begins here.
BeginsHere == ~t2m.fhpValid /\ t2m.rp = 0

WritePacket ==
    LET len == WriteLen
        ends == t2m.rp + len = HeadPacket.len
    IN  /\ frames > 0 /\ ~IsEmpty /\ t2m.wp # DataSize
        /\ mPdu' = [fhp |-> IF BeginsHere THEN t2m.wp ELSE mPdu.fhp,
                    data |-> [i \in 1..DataSize |->
                                IF i \in (t2m.wp + 1)..(t2m.wp + len)
                                THEN Byte(HeadPacket, t2m.rp + (i - t2m.wp - 1)) ELSE mPdu.data[i]]]
        /\ t2m' = [t2m EXCEPT !.fhpValid = @ \/ BeginsHere, !.wp = @ + len, !.elapsed = 0,
                              !.rp = IF ends THEN 0 ELSE @ + len]
        /\ IF ends THEN DropExecuted ELSE UNCHANGED vars
        /\ UNCHANGED <<counter, frames, sent, made, disturbed>>

\* In a frame in which no packet begins the pointer says so.
FirstHeader == IF t2m.fhpValid THEN mPdu.fhp ELSE NoHeader

\* A full frame: numbered (AOSTF_calc_next_counter) and sent (GS_send_aostf).
SendFrame ==
    /\ frames > 0 /\ t2m.wp = DataSize
    /\ mPdu' = [mPdu EXCEPT !.fhp = FirstHeader]
    /\ sent' = Append(sent, [counter |-> counter, fhp |-> FirstHeader, data |-> mPdu.data])
    /\ t2m' = [t2m EXCEPT !.wp = 0, !.fhpValid = FALSE]
    /\ counter' = (counter + 1) % CounterMod
    /\ frames' = frames - 1
    /\ UNCHANGED <<vars, made, disturbed>>

\* The timer interrupt, and the clock set by a command.
Interrupt ==
    /\ t2m.elapsed < ElapsedMax
    /\ t2m' = [t2m EXCEPT !.elapsed = @ + 1]
    /\ UNCHANGED <<vars, mPdu, counter, frames, sent, made, disturbed>>

SetTime(elapsed) ==
    /\ frames = 0 /\ ~disturbed
    /\ t2m' = [t2m EXCEPT !.elapsed = elapsed]
    /\ disturbed' = TRUE
    /\ UNCHANGED <<vars, mPdu, counter, frames, sent, made>>

\* Cmd_CSRV_GS_SET_RT_FLUSH_INTERVAL
SetFlushInterval(interval) ==
    /\ frames = 0
    /\ t2m' = [t2m EXCEPT !.interval = interval]
    /\ UNCHANGED <<vars, mPdu, counter, frames, sent, made, disturbed>>

\* T2M_initialize by a command, in the middle of a frame and of a packet.
Reinitialize ==
    /\ frames = 0 /\ ~disturbed
    /\ t2m' = Initialized
    /\ disturbed' = TRUE
    /\ UNCHANGED <<vars, mPdu, counter, frames, sent, made>>

FormStep == StopForming \/ PushFill \/ WritePacket \/ SendFrame

DownlinkSteps ==
    \/ \E len \in Lengths : MakeTelemetry(len)
    \/ StartExecution \/ FormStep \/ Interrupt \/ Reinitialize
    \/ \E elapsed \in 0..ElapsedMax : SetTime(elapsed)
    \/ \E interval \in FlushIntervals : SetFlushInterval(interval)

AsTelemetry(A) == use = "telemetry" /\ A
DownlinkNext == AsTelemetry(DownlinkSteps)

\* The main loop executes the application and the application goes on; the timer does not stop.
DownlinkFairness ==
    /\ WF_<<vars, downVars>>(AsTelemetry(StartExecution \/ FormStep))
    /\ WF_<<vars, downVars>>(AsTelemetry(Interrupt))

DownlinkSpec == Init /\ DownlinkStart /\ [][DownlinkNext]_<<vars, downVars>> /\ DownlinkFairness
-----------------------------------------------------------------------------
\* A receiver of frames (on the ground).  It knows the counters, the pointers and the lengths in the
\* first bytes of packets; open is the packet it is in the middle of, while it is in step.
TakeByte(r, byte) ==
    LET open == Append(r.open, byte)
    IN  IF ~r.inStep THEN r
        ELSE IF Len(open) = Head(open).len
             THEN [r EXCEPT !.open = <<>>, !.got = Append(@, open)]
             ELSE [r EXCEPT !.open = open]

\* At the pointer of a frame the receiver is in step again; what was open does not end here.
Resynchronized(r) == [r EXCEPT !.inStep = TRUE, !.open = <<>>]

\* The bytes of a frame behind the first ones up to a place, one after the other.
TakeBytes(r, data, first, last) ==
    LET after[k \in 0..(last - first)] ==
          IF k = 0 THEN r ELSE TakeByte(after[k - 1], data[first + k])
    IN  after[last - first]

\* A frame that does not follow the last one is not the continuation of its packet.
Followed(r, frame) ==
    [r EXCEPT !.inStep = @ /\ frame.counter = (r.counter + 1) % CounterMod, !.counter = frame.counter]

TakeFrame(r, frame) ==
    LET before == TakeBytes(Followed(r, frame), frame.data, 0, frame.fhp)
    IN  IF frame.fhp = NoHeader THEN before
        ELSE TakeBytes(Resynchronized(before), frame.data, frame.fhp, DataSize)

NothingReceived == [inStep |-> FALSE, open |-> <<>>, got |-> <<>>, counter |-> 0]

\* What it gets of the frames that arrive.
Received(arrived) ==
    LET after[i \in 0..Len(sent)] ==
          IF i = 0 THEN NothingReceived
          ELSE IF i \in arrived THEN TakeFrame(after[i - 1], sent[i]) ELSE after[i - 1]
    IN  after[Len(sent)].got

\* Losses that the counter of the frames shows.
Losses == {arrived \in SUBSET (1..Len(sent)) :
            \A i, j \in arrived : j - i > CounterMod => \E k \in arrived : i < k /\ k < j}

BytesOf(arrived) == {sent[i].data[k] : i \in arrived, k \in 1..DataSize}

\* The first bytes of the telemetry packets of which every byte is in the frames that arrive.
Complete(arrived) ==
    {b \in BytesOf(arrived) :
        b.number > 0 /\ b.at = 0 /\ \A at \in 0..(b.len - 1) : [b EXCEPT !.at = at] \in BytesOf(arrived)}

Drained == IsEmpty /\ t2m.wp = 0

\* Whichever frames are lost on the way, the receiver gets the packets that lie in the other frames
\* entirely, each one once, whole, and in the order they were made: the pointers, lengths and fill
\* packets are right, also after the application was initialized in the middle of a packet.  And
\* nothing is lost on board: when everything was sent all packets are in the frames.
FramesCarryThePackets ==
    /\ \A arrived \in Losses :
        LET got == Received(arrived)
            telemetry == {k \in DOMAIN got : got[k][1].number > 0}
        IN  /\ {got[k][1] : k \in telemetry} = Complete(arrived)
            /\ \A k \in DOMAIN got : got[k] = [at \in 1..got[k][1].len |-> [got[k][1] EXCEPT !.at = at - 1]]
            /\ \A j, k \in telemetry : j < k => got[j][1].number < got[k][1].number
    /\ ~disturbed /\ Drained => {b.number : b \in Complete(1..Len(sent))} = 1..made

\* Everything leaves in the end, also what fills a frame only in part, as long as the application
\* is executed and the clock goes on.
TelemetryLeaves == []<>(use = "telemetry" => Drained)
=============================================================================
