--------------------------- MODULE StreamReceiver ---------------------------
(***************************************************************************)
(* One stream of a component driver (driver_super.c): CDS_receive reads    *)
(* the bytes that a device has sent, puts them into the buffer of the      *)
(* stream and looks for a frame there.  A frame arrives in pieces of any   *)
(* size; a call finds at most one frame and leaves the rest of the buffer  *)
(* to the next call.                                                       *)
(*                                                                         *)
(* A frame has a header and a footer, each possibly empty, and is of one   *)
(* of three kinds: of a fixed size, with a length in it, or up to its      *)
(* footer.  In the strict mode the search goes on one byte after the head  *)
(* of the last frame and not at its end.                                   *)
(*                                                                         *)
(* A call is several steps here: the preparation of the buffer, each round *)
(* of CDS_analyze_rx_buffer_pickup_, and the end.  Nothing runs in         *)
(* between.                                                                *)
(***************************************************************************)
EXTENDS Integers, Sequences, SequencesExt

CONSTANTS
    Bytes,      \* the values of a byte
    Configs,    \* CDS_StreamConfig.settings
    HalMax,     \* hal_rx_buffer_size_
    MaxBytes    \* bound on the number of bytes the device sends

\* A length is one byte; CDS_analyze_rx_buffer_get_framelength_ composes it of up to four.
Kinds == {"FIXED", "LENGTH", "FOOTER"}
Header(c) == Len(c.header)
Footer(c) == Len(c.footer)
\* Up to the length, for a frame that has one.
LengthEnd(c) == c.pos + 1
\* Where the data begin in a frame whose size is known.
BodyAt(c) == IF c.kind = "LENGTH" THEN LengthEnd(c) ELSE Header(c)

\* CDS_validate_stream_config_.  It asks nothing of the offset of a length: with the default,
\* 0, a received length may be smaller than the part of the frame it stands in.
Valid(c) ==
    /\ c.kind \in Kinds /\ c.strict \in BOOLEAN
    /\ c.header \in Seq(Bytes) /\ c.footer \in Seq(Bytes)
    /\ c.size \in Int /\ c.max \in Nat /\ c.capacity \in Nat /\ c.pos \in Nat /\ c.offset \in Nat
    /\ c.kind = "FIXED" => c.size > 0 /\ c.size >= Header(c) + Footer(c)
    /\ c.kind = "LENGTH" => Header(c) > 0 /\ c.pos >= Header(c)
    /\ c.kind = "FOOTER" => Footer(c) > 0
    /\ c.strict => Header(c) > 0
    /\ c.capacity >= HalMax /\ c.capacity >= c.size /\ c.capacity >= Header(c) + Footer(c)

ASSUME ReceiverAssumption ==
    /\ Bytes \subseteq Nat /\ HalMax \in Nat \ {0} /\ MaxBytes \in Nat
    /\ \A c \in Configs : Valid(c)

VARIABLES
    config,     \* the settings, fixed
    bytes,      \* CDS_StreamRecBuffer: buffer, up to size
    head,       \* pos_of_frame_head_candidate
    confirmed,  \* confirmed_frame_len
    fixed,      \* is_frame_fixed
    status,     \* rec_status_.status_code, after the round
    pc,         \* idle, or pickup within a call
    \* history: the bytes received since the buffer was last cleared, the frames found in
    \* them (where they begin and how long they are) and reported to the driver
    stream,
    found,
    reported

vars == <<config, bytes, head, confirmed, fixed, status, pc, stream, found, reported>>
buffer == <<bytes, head, confirmed, fixed>>

Init ==
    /\ config \in Configs
    /\ bytes = <<>> /\ head = 0 /\ confirmed = 0 /\ fixed = FALSE
    /\ status = "DISABLE" /\ pc = "idle"
    /\ stream = <<>> /\ found = <<>> /\ reported = 0

Unprocessed == Len(bytes) - head - confirmed
ByteAt(i) == bytes[head + i + 1]    \* the i-th byte of the frame, from 0

\* A call is over; the driver takes a frame when it sees the status FIXED_FRAME.
EndCall ==
    /\ pc' = "idle"
    /\ reported' = IF status' = "FIXED_FRAME" THEN reported + 1 ELSE reported
-----------------------------------------------------------------------------
(***************************************************************************)
(* CDS_receive, up to the search.                                          *)
(***************************************************************************)
\* BUG (mutant): the strict search, too, goes on at the end of the frame.
FrameDroppedWhole == IF fixed THEN confirmed ELSE 0

\* How much CDS_analyze_rx_buffer_prepare_buffer_ drops: a frame that was fixed in the last
\* call, or its first byte.
FrameDropped ==
    IF ~fixed THEN 0 ELSE IF config.strict THEN 1 ELSE confirmed

\* CDS_analyze_rx_buffer_prepare_buffer_
Prepare(chunk) ==
    LET rest == SubSeq(bytes, FrameDropped + 1, Len(bytes))
        fits == Len(rest) + Len(chunk) <= config.capacity
    IN  /\ fixed' = FALSE
        /\ confirmed' = IF fixed \/ ~fits THEN 0 ELSE confirmed
        /\ head' = 0
        /\ bytes' = IF fits THEN rest \o chunk ELSE chunk
        /\ stream' = IF fits THEN stream \o chunk ELSE chunk
        /\ found' = IF fits THEN found ELSE <<>>
        /\ reported' = IF fits THEN reported ELSE 0
        /\ pc' = "pickup"
        /\ UNCHANGED <<config, status>>

\* HAL_rx_handlers has bytes.
Receive(chunk) == pc = "idle" /\ chunk # <<>> /\ Prepare(chunk)

\* BUG (mutant): a single byte is left for the next data.
BacklogOfMore == Unprocessed > 1
Backlog == Unprocessed > 0

\* There are none, but the buffer has bytes that were not looked at.
ReceiveBacklog == pc = "idle" /\ Backlog /\ Prepare(<<>>)

\* BUG (mutant): the status stays.
StatusOfNothingKept == status
StatusOfNothing == IF status = "FIXED_FRAME" THEN "FINDING_HEADER" ELSE status

\* There are none, and nothing is left.
ReceiveNothing ==
    /\ pc = "idle" /\ ~Backlog
    /\ status' = StatusOfNothing
    /\ EndCall
    /\ UNCHANGED <<config, buffer, stream, found>>

ReceiveError ==
    /\ pc = "idle"
    /\ status' = "RX_ERR"
    /\ EndCall
    /\ UNCHANGED <<config, buffer, stream, found>>

\* CDS_clear_rx_buffer
ClearBuffer ==
    /\ pc = "idle"
    /\ bytes' = <<>> /\ head' = 0 /\ confirmed' = 0 /\ fixed' = FALSE
    /\ stream' = <<>> /\ found' = <<>> /\ reported' = 0
    /\ UNCHANGED <<config, status, pc>>
-----------------------------------------------------------------------------
(***************************************************************************)
(* One round of the search.                                                *)
(***************************************************************************)
\* The loop goes on while there are bytes to look at and no frame is fixed.
Picking == pc = "pickup" /\ Unprocessed > 0 /\ ~fixed

\* n further bytes belong to the frame.
Confirm(n, newStatus) ==
    /\ confirmed' = confirmed + n
    /\ status' = newStatus
    /\ fixed' = (newStatus = "FIXED_FRAME")
    /\ found' = IF newStatus = "FIXED_FRAME"
                THEN Append(found, [at |-> Len(stream) - Len(bytes) + head, len |-> confirmed + n])
                ELSE found
    /\ UNCHANGED <<config, bytes, head, pc, stream, reported>>

\* The candidate is no frame: HEADER_MISMATCH, FOOTER_MISMATCH, RX_FRAME_TOO_LONG or
\* RX_FRAME_TOO_SHORT, and CDS_move_forward_frame_head_candidate_of_stream_rec_buffer_.
Mismatch ==
    /\ head' = head + 1
    /\ confirmed' = 0
    /\ status' = "FINDING_HEADER"
    /\ UNCHANGED <<config, bytes, fixed, pc, stream, found, reported>>

\* CDS_analyze_rx_buffer_finding_header_
FindHeader ==
    /\ Picking /\ Header(config) > 0 /\ confirmed = 0
    /\ LET place == SelectInSubSeq(bytes, head + 1, Len(bytes), LAMBDA b : b = config.header[1])
       IN  /\ head' = IF place = 0 THEN Len(bytes) ELSE place - 1
           /\ confirmed' = IF place = 0 THEN 0 ELSE 1
           /\ status' = IF place = 0 THEN "FINDING_HEADER" ELSE "RECEIVING_HEADER"
    /\ UNCHANGED <<config, bytes, fixed, pc, stream, found, reported>>

\* CDS_analyze_rx_buffer_receiving_header_
ReceiveHeader ==
    /\ Picking /\ 0 < confirmed /\ confirmed < Header(config)
    /\ IF ByteAt(confirmed) = config.header[confirmed + 1]
       THEN Confirm(1, "RECEIVING_HEADER")
       ELSE Mismatch

PastHeader == Picking /\ (Header(config) = 0 \/ confirmed > 0) /\ confirmed >= Header(config)

\* The length, for a frame that has one.
LengthAt(b, begin, c) == b[begin + c.pos + 1] + c.offset
\* BUG (mutant): a frame may be larger than the largest frame of the stream.
LengthFitsBuffer(n, c) == n <= c.capacity /\ n >= Header(c) + Footer(c)
LengthFits(n, c) == n <= c.capacity /\ n <= c.max /\ n >= Header(c) + Footer(c)

Least(a, b) == IF a <= b THEN a ELSE b

\* How many of the n bytes to come have arrived.
Arrived(n) == Least(n, Unprocessed)

\* CDS_analyze_rx_buffer_variable_pickup_with_rx_frame_size_, up to the length.
ReceiveLength ==
    /\ config.kind = "LENGTH" /\ PastHeader /\ confirmed < LengthEnd(config)
    /\ LET n == Arrived(LengthEnd(config) - confirmed)
       IN  IF /\ confirmed + n = LengthEnd(config)
              /\ ~LengthFits(LengthAt(bytes, head, config), config)
           THEN Mismatch
           ELSE Confirm(n, "RECEIVING_FRAMELENGTH")

HasSize == config.kind = "FIXED" \/ (config.kind = "LENGTH" /\ confirmed >= LengthEnd(config))
FrameSize == IF config.kind = "FIXED" THEN config.size ELSE LengthAt(bytes, head, config)

\* BUG (mutant): the footer is not waited for.
DataStatusOfBody(n) ==
    IF confirmed + n = FrameSize - Footer(config) THEN "FIXED_FRAME" ELSE "RECEIVING_DATA"

DataStatus(n) ==
    IF Footer(config) = 0 /\ confirmed + n = FrameSize THEN "FIXED_FRAME" ELSE "RECEIVING_DATA"

\* The data of a frame whose size is known, in CDS_analyze_rx_buffer_fixed_pickup_ and
\* CDS_analyze_rx_buffer_variable_pickup_with_rx_frame_size_.
ReceiveData ==
    /\ PastHeader /\ HasSize /\ confirmed < FrameSize - Footer(config)
    /\ LET n == Arrived(FrameSize - Footer(config) - confirmed)
       IN  Confirm(n, DataStatus(n))

\* All data have been received: CDS_analyze_rx_buffer_receiving_footer_.
PastData == PastHeader /\ HasSize /\ confirmed >= FrameSize - Footer(config)

\* A frame without a footer that ReceiveData has not fixed: it has no data, or its length ends
\* within the part of the frame that was read before the length was known.
FixWithoutFooter == PastData /\ Footer(config) = 0 /\ Confirm(0, "FIXED_FRAME")

FooterIndex == confirmed - (FrameSize - Footer(config)) + 1
InFooter == FooterIndex \in 1..Footer(config)

\* Behind a length too short for itself and the footer the footer is read out of its range:
\* the byte there may be any.
ReceiveFooter ==
    /\ PastData /\ Footer(config) > 0
    /\ \/ /\ InFooter => ByteAt(confirmed) # config.footer[FooterIndex]
          /\ Mismatch
       \/ /\ InFooter => ByteAt(confirmed) = config.footer[FooterIndex]
          /\ Confirm(1, IF confirmed + 1 = FrameSize THEN "FIXED_FRAME" ELSE "RECEIVING_FOOTER")

\* CDS_analyze_rx_buffer_variable_pickup_with_footer_: up to the next last byte of a footer.
SearchFooter ==
    /\ config.kind = "FOOTER" /\ PastHeader
    /\ LET place == SelectInSubSeq(bytes, head + confirmed + 1, Len(bytes),
                                   LAMBDA b : b = Last(config.footer))
           n == IF place = 0 THEN Unprocessed ELSE place - head - confirmed
           frame == SubSeq(bytes, head + 1, head + confirmed + n)
       IN  IF Len(frame) > config.max THEN Mismatch
           ELSE Confirm(n, IF Len(frame) >= Header(config) + Footer(config)
                              /\ IsSuffix(config.footer, frame)
                           THEN "FIXED_FRAME" ELSE "RECEIVING_DATA")

\* The loop ends, and CDS_analyze_rx_buffer_cueing_buffer_ drops what is before the head.
EndRounds ==
    /\ pc = "pickup" /\ (Unprocessed = 0 \/ fixed)
    /\ bytes' = SubSeq(bytes, head + 1, Len(bytes)) /\ head' = 0
    /\ UNCHANGED <<config, confirmed, fixed, status, stream, found>>
    /\ EndCall

Pickup ==
    \/ FindHeader \/ ReceiveHeader \/ ReceiveLength \/ ReceiveData \/ FixWithoutFooter
    \/ ReceiveFooter \/ SearchFooter \/ EndRounds

\* CDS_receive is called in every cycle of the driver, whether the device has sent anything.
CallWithoutData == ReceiveBacklog \/ ReceiveNothing
Next ==
    \/ \E n \in 1..HalMax : \E chunk \in [1..n -> Bytes] :
          Len(stream) + n <= MaxBytes /\ Receive(chunk)
    \/ CallWithoutData \/ ReceiveError \/ ClearBuffer
    \/ Pickup

Spec == Init /\ [][Next]_vars /\ WF_vars(Pickup) /\ WF_vars(ReceiveBacklog)
-----------------------------------------------------------------------------
(***************************************************************************)
(* What the frames of a stream of bytes are, whatever pieces it came in:   *)
(* what the search takes for a frame, short lengths included.  FramesAreWhole *)
(* says what such a frame is.                                              *)
(***************************************************************************)
\* Whether what begins with s is a frame: its length, 0 if it is none whatever follows, -1
\* if that depends on what follows.
Agrees(s, at, pattern) ==
    \A i \in 1..Len(pattern) : at + i <= Len(s) => s[at + i] = pattern[i]

\* A byte behind the length contradicts the footer of a frame of n bytes.
FooterRefuted(s, n, c) ==
    \E i \in 1..Footer(c) :
        LET place == n - Footer(c) + i
        IN  BodyAt(c) < place /\ place <= Len(s) /\ s[place] # c.footer[i]

\* A frame that ends before its data begin is seen one byte late without a footer, and is none
\* with one.
SizedVerdict(s, n, c) ==
    IF n > BodyAt(c)
    THEN IF FooterRefuted(s, n, c) THEN 0 ELSE IF Len(s) >= n THEN n ELSE -1
    ELSE IF Footer(c) > 0 THEN 0 ELSE IF Len(s) > BodyAt(c) THEN BodyAt(c) ELSE -1

FooterVerdict(s, c) ==
    LET ends == {n \in (Header(c) + Footer(c))..Len(s) :
                    n <= c.max /\ Agrees(SubSeq(s, 1, n), n - Footer(c), c.footer)}
    IN  IF ends # {} THEN CHOOSE n \in ends : \A k \in ends : n <= k
        ELSE IF Len(s) > c.max THEN 0 ELSE -1

LengthVerdict(s, c) ==
    IF Len(s) < LengthEnd(c) THEN -1
    ELSE IF LengthAt(s, 0, c) \notin (Header(c) + Footer(c))..Least(c.max, c.capacity) THEN 0
    ELSE SizedVerdict(s, LengthAt(s, 0, c), c)

Verdict(s, c) ==
    IF ~Agrees(s, 0, c.header) THEN 0
    ELSE IF c.kind = "FIXED" THEN SizedVerdict(s, c.size, c)
    ELSE IF c.kind = "LENGTH" THEN LengthVerdict(s, c)
    ELSE FooterVerdict(s, c)

\* The frames of s from each position on: the first candidate that is not refuted is a
\* frame, or has to be waited for.
FramesFrom(s, c) ==
    LET frames[p \in 0..Len(s)] ==
            LET verdict == Verdict(SubSeq(s, p + 1, Len(s)), c)
            IN  IF p = Len(s) \/ verdict = -1 THEN <<>>
                ELSE IF verdict = 0 THEN frames[p + 1]
                ELSE <<[at |-> p, len |-> verdict]>>
                        \o frames[IF c.strict THEN p + 1 ELSE p + verdict]
    IN  frames

Frames == FramesFrom(stream, config)[0]
-----------------------------------------------------------------------------
(***************************************************************************)
(* Properties.                                                             *)
(***************************************************************************)
\* The buffer is the last of the stream.
BufferIsReceived ==
    /\ Len(bytes) <= Len(stream)
    /\ \A i \in 1..Len(bytes) : bytes[i] = stream[Len(stream) - Len(bytes) + i]

\* The type of the state.  What was confirmed is in the buffer (the length computed in
\* CDS_get_unprocessed_size_from_stream_rec_buffer_ is never negative, "まああり得ないが"), and a
\* footer is compared within its length unless the length of the frame ends before its data.
ReceiverTypeOK ==
    /\ config \in Configs /\ bytes \in Seq(Bytes) /\ Len(bytes) <= config.capacity
    /\ head \in 0..Len(bytes) /\ confirmed \in 0..Len(bytes) /\ Unprocessed >= 0
    /\ fixed \in BOOLEAN /\ pc \in {"idle", "pickup"} /\ stream \in Seq(Bytes)
    /\ BufferIsReceived
    /\ PastData => InFooter \/ FrameSize <= BodyAt(config)

\* The frames found are the first frames of the stream, in order: how the bytes were split
\* over the calls, bytes of other frames and broken frames before them make no difference.
FramesAreTheStreams == IsPrefix(found, Frames)

\* The receiver waits for the end of a frame whose length ends before its footer can begin.
Overrun == HasSize /\ Footer(config) > 0 /\ confirmed >= FrameSize

\* Once the receiver has looked at all bytes and holds no frame, it has found every frame,
\* unless a length too short for the footer keeps it comparing bytes out of range.
NoFrameMissed == pc = "idle" /\ Unprocessed = 0 /\ ~fixed /\ ~Overrun => found = Frames

\* The bytes s are a frame as the settings describe it (driver_super.h:315-357).
IsWhole(s, c) ==
    /\ Len(s) >= Header(c) + Footer(c)
    /\ IsPrefix(c.header, s) /\ IsSuffix(c.footer, s)
    /\ c.kind = "FIXED" => Len(s) = c.size
    /\ c.kind = "LENGTH" => Len(s) = LengthAt(s, 0, c) /\ Len(s) <= c.capacity
    /\ c.kind # "FIXED" => Len(s) <= c.max

\* The length it carries does not cover what precedes the data and the footer.
IsShort(s, c) == c.kind = "LENGTH" /\ LengthAt(s, 0, c) < LengthEnd(c) + Footer(c)

FoundBytes(i) == SubSeq(stream, found[i].at + 1, found[i].at + found[i].len)

\* Every frame found is one, with its header, its length and its whole footer, in the bytes
\* as they were received: over calls, bytes dropped and a buffer cleared in between.  Only a
\* length too short for what it stands in makes an exception (driver_super.c:898).
FramesAreWhole ==
    \A i \in DOMAIN found :
        IsWhole(FoundBytes(i), config) \/ IsShort(FoundBytes(i), config)

\* Every frame is reported to the driver in exactly one call: the status is not left at
\* FIXED_FRAME by a call that found no frame.
ReportedOnce == pc = "idle" => reported = Len(found)

DeviceSends == pc = "idle" /\ Len(stream') > Len(stream)

\* When the device falls silent, the calls go through what is left in the buffer: a frame
\* behind another one does not wait for the next byte.
BacklogIsServed == <>[][~DeviceSends]_vars => []<>(pc = "idle" /\ Unprocessed = 0)
-----------------------------------------------------------------------------
(***************************************************************************)
(* Statements of the source that the code does not keep.                   *)
(***************************************************************************)
\* "the size of the whole frame decides where a frame of variable length ends; set the offset
\* to 0 if the length is that of the whole frame" (driver_super.h:354-357): every frame found
\* is as long as the length in it says.
EveryFrameIsWhole == \A i \in DOMAIN found : IsWhole(FoundBytes(i), config)

\* "without a footer the frame is fixed when its data are complete; otherwise it would be
\* fixed one cycle late" (driver_super.c:926-928), data of 0 bytes being allowed (897): no
\* call ends with a frame complete and not fixed.
FixedAtItsEnd ==
    pc = "idle" /\ ~fixed /\ confirmed > 0 /\ HasSize /\ Footer(config) = 0 => confirmed # FrameSize
=============================================================================
