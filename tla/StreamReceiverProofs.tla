------------------------ MODULE StreamReceiverProofs ------------------------
(***************************************************************************)
(* Theorems about StreamReceiver, for every stream, every configuration    *)
(* that CDS_validate_stream_config_ accepts and however the bytes are      *)
(* split over the calls.                                                   *)
(*                                                                         *)
(* The candidate that is being looked at lies within the buffer, and the   *)
(* buffer is the last of what was received.  A candidate that is not fixed *)
(* is shorter than the size it says, unless that size ends before the data *)
(* begin (BelowSize); so the byte compared with the footer is compared     *)
(* with a byte of the footer unless the length is that short.  That a call *)
(* which found no frame does not report one rests on Reports: the status   *)
(* of an earlier frame is overwritten by the first round of the search,    *)
(* and there is a round, because there are bytes to look at.               *)
(*                                                                         *)
(* That the frames found are those of the stream, and that none is missed, *)
(* is proved from SearchInv.  Walked says of EVERY continuation of the     *)
(* stream that its frames are those found and those from the place where   *)
(* the search is, so that it is not disturbed by what arrives; a candidate *)
(* is given up or found for what all its continuations have in common.     *)
(* Seen says what was established about the candidate by the bytes that    *)
(* were confirmed.                                                         *)
(***************************************************************************)
EXTENDS StreamReceiver, CommonLemmas

Frame == [at : Int, len : Int]

Typed ==
    /\ config \in Configs /\ bytes \in Seq(Bytes) /\ stream \in Seq(Bytes)
    /\ head \in Nat /\ confirmed \in Nat
    /\ fixed \in BOOLEAN /\ pc \in {"idle", "pickup"}
    /\ found \in Seq(Frame) /\ reported \in Nat

\* The candidate lies within the buffer, and at its front between two calls.
Within ==
    /\ Len(bytes) <= config.capacity
    /\ head + confirmed <= Len(bytes)
    /\ pc = "idle" => head = 0

BelowSize ==
    ~fixed /\ HasSize =>
        \/ confirmed < FrameSize
        \/ FrameSize <= BodyAt(config) /\ (Footer(config) = 0 => confirmed <= BodyAt(config))

Reports ==
    /\ fixed => confirmed > 0
    /\ pc = "idle" => reported = Len(found)
    /\ pc = "pickup" /\ fixed => status = "FIXED_FRAME" /\ reported + 1 = Len(found)
    /\ pc = "pickup" /\ ~fixed => /\ reported = Len(found)
                                  /\ status = "FIXED_FRAME" => Unprocessed > 0

Inv == Typed /\ Within /\ BelowSize /\ BufferIsReceived /\ Reports

-----------------------------------------------------------------------------
\* What CDS_validate_stream_config_ guarantees, in numbers.
LEMMA ConfigFacts ==
  ASSUME NEW c \in Configs
  PROVE  /\ Header(c) \in Nat /\ Footer(c) \in Nat /\ LengthEnd(c) \in Nat \ {0}
         /\ c.size \in Int /\ c.offset \in Nat /\ c.pos \in Nat /\ c.capacity \in Nat
         /\ HalMax \in Nat /\ HalMax <= c.capacity
         /\ c.kind = "FIXED" => c.size > 0 /\ c.size >= Header(c) + Footer(c)
         /\ c.kind = "LENGTH" => Header(c) < LengthEnd(c) /\ Header(c) > 0
         /\ c.kind = "FOOTER" => Footer(c) > 0
         /\ c.strict \in BOOLEAN
         /\ c.kind \in {"FIXED", "LENGTH", "FOOTER"}
<1>1. Valid(c) /\ HalMax \in Nat
  BY ReceiverAssumption
<1>2. Header(c) \in Nat /\ Footer(c) \in Nat
  BY <1>1, LenProperties DEF Valid, Header, Footer
<1>3. /\ c.size \in Int /\ c.offset \in Nat /\ c.pos \in Nat /\ c.capacity \in Nat
      /\ HalMax <= c.capacity /\ c.strict \in BOOLEAN /\ c.kind \in {"FIXED", "LENGTH", "FOOTER"}
  BY <1>1 DEF Valid, Kinds
<1>4. LengthEnd(c) = c.pos + 1
  BY DEF LengthEnd
<1>5. c.kind = "FIXED" => c.size > 0 /\ c.size >= Header(c) + Footer(c)
  BY <1>1 DEF Valid
<1>6. c.kind = "FOOTER" => Footer(c) > 0
  BY <1>1 DEF Valid
<1>7. c.kind = "LENGTH" => Header(c) > 0 /\ c.pos >= Header(c)
  BY <1>1 DEF Valid
<1>8. c.kind = "LENGTH" => Header(c) < LengthEnd(c)
  BY <1>2, <1>3, <1>4, <1>7
<1> QED
  BY <1>1, <1>2, <1>3, <1>4, <1>5, <1>6, <1>7, <1>8

\* Where the data begin.
LEMMA BodyFacts ==
  ASSUME NEW c \in Configs
  PROVE  /\ BodyAt(c) \in Nat /\ BodyAt(c) >= Header(c)
         /\ c.kind = "FIXED" => /\ BodyAt(c) = Header(c) /\ c.size >= BodyAt(c) + Footer(c)
                                /\ c.size > 0
         /\ c.kind = "LENGTH" => BodyAt(c) = LengthEnd(c) /\ BodyAt(c) > 0
BY ConfigFacts DEF BodyAt

\* The size that a candidate says is a number.
LEMMA SizeFacts ==
  ASSUME Typed, Within, NEW n \in Nat, head + n <= Len(bytes),
         config.kind = "LENGTH" => n >= LengthEnd(config), config.kind # "FOOTER"
  PROVE  FrameSize \in Int
<1>1. CASE config.kind = "FIXED"
  BY <1>1, ConfigFacts DEF FrameSize, Typed
<1>2. CASE config.kind = "LENGTH"
  <2>1. /\ config.pos \in Nat /\ LengthEnd(config) = config.pos + 1 /\ config.offset \in Nat
        /\ Footer(config) \in Nat
    BY <1>2, ConfigFacts DEF Typed, LengthEnd
  <2>2. head \in Nat /\ Len(bytes) \in Nat /\ head + config.pos + 1 \in 1..Len(bytes)
    <3>1. head \in Nat /\ Len(bytes) \in Nat
      BY LenProperties DEF Typed
    <3>2. n >= config.pos + 1
      BY <1>2, <2>1
    <3> QED BY <2>1, <3>1, <3>2
  <2>3. bytes[head + config.pos + 1] \in Nat
    BY <2>2, ElementOfSeq, ReceiverAssumption DEF Typed
  <2>4. FrameSize = bytes[head + config.pos + 1] + config.offset
    BY <1>2 DEF FrameSize, LengthAt
  <2> QED
    BY <2>1, <2>3, <2>4
<1> QED
  BY <1>1, <1>2, ConfigFacts DEF Typed

-----------------------------------------------------------------------------
\* The receiver starts with an empty buffer.
LEMMA InitInv == Init => Inv
<1> SUFFICES ASSUME Init PROVE Inv
  OBVIOUS
<1>1. /\ config \in Configs /\ bytes = <<>> /\ head = 0 /\ confirmed = 0 /\ fixed = FALSE
      /\ pc = "idle" /\ stream = <<>> /\ found = <<>> /\ reported = 0 /\ Len(<<>>) = 0
  BY DEF Init
<1>2. /\ LengthEnd(config) \in Nat \ {0} /\ config.capacity \in Nat /\ Header(config) \in Nat
      /\ config.kind = "FIXED" => config.size > 0 /\ config.size \in Int
  BY <1>1, ConfigFacts
<1>3. Typed
  BY <1>1, EmptySeq DEF Typed
<1>4. Within /\ BufferIsReceived /\ Reports
  BY <1>1, <1>2 DEF Within, BufferIsReceived, Reports
<1>5. BelowSize
  BY <1>1, <1>2 DEF BelowSize, HasSize, FrameSize
<1> QED
  BY <1>3, <1>4, <1>5 DEF Inv

\* n further bytes are confirmed: the frame is fixed, or still shorter than its size, or of a
\* size that ends before its data.
LEMMA ConfirmStep ==
  ASSUME Inv, Picking, NEW n \in Nat, confirmed + n > 0, n <= Unprocessed, NEW s, Confirm(n, s),
         \/ s = "FIXED_FRAME"
         \/ config.kind = "FOOTER"
         \/ config.kind = "LENGTH" /\ confirmed + n < LengthEnd(config)
         \/ confirmed + n < FrameSize
         \/ /\ FrameSize <= BodyAt(config)
            /\ Footer(config) = 0 => confirmed + n <= BodyAt(config)
  PROVE  Inv'
<1>1. /\ config \in Configs /\ bytes \in Seq(Bytes) /\ stream \in Seq(Bytes)
      /\ head \in Nat /\ confirmed \in Nat /\ found \in Seq(Frame) /\ reported \in Nat
      /\ Len(bytes) \in Nat /\ Len(stream) \in Nat /\ Len(found) \in Nat
      /\ pc = "pickup" /\ fixed = FALSE
  BY LenProperties DEF Inv, Typed, Picking
<1>2. /\ confirmed' = confirmed + n /\ status' = s /\ fixed' = (s = "FIXED_FRAME")
      /\ config' = config /\ bytes' = bytes /\ head' = head /\ pc' = pc
      /\ stream' = stream /\ reported' = reported
      /\ found' = IF s = "FIXED_FRAME"
                  THEN Append(found, [at |-> Len(stream) - Len(bytes) + head, len |-> confirmed + n])
                  ELSE found
  BY DEF Confirm
<1>3. head + confirmed + n <= Len(bytes)
  BY <1>1 DEF Unprocessed
<1>4. found' \in Seq(Frame) /\ Len(found') = IF s = "FIXED_FRAME" THEN Len(found) + 1 ELSE Len(found)
  <2>1. [at |-> Len(stream) - Len(bytes) + head, len |-> confirmed + n] \in Frame
    BY <1>1 DEF Frame
  <2> QED
    BY <1>1, <1>2, <2>1
<1>5. Typed'
  BY <1>1, <1>2, <1>4 DEF Typed
<1>6. Within'
  BY <1>1, <1>2, <1>3 DEF Inv, Within
<1>7. BelowSize'
  <2>1. CASE s = "FIXED_FRAME"
    BY <1>2, <2>1 DEF BelowSize
  <2>2. CASE s # "FIXED_FRAME"
    <3>1. FrameSize' = FrameSize
      BY <1>2 DEF FrameSize
    <3>2. config.kind \in {"FIXED", "LENGTH", "FOOTER"} /\ config' = config
      BY <1>1, <1>2, ConfigFacts
    <3>3. HasSize' => config.kind # "FOOTER" /\ ~(config.kind = "LENGTH" /\ confirmed + n < LengthEnd(config))
      <4>1. LengthEnd(config) \in Nat
        BY <1>1, ConfigFacts
      <4> QED BY <1>1, <1>2, <3>2, <4>1 DEF HasSize
    <3> QED
      BY <1>2, <2>2, <3>1, <3>3 DEF BelowSize
  <2> QED BY <2>1, <2>2
<1>8. BufferIsReceived'
  BY <1>2 DEF Inv, BufferIsReceived
<1>9. Reports'
  <2>1. reported = Len(found) /\ confirmed + n > 0
    BY <1>1 DEF Inv, Reports
  <2>2. CASE s = "FIXED_FRAME"
    BY <1>1, <1>2, <1>4, <2>1, <2>2 DEF Reports
  <2>3. CASE s # "FIXED_FRAME"
    BY <1>1, <1>2, <1>4, <2>1, <2>3 DEF Reports
  <2> QED BY <2>2, <2>3
<1> QED
  BY <1>5, <1>6, <1>7, <1>8, <1>9 DEF Inv

\* A candidate is given up.
LEMMA MismatchStep ==
  ASSUME Inv, Picking, Mismatch
  PROVE  Inv'
<1>1. /\ config \in Configs /\ head \in Nat /\ confirmed \in Nat /\ Len(bytes) \in Nat
      /\ pc = "pickup" /\ fixed = FALSE /\ bytes \in Seq(Bytes)
  BY LenProperties DEF Inv, Typed, Picking
<1>2. /\ head' = head + 1 /\ confirmed' = 0 /\ status' = "FINDING_HEADER"
      /\ config' = config /\ bytes' = bytes /\ fixed' = fixed /\ pc' = pc
      /\ stream' = stream /\ found' = found /\ reported' = reported
  BY DEF Mismatch
<1>3. head + 1 <= Len(bytes)
  BY <1>1 DEF Picking, Unprocessed
<1>4. Typed'
  BY <1>1, <1>2 DEF Inv, Typed
<1>5. Within'
  BY <1>1, <1>2, <1>3 DEF Inv, Within
<1>6. BelowSize'
  BY <1>1, <1>2, ConfigFacts DEF BelowSize, HasSize, FrameSize
<1>7. BufferIsReceived' /\ Reports'
  BY <1>1, <1>2 DEF Inv, BufferIsReceived, Reports
<1> QED
  BY <1>4, <1>5, <1>6, <1>7 DEF Inv

\* The search for a header keeps the invariant.
LEMMA FindHeaderStep ==
  ASSUME Inv, FindHeader
  PROVE  Inv'
<1> DEFINE I == {i \in (head + 1)..Len(bytes) : bytes[i] = config.header[1]}
           place == IF I # {} THEN Min(I) ELSE 0
<1>1. /\ config \in Configs /\ head \in Nat /\ Len(bytes) \in Nat
      /\ pc = "pickup" /\ fixed = FALSE /\ bytes \in Seq(Bytes)
  BY LenProperties DEF Inv, Typed, FindHeader, Picking
<1>2. /\ head' = IF place = 0 THEN Len(bytes) ELSE place - 1
      /\ confirmed' = IF place = 0 THEN 0 ELSE 1
      /\ status' = IF place = 0 THEN "FINDING_HEADER" ELSE "RECEIVING_HEADER"
      /\ config' = config /\ bytes' = bytes /\ fixed' = fixed /\ pc' = pc
      /\ stream' = stream /\ found' = found /\ reported' = reported
  BY DEF FindHeader, SelectInSubSeq
<1>3. place = 0 \/ place \in (head + 1)..Len(bytes)
  <2>1. I \in SUBSET Nat
    BY <1>1
  <2>2. I # {} => Min(I) \in I
    <3> HIDE DEF I
    <3> QED BY <2>1, MinOfNats
  <2> QED
    BY <2>2
<1> HIDE DEF I, place
<1>4. Typed'
  BY <1>1, <1>2, <1>3 DEF Inv, Typed
<1>5. Within'
  BY <1>1, <1>2, <1>3 DEF Inv, Within
<1>6. BelowSize'
  <2>1. Header(config) \in Nat \ {0}
    BY <1>1, ConfigFacts DEF FindHeader
  <2>2. confirmed' <= Header(config) /\ confirmed' \in Nat
    BY <1>2, <2>1
  <2>3. /\ config.kind = "FIXED" => /\ confirmed' < config.size \/ config.size <= BodyAt(config)
                                    /\ confirmed' <= BodyAt(config)
        /\ config.kind = "LENGTH" => confirmed' < LengthEnd(config)
    BY <1>1, <2>1, <2>2, ConfigFacts, BodyFacts
  <2>4. config.kind \in {"FIXED", "LENGTH", "FOOTER"} /\ LengthEnd(config) \in Nat
    BY <1>1, ConfigFacts
  <2>5. config.kind = "FIXED" => FrameSize = config.size /\ FrameSize' = config.size
    BY <1>2 DEF FrameSize
  <2>6. HasSize' => config.kind = "FIXED"
    BY <1>2, <2>2, <2>3, <2>4 DEF HasSize
  <2> QED
    BY <1>2, <2>3, <2>5, <2>6 DEF BelowSize
<1>7. BufferIsReceived' /\ Reports'
  BY <1>1, <1>2 DEF Inv, BufferIsReceived, Reports
<1> QED
  BY <1>4, <1>5, <1>6, <1>7 DEF Inv

\* The rest of the header.
LEMMA HeaderStep ==
  ASSUME Inv, ReceiveHeader
  PROVE  Inv'
<1>1. /\ config \in Configs /\ head \in Nat /\ confirmed \in Nat /\ Len(bytes) \in Nat
      /\ Picking /\ Unprocessed > 0 /\ confirmed < Header(config)
  BY LenProperties DEF Inv, Typed, ReceiveHeader, Picking
<1>2. CASE Mismatch
  BY <1>1, <1>2, MismatchStep
<1>3. CASE Confirm(1, "RECEIVING_HEADER")
  <2>1. Header(config) \in Nat /\ confirmed + 1 <= Header(config)
    BY <1>1, ConfigFacts
  <2>2. \/ config.kind = "FOOTER"
        \/ config.kind = "LENGTH" /\ confirmed + 1 < LengthEnd(config)
        \/ confirmed + 1 < FrameSize
        \/ FrameSize <= BodyAt(config) /\ confirmed + 1 <= BodyAt(config)
    BY <1>1, <2>1, ConfigFacts, BodyFacts DEF FrameSize
  <2>3. 1 <= Unprocessed /\ confirmed + 1 > 0
    BY <1>1 DEF Unprocessed
  <2> QED
    BY <1>1, <1>3, <2>2, <2>3, ConfirmStep
<1> QED
  BY <1>2, <1>3 DEF ReceiveHeader

\* How many of n > 0 bytes have arrived: some, as there are bytes to look at.
LEMMA ArrivedFacts ==
  ASSUME Inv, Picking, NEW n \in Int, n > 0
  PROVE  Arrived(n) \in Nat /\ Arrived(n) > 0 /\ Arrived(n) <= Unprocessed /\ Arrived(n) <= n
<1>1. Unprocessed \in Nat /\ Unprocessed > 0
  BY LenProperties DEF Inv, Typed, Within, Picking, Unprocessed
<1> QED
  BY <1>1 DEF Arrived, Least

\* The length field.
LEMMA LengthStep ==
  ASSUME Inv, ReceiveLength
  PROVE  Inv'
<1> DEFINE n == Arrived(LengthEnd(config) - confirmed)
<1>1. /\ config \in Configs /\ confirmed \in Nat /\ head \in Nat /\ Len(bytes) \in Nat
      /\ Picking /\ config.kind = "LENGTH" /\ confirmed < LengthEnd(config)
      /\ LengthEnd(config) \in Nat
  BY ConfigFacts, LenProperties DEF Inv, Typed, ReceiveLength, PastHeader
<1>2. n \in Nat /\ n > 0 /\ n <= Unprocessed /\ n <= LengthEnd(config) - confirmed
  BY <1>1, ArrivedFacts
<1>3. Mismatch \/ Confirm(n, "RECEIVING_FRAMELENGTH")
  BY DEF ReceiveLength
<1>4. \/ confirmed + n < LengthEnd(config)
      \/ confirmed + n < FrameSize
      \/ FrameSize <= BodyAt(config) /\ confirmed + n <= BodyAt(config)
  <2> SUFFICES ASSUME confirmed + n = LengthEnd(config)
               PROVE  \/ confirmed + n < FrameSize
                      \/ FrameSize <= BodyAt(config) /\ confirmed + n <= BodyAt(config)
    BY <1>1, <1>2
  <2>1. head + (confirmed + n) <= Len(bytes) /\ confirmed + n \in Nat
    BY <1>1, <1>2 DEF Unprocessed
  <2>2. FrameSize \in Int /\ BodyAt(config) = LengthEnd(config)
    BY <1>1, <2>1, SizeFacts, BodyFacts DEF Inv
  <2> QED
    BY <1>1, <2>2
<1> HIDE DEF n
<1>5. CASE Confirm(n, "RECEIVING_FRAMELENGTH")
  BY <1>1, <1>2, <1>4, <1>5, ConfirmStep
<1> QED
  BY <1>1, <1>3, <1>5, MismatchStep

\* A frame that has its size, past its header.
LEMMA SizedFacts ==
  ASSUME Inv, PastHeader, HasSize
  PROVE  /\ config \in Configs /\ confirmed \in Nat /\ Picking
         /\ FrameSize \in Int /\ Footer(config) \in Nat /\ BodyAt(config) \in Nat
         /\ config.kind # "FOOTER" /\ confirmed >= BodyAt(config)
         /\ \/ confirmed < FrameSize
            \/ FrameSize <= BodyAt(config) /\ (Footer(config) = 0 => confirmed = BodyAt(config))
<1>1. /\ config \in Configs /\ confirmed \in Nat /\ head + confirmed <= Len(bytes)
      /\ Picking /\ ~fixed
  BY DEF Inv, Typed, Within, PastHeader, Picking
<1>2. config.kind # "FOOTER" /\ (config.kind = "LENGTH" => confirmed >= LengthEnd(config))
  BY DEF HasSize
<1>3. FrameSize \in Int
  BY <1>1, <1>2, SizeFacts DEF Inv
<1>4. confirmed >= BodyAt(config) /\ BodyAt(config) \in Nat /\ Footer(config) \in Nat
  BY <1>1, <1>2, ConfigFacts, BodyFacts DEF PastHeader, HasSize
<1>5. \/ confirmed < FrameSize
      \/ FrameSize <= BodyAt(config) /\ (Footer(config) = 0 => confirmed = BodyAt(config))
  BY <1>1, <1>4 DEF Inv, BelowSize
<1> QED
  BY <1>1, <1>2, <1>3, <1>4, <1>5

\* The data behind the length.
LEMMA DataStep ==
  ASSUME Inv, ReceiveData
  PROVE  Inv'
<1> DEFINE n == Arrived(FrameSize - Footer(config) - confirmed)
<1>1. /\ confirmed \in Nat /\ Picking /\ FrameSize \in Int /\ Footer(config) \in Nat
      /\ confirmed < FrameSize - Footer(config)
  BY SizedFacts DEF ReceiveData
<1>2. n \in Nat /\ n > 0 /\ n <= Unprocessed /\ n <= FrameSize - Footer(config) - confirmed
  BY <1>1, ArrivedFacts
<1>3. Confirm(n, DataStatus(n))
  BY DEF ReceiveData
<1>4. DataStatus(n) = "FIXED_FRAME" \/ confirmed + n < FrameSize
  <2> HIDE DEF n
  <2> QED BY <1>1, <1>2 DEF DataStatus
<1> HIDE DEF n
<1> QED
  BY <1>1, <1>2, <1>3, <1>4, ConfirmStep

\* The end of a frame without data and without a footer.
LEMMA EmptyBodyStep ==
  ASSUME Inv, FixWithoutFooter
  PROVE  Inv'
<1>1. confirmed \in Nat /\ Picking /\ FrameSize \in Int /\ PastHeader
  BY SizedFacts DEF FixWithoutFooter, PastData
<1>2. 0 <= Unprocessed
  BY LenProperties DEF FixWithoutFooter, PastData, PastHeader, Inv, Typed, Picking, Unprocessed
<1>3. confirmed + 0 > 0
  <2>1. Footer(config) = 0 /\ confirmed >= FrameSize /\ confirmed >= BodyAt(config) /\ config \in Configs
    BY <1>1, SizedFacts DEF FixWithoutFooter, PastData
  <2>2. CASE config.kind = "FIXED"
    BY <1>1, <2>1, <2>2, ConfigFacts DEF FrameSize
  <2>3. CASE config.kind = "LENGTH"
    BY <1>1, <2>1, <2>3, BodyFacts
  <2> QED BY <2>2, <2>3 DEF FixWithoutFooter, PastData, HasSize
<1> QED
  BY <1>1, <1>2, <1>3, ConfirmStep DEF FixWithoutFooter

\* The footer behind a frame of known size.
LEMMA FooterStep ==
  ASSUME Inv, ReceiveFooter
  PROVE  Inv'
<1>1. /\ confirmed \in Nat /\ Picking /\ FrameSize \in Int /\ Footer(config) > 0
      /\ confirmed < FrameSize \/ FrameSize <= BodyAt(config)
  BY SizedFacts DEF ReceiveFooter, PastData
<1>2. 1 <= Unprocessed /\ confirmed + 1 > 0
  BY <1>1, LenProperties DEF Inv, Typed, Picking, Unprocessed
<1>3. Footer(config) # 0
  BY <1>1, ConfigFacts DEF Inv, Typed
<1>4. \/ Mismatch
      \/ Confirm(1, "FIXED_FRAME")
      \/ confirmed + 1 < FrameSize /\ Confirm(1, "RECEIVING_FOOTER")
      \/ FrameSize <= BodyAt(config) /\ Confirm(1, "RECEIVING_FOOTER")
  BY <1>1 DEF ReceiveFooter
<1> QED
  BY <1>1, <1>2, <1>3, <1>4, MismatchStep, ConfirmStep

\* The search for a footer where the size is not known.
LEMMA SearchStep ==
  ASSUME Inv, SearchFooter
  PROVE  Inv'
<1> DEFINE I == {i \in (head + confirmed + 1)..Len(bytes) : bytes[i] = Last(config.footer)}
           place == IF I # {} THEN Min(I) ELSE 0
           n == IF place = 0 THEN Unprocessed ELSE place - head - confirmed
<1>1. /\ config.kind = "FOOTER" /\ Picking /\ Unprocessed > 0
      /\ head \in Nat /\ confirmed \in Nat /\ Len(bytes) \in Nat
  BY LenProperties DEF Inv, Typed, SearchFooter, PastHeader, Picking
<1>2. place = 0 \/ place \in (head + confirmed + 1)..Len(bytes)
  <2>1. I \in SUBSET Nat
    BY <1>1
  <2>2. I # {} => Min(I) \in I
    <3> HIDE DEF I
    <3> QED BY <2>1, MinOfNats
  <2> QED
    BY <2>2
<1>3. Mismatch \/ Confirm(n, "FIXED_FRAME") \/ Confirm(n, "RECEIVING_DATA")
  BY DEF SearchFooter, SelectInSubSeq
<1> HIDE DEF I, place
<1>4. n \in Nat /\ n > 0 /\ n <= Unprocessed
  BY <1>1, <1>2 DEF Unprocessed
<1> HIDE DEF n
<1> QED
  BY <1>1, <1>3, <1>4, MismatchStep, ConfirmStep

\* What is before the head is dropped, and the candidate stays what it was.
LEMMA EndStep ==
  ASSUME Inv, EndRounds
  PROVE  Inv'
<1>1. /\ config \in Configs /\ bytes \in Seq(Bytes) /\ stream \in Seq(Bytes)
      /\ head \in Nat /\ confirmed \in Nat /\ found \in Seq(Frame) /\ reported \in Nat
      /\ Len(bytes) \in Nat /\ Len(stream) \in Nat /\ head + confirmed <= Len(bytes)
      /\ Len(bytes) <= config.capacity /\ config.capacity \in Nat
      /\ pc = "pickup" /\ fixed \in BOOLEAN
  BY LenProperties, ConfigFacts DEF Inv, Typed, Within, EndRounds
<1>2. /\ bytes' = SubSeq(bytes, head + 1, Len(bytes)) /\ head' = 0 /\ pc' = "idle"
      /\ config' = config /\ confirmed' = confirmed /\ fixed' = fixed /\ status' = status
      /\ stream' = stream /\ found' = found
      /\ reported' = IF status = "FIXED_FRAME" THEN reported + 1 ELSE reported
      /\ Unprocessed = 0 \/ fixed
  BY DEF EndRounds, EndCall
<1>3. /\ bytes' \in Seq(Bytes) /\ Len(bytes') = Len(bytes) - head
      /\ \A i \in 1..(Len(bytes) - head) : bytes'[i] = bytes[head + i]
  <2>1. \A i \in (head + 1)..Len(bytes) : bytes[i] \in Bytes
    BY <1>1, ElementOfSeq
  <2> QED
    BY <1>1, <1>2, <2>1, SubSeqProperties
<1>4. Typed'
  BY <1>1, <1>2, <1>3 DEF Typed
<1>5. Within'
  BY <1>1, <1>2, <1>3 DEF Inv, Within
<1>6. BelowSize'
  <2>1. CASE config.kind = "LENGTH" /\ confirmed >= LengthEnd(config)
    <3>1. config.pos \in Nat /\ LengthEnd(config) = config.pos + 1
      BY <1>1, ConfigFacts DEF LengthEnd
    <3>2. config.pos + 1 \in 1..(Len(bytes) - head)
      BY <1>1, <2>1, <3>1
    <3>3. bytes'[config.pos + 1] = bytes[head + (config.pos + 1)]
      BY <1>3, <3>2
    <3>4. 0 + config.pos + 1 = config.pos + 1 /\ head + config.pos + 1 = head + (config.pos + 1)
      <4>1. \A a, p \in Nat : 0 + p + 1 = p + 1 /\ a + p + 1 = a + (p + 1)
        OBVIOUS
      <4> QED BY <1>1, <3>1, <4>1
    <3>5. FrameSize' = FrameSize
      BY <1>2, <2>1, <3>3, <3>4 DEF FrameSize, LengthAt
    <3> QED
      BY <1>2, <2>1, <3>5 DEF Inv, BelowSize, HasSize
  <2>2. CASE ~(config.kind = "LENGTH" /\ confirmed >= LengthEnd(config))
    BY <1>2, <2>2 DEF Inv, BelowSize, HasSize, FrameSize
  <2> QED BY <2>1, <2>2
<1>7. BufferIsReceived'
  <2>1. /\ Len(bytes) <= Len(stream)
        /\ \A i \in 1..Len(bytes) : bytes[i] = stream[Len(stream) - Len(bytes) + i]
    BY DEF Inv, BufferIsReceived
  <2>2. ASSUME NEW i \in 1..(Len(bytes) - head)
        PROVE  bytes'[i] = stream[Len(stream) - (Len(bytes) - head) + i]
    <3>1. bytes'[i] = bytes[head + i] /\ head + i \in 1..Len(bytes)
      BY <1>1, <1>3
    <3>2. Len(stream) - (Len(bytes) - head) + i = Len(stream) - Len(bytes) + (head + i)
      BY <1>1
    <3> QED BY <2>1, <3>1, <3>2
  <2>3. Len(bytes') <= Len(stream')
    BY <1>1, <1>2, <1>3, <2>1
  <2>4. \A i \in 1..Len(bytes') : bytes'[i] = stream'[Len(stream') - Len(bytes') + i]
    BY <1>2, <1>3, <2>2
  <2> QED
    BY <2>3, <2>4 DEF BufferIsReceived
<1>8. Reports'
  BY <1>1, <1>2 DEF Inv, Reports
<1> QED
  BY <1>4, <1>5, <1>6, <1>7, <1>8 DEF Inv

\* A call brings bytes, or goes on with those that are left; either way the search has bytes to
\* look at.
LEMMA PrepareStep ==
  ASSUME Inv, pc = "idle", NEW chunk \in Seq(Bytes), Len(chunk) <= HalMax,
         Len(chunk) > 0 \/ Unprocessed > 0, Prepare(chunk)
  PROVE  Inv'
<1> DEFINE rest == SubSeq(bytes, FrameDropped + 1, Len(bytes))
           fits == Len(rest) + Len(chunk) <= config.capacity
<1>1. /\ config \in Configs /\ bytes \in Seq(Bytes) /\ stream \in Seq(Bytes)
      /\ confirmed \in Nat /\ found \in Seq(Frame) /\ reported \in Nat
      /\ Len(bytes) \in Nat /\ Len(stream) \in Nat /\ Len(chunk) \in Nat
      /\ head = 0 /\ confirmed <= Len(bytes) /\ fixed \in BOOLEAN /\ Len(bytes) <= config.capacity
      /\ fixed => confirmed > 0
      /\ config.capacity \in Nat /\ HalMax \in Nat /\ HalMax <= config.capacity
      /\ Len(chunk) <= HalMax /\ reported = Len(found)
  BY LenProperties, ConfigFacts DEF Inv, Typed, Within, Reports
<1>2. /\ fixed' = FALSE /\ confirmed' = (IF fixed \/ ~fits THEN 0 ELSE confirmed) /\ head' = 0
      /\ bytes' = (IF fits THEN rest \o chunk ELSE chunk)
      /\ stream' = (IF fits THEN stream \o chunk ELSE chunk)
      /\ found' = (IF fits THEN found ELSE <<>>)
      /\ reported' = (IF fits THEN reported ELSE 0)
      /\ pc' = "pickup" /\ config' = config /\ status' = status
  BY DEF Prepare
<1>3. /\ FrameDropped \in Nat /\ FrameDropped <= confirmed
      /\ ~fixed => FrameDropped = 0
  BY <1>1 DEF FrameDropped
<1>4. /\ rest \in Seq(Bytes) /\ Len(rest) = Len(bytes) - FrameDropped
      /\ \A i \in 1..Len(rest) : rest[i] = bytes[FrameDropped + i]
  <2>1. \A i \in (FrameDropped + 1)..Len(bytes) : bytes[i] \in Bytes
    BY <1>1, <1>3, ElementOfSeq
  <2> QED
    BY <1>1, <1>3, <2>1, SubSeqProperties
<1> HIDE DEF rest
<1>5. /\ rest \o chunk \in Seq(Bytes) /\ Len(rest \o chunk) = Len(rest) + Len(chunk)
      /\ \A i \in 1..(Len(rest) + Len(chunk)) :
            (rest \o chunk)[i] = IF i <= Len(rest) THEN rest[i] ELSE chunk[i - Len(rest)]
  BY <1>4, ConcatProperties
<1>6. /\ stream \o chunk \in Seq(Bytes) /\ Len(stream \o chunk) = Len(stream) + Len(chunk)
      /\ \A i \in 1..(Len(stream) + Len(chunk)) :
            (stream \o chunk)[i] = IF i <= Len(stream) THEN stream[i] ELSE chunk[i - Len(stream)]
  BY <1>1, ConcatProperties
<1>7. Typed'
  BY <1>1, <1>2, <1>5, <1>6, EmptySeq DEF Typed
<1>8. Within'
  BY <1>1, <1>2, <1>3, <1>4, <1>5 DEF Within
<1>9. BelowSize'
  <2>1. CASE fits /\ ~fixed /\ config.kind = "LENGTH" /\ confirmed >= LengthEnd(config)
    <3>1. config.pos \in Nat /\ LengthEnd(config) = config.pos + 1
      BY <1>1, ConfigFacts DEF LengthEnd
    <3>2. config.pos + 1 \in 1..Len(rest) /\ FrameDropped = 0
      BY <1>1, <1>3, <1>4, <2>1, <3>1
    <3>3. (rest \o chunk)[config.pos + 1] = bytes[config.pos + 1]
      BY <1>1, <1>3, <1>4, <1>5, <3>1, <3>2
    <3>4. bytes'[head' + config.pos + 1] = bytes[head + config.pos + 1]
      <4>1. \A p \in Nat : 0 + p + 1 = p + 1
        OBVIOUS
      <4> QED BY <1>1, <1>2, <2>1, <3>1, <3>3, <4>1
    <3>5. FrameSize' = FrameSize
      BY <1>2, <2>1, <3>4 DEF FrameSize, LengthAt
    <3> QED
      BY <1>2, <2>1, <3>5 DEF Inv, BelowSize, HasSize
  <2>2. CASE confirmed' = 0
    BY <1>1, <1>2, <2>2, ConfigFacts DEF BelowSize, HasSize, FrameSize
  <2>3. CASE ~fixed /\ confirmed' = confirmed /\ ~(config.kind = "LENGTH" /\ confirmed >= LengthEnd(config))
    BY <1>2, <2>3 DEF Inv, BelowSize, HasSize, FrameSize
  <2> QED BY <1>1, <1>2, <2>1, <2>2, <2>3
<1>10. BufferIsReceived'
  <2>1. /\ Len(bytes) <= Len(stream)
        /\ \A i \in 1..Len(bytes) : bytes[i] = stream[Len(stream) - Len(bytes) + i]
    BY DEF Inv, BufferIsReceived
  <2>2. CASE ~fits
    BY <1>1, <1>2, <2>2 DEF BufferIsReceived
  <2>3. CASE fits
    <3>1. ASSUME NEW i \in 1..(Len(rest) + Len(chunk))
          PROVE  (rest \o chunk)[i] = (stream \o chunk)[Len(stream) + Len(chunk) - (Len(rest) + Len(chunk)) + i]
      <4>1. Len(stream) + Len(chunk) - (Len(rest) + Len(chunk)) + i = Len(stream) - Len(rest) + i
        BY <1>1, <1>3, <1>4
      <4>2. Len(stream) - Len(rest) + i \in 1..(Len(stream) + Len(chunk))
        BY <1>1, <1>3, <1>4, <2>1
      <4>3. CASE i <= Len(rest)
        <5>1. (rest \o chunk)[i] = bytes[FrameDropped + i] /\ FrameDropped + i \in 1..Len(bytes)
          BY <1>1, <1>3, <1>4, <1>5, <4>3
        <5>2. Len(stream) - Len(rest) + i = Len(stream) - Len(bytes) + (FrameDropped + i)
          BY <1>1, <1>3, <1>4
        <5>3. Len(stream) - Len(rest) + i <= Len(stream)
          BY <1>1, <1>3, <1>4, <4>3
        <5> QED BY <1>6, <2>1, <4>1, <4>2, <5>1, <5>2, <5>3
      <4>4. CASE ~(i <= Len(rest))
        <5>1. ~(Len(stream) - Len(rest) + i <= Len(stream))
          BY <1>1, <1>3, <1>4, <4>4
        <5>2. Len(stream) - Len(rest) + i - Len(stream) = i - Len(rest)
          BY <1>1, <1>3, <1>4
        <5> QED BY <1>5, <1>6, <4>1, <4>2, <4>4, <5>1, <5>2
      <4> QED BY <4>3, <4>4
    <3>2. Len(rest) + Len(chunk) <= Len(stream) + Len(chunk)
      BY <1>1, <1>3, <1>4, <2>1
    <3> QED
      BY <1>2, <1>5, <1>6, <2>3, <3>1, <3>2 DEF BufferIsReceived
  <2> QED BY <2>2, <2>3
<1>11. Reports'
  <2>1. Len(found') = reported' /\ reported' = Len(found')
    BY <1>1, <1>2
  <2>2. Len(bytes') - confirmed' > 0
    <3>1. Len(bytes) - confirmed > 0 \/ Len(chunk) > 0
      BY <1>1 DEF Unprocessed
    <3>2. CASE ~fits
      BY <1>1, <1>2, <1>3, <1>4, <3>1, <3>2
    <3>3. CASE fits /\ fixed
      BY <1>1, <1>2, <1>3, <1>4, <1>5, <3>1, <3>3
    <3>4. CASE fits /\ ~fixed
      BY <1>1, <1>2, <1>3, <1>4, <1>5, <3>1, <3>4
    <3> QED BY <3>2, <3>3, <3>4
  <2>3. Unprocessed' > 0
    <3>1. Len(bytes') \in Nat /\ confirmed' \in Nat /\ head' = 0
      BY <1>2, <1>7, LenProperties DEF Typed
    <3> QED BY <2>2, <3>1 DEF Unprocessed
  <2> QED
    BY <1>2, <2>1, <2>3 DEF Reports
<1> QED
  BY <1>7, <1>8, <1>9, <1>10, <1>11 DEF Inv

\* The calls that bring no bytes, and the clearing of the buffer.
LEMMA EmptyCallStep ==
  ASSUME Inv, ReceiveNothing \/ ReceiveError \/ ClearBuffer
  PROVE  Inv'
<1>1. Typed /\ Within /\ BelowSize /\ BufferIsReceived /\ Reports
  BY DEF Inv
<1>2. CASE ReceiveNothing \/ ReceiveError
  <2>1. /\ config' = config /\ bytes' = bytes /\ head' = head /\ confirmed' = confirmed
        /\ fixed' = fixed /\ stream' = stream /\ found' = found /\ pc' = "idle" /\ pc = "idle"
        /\ status' # "FIXED_FRAME" /\ reported' = reported
    BY <1>2 DEF ReceiveNothing, ReceiveError, StatusOfNothing, EndCall, buffer
  <2> QED
    BY <1>1, <2>1 DEF Inv, Typed, Within, BelowSize, HasSize, FrameSize, BufferIsReceived, Reports
<1>3. CASE ClearBuffer
  <2>1. /\ bytes' = <<>> /\ head' = 0 /\ confirmed' = 0 /\ fixed' = FALSE
        /\ stream' = <<>> /\ found' = <<>> /\ reported' = 0
        /\ config' = config /\ pc' = "idle" /\ pc = "idle" /\ config \in Configs
    BY <1>1, <1>3 DEF ClearBuffer, Typed
  <2>2. /\ LengthEnd(config) \in Nat \ {0} /\ config.capacity \in Nat /\ Header(config) \in Nat
        /\ config.kind = "FIXED" => config.size > 0 /\ config.size \in Int
    BY <2>1, ConfigFacts
  <2>3. Typed'
    BY <1>1, <2>1, EmptySeq DEF Typed
  <2>4. Within' /\ BufferIsReceived' /\ Reports'
    BY <2>1, <2>2 DEF Within, BufferIsReceived, Reports
  <2>5. BelowSize'
    BY <2>1, <2>2 DEF BelowSize, HasSize, FrameSize
  <2> QED
    BY <2>3, <2>4, <2>5 DEF Inv
<1> QED
  BY <1>2, <1>3

\* Every step keeps the invariant.
LEMMA NextStep == Inv /\ [Next]_vars => Inv'
<1> SUFFICES ASSUME Inv, [Next]_vars PROVE Inv'
  OBVIOUS
<1>1. ASSUME NEW n \in 1..HalMax, NEW chunk \in [1..n -> Bytes], Receive(chunk)
      PROVE  Inv'
  <2>1. HalMax \in Nat
    BY ReceiverAssumption
  <2>2. chunk \in Seq(Bytes) /\ Len(chunk) = n /\ n \in Nat /\ n > 0
    BY <2>1
  <2> QED
    BY <1>1, <2>1, <2>2, PrepareStep DEF Receive
<1>2. CASE ReceiveBacklog
  <2>1. <<>> \in Seq(Bytes) /\ Len(<<>>) = 0 /\ HalMax \in Nat
    BY EmptySeq, ReceiverAssumption
  <2>2. pc = "idle" /\ Unprocessed > 0 /\ Prepare(<<>>)
    BY <1>2 DEF ReceiveBacklog, Backlog
  <2> DEFINE nothing == <<>>
  <2>3. nothing \in Seq(Bytes) /\ Len(nothing) <= HalMax /\ Prepare(nothing)
    BY <2>1, <2>2
  <2> HIDE DEF nothing
  <2> QED
    BY <2>2, <2>3, PrepareStep
<1>3. CASE Pickup
  BY <1>3, FindHeaderStep, HeaderStep, LengthStep, DataStep, EmptyBodyStep, FooterStep,
     SearchStep, EndStep DEF Pickup
<1>4. CASE UNCHANGED vars
  BY <1>4 DEF vars, Inv, Typed, Within, BelowSize, HasSize, FrameSize, BufferIsReceived, Reports, Unprocessed
<1> QED
  BY <1>1, <1>2, <1>3, <1>4, EmptyCallStep DEF Next, CallWithoutData

-----------------------------------------------------------------------------
\* The inductive invariant of the receiver.
THEOREM Invariance == Spec => []Inv
<1> QED
  BY InitInv, NextStep, PTL DEF Spec

\* driver_super.c:1854, 1129: the position and the length of the candidate stay within the
\* buffer, the buffer is the last of what was received, and a footer is compared within its
\* length unless the length of the frame ends before its data.
THEOREM TypeCorrect == Spec => []ReceiverTypeOK
<1>1. Inv => ReceiverTypeOK
  <2> SUFFICES ASSUME Inv PROVE ReceiverTypeOK
    OBVIOUS
  <2>1. /\ config \in Configs /\ bytes \in Seq(Bytes) /\ stream \in Seq(Bytes) /\ Len(bytes) \in Nat
        /\ head \in Nat /\ confirmed \in Nat /\ head + confirmed <= Len(bytes)
        /\ Len(bytes) <= config.capacity
        /\ fixed \in BOOLEAN /\ pc \in {"idle", "pickup"} /\ BufferIsReceived
    BY LenProperties DEF Inv, Typed, Within
  <2>2. ASSUME PastData
        PROVE  InFooter \/ FrameSize <= BodyAt(config)
    BY <2>2, SizedFacts DEF InFooter, FooterIndex, PastData
  <2> QED
    BY <2>1, <2>2 DEF ReceiverTypeOK, Unprocessed
<1> QED
  BY <1>1, Invariance, PTL

\* driver_super.c:366: every frame is reported in exactly one call.
THEOREM FramesAreReportedOnce == Spec => []ReportedOnce
<1>1. Inv => ReportedOnce
  BY DEF Inv, Reports, ReportedOnce
<1> QED
  BY <1>1, Invariance, PTL

-----------------------------------------------------------------------------
(***************************************************************************)
(* The frames of a stream.                                                 *)
(***************************************************************************)
\* What c.footer says of the first n bytes of u.
EndsAt(u, n, c) == Agrees(SubSeq(u, 1, n), n - Footer(c), c.footer)

\* A footer at the end of the first n bytes, byte by byte.
LEMMA EndsAtIs ==
  ASSUME NEW c \in Configs, NEW u \in Seq(Bytes), NEW n \in Nat, n <= Len(u), n >= Footer(c)
  PROVE  EndsAt(u, n, c) <=> \A i \in 1..Footer(c) : u[n - Footer(c) + i] = c.footer[i]
<1> DEFINE first == SubSeq(u, 1, n)
<1>1. Footer(c) \in Nat /\ Len(c.footer) = Footer(c) /\ Len(u) \in Nat
  BY ConfigFacts, LenProperties DEF Footer
<1>2. Len(first) = n /\ \A i \in 1..n : first[i] = u[i]
  BY <1>1, SubSeqProperties
<1> HIDE DEF first
<1>3. EndsAt(u, n, c) <=> \A i \in 1..Footer(c) : n - Footer(c) + i <= n =>
                              first[n - Footer(c) + i] = c.footer[i]
  BY <1>1, <1>2 DEF EndsAt, Agrees, first
<1>4. \A i \in 1..Footer(c) : n - Footer(c) + i <= n /\ n - Footer(c) + i \in 1..n
  BY <1>1
<1> QED BY <1>2, <1>3, <1>4

\* The verdict on a candidate whose header is wrong.
LEMMA HeaderVerdict ==
  ASSUME NEW c \in Configs, NEW u \in Seq(Bytes), NEW i \in 1..Header(c), i <= Len(u),
         u[i] # c.header[i]
  PROVE  Verdict(u, c) = 0
<1>1. ~Agrees(u, 0, c.header)
  BY ConfigFacts DEF Agrees, Header
<1> QED BY <1>1 DEF Verdict

\* The verdict where the header is right so far.
LEMMA KindVerdict ==
  ASSUME NEW c \in Configs, NEW u \in Seq(Bytes), Agrees(u, 0, c.header)
  PROVE  /\ c.kind = "FIXED" => Verdict(u, c) = SizedVerdict(u, c.size, c)
         /\ c.kind = "LENGTH" => Verdict(u, c) = LengthVerdict(u, c)
         /\ c.kind = "FOOTER" => Verdict(u, c) = FooterVerdict(u, c)
BY DEF Verdict

\* The sizes at which a candidate may end that is searched for its footer.
Ends(u, c) == {n \in (Header(c) + Footer(c))..Len(u) : n <= c.max /\ EndsAt(u, n, c)}

LEMMA FooterVerdictIs ==
  ASSUME NEW c \in Configs, NEW u \in Seq(Bytes)
  PROVE  /\ Ends(u, c) = {} => FooterVerdict(u, c) = IF Len(u) > c.max THEN 0 ELSE -1
         /\ \A n \in Ends(u, c) : (\A k \in Ends(u, c) : n <= k) => FooterVerdict(u, c) = n
         /\ Ends(u, c) # {} => FooterVerdict(u, c) \in Ends(u, c)
<1>1. Ends(u, c) \in SUBSET Nat
  <2>1. Header(c) \in Nat /\ Footer(c) \in Nat /\ Len(u) \in Nat
    BY ConfigFacts, LenProperties
  <2> QED BY <2>1 DEF Ends
<1>2. FooterVerdict(u, c) =
          IF Ends(u, c) # {} THEN CHOOSE n \in Ends(u, c) : \A k \in Ends(u, c) : n <= k
          ELSE IF Len(u) > c.max THEN 0 ELSE -1
  BY DEF FooterVerdict, Ends, EndsAt
<1> DEFINE E == Ends(u, c)
<1>3. E # {} => Min(E) \in E /\ \A k \in E : Min(E) <= k
  <2> HIDE DEF E
  <2> QED BY <1>1, MinOfNats DEF E
<1>4. ASSUME NEW n \in E, NEW m \in E, \A k \in E : n <= k, \A k \in E : m <= k PROVE n = m
  <2>1. n <= m /\ m <= n /\ n \in Nat /\ m \in Nat
    BY <1>1, <1>4
  <2> QED BY <2>1
<1>5. FooterVerdict(u, c) = IF E # {} THEN CHOOSE n \in E : \A k \in E : n <= k
                            ELSE IF Len(u) > c.max THEN 0 ELSE -1
  BY <1>2
<1> HIDE DEF E
<1>6. E = {} => FooterVerdict(u, c) = IF Len(u) > c.max THEN 0 ELSE -1
  BY <1>5
<1>7. E # {} => FooterVerdict(u, c) \in E /\ \A k \in E : FooterVerdict(u, c) <= k
  BY <1>3, <1>5
<1>8. \A n \in E : (\A k \in E : n <= k) => FooterVerdict(u, c) = n
  BY <1>4, <1>7
<1> QED BY <1>6, <1>7, <1>8 DEF E

\* A verdict is none, not yet, or the size of a frame that has arrived.
LEMMA VerdictRange ==
  ASSUME NEW c \in Configs, NEW u \in Seq(Bytes)
  PROVE  Verdict(u, c) \in {-1, 0} \cup (1..Len(u))
<1>1. /\ Header(c) \in Nat /\ Footer(c) \in Nat /\ Len(u) \in Nat /\ c.size \in Int
      /\ c.kind \in {"FIXED", "LENGTH", "FOOTER"} /\ LengthEnd(c) = c.pos + 1 /\ c.pos \in Nat
      /\ c.offset \in Nat /\ LengthEnd(c) \in Nat /\ BodyAt(c) \in Nat
      /\ c.kind = "FIXED" => c.size > 0
      /\ c.kind = "LENGTH" => BodyAt(c) > 0
      /\ c.kind = "FOOTER" => Footer(c) > 0
  BY ConfigFacts, BodyFacts, LenProperties DEF LengthEnd
<1>2. ASSUME NEW n \in Int, n > 0 \/ BodyAt(c) > 0
      PROVE  SizedVerdict(u, n, c) \in {-1, 0} \cup (1..Len(u))
  BY <1>1, <1>2 DEF SizedVerdict
<1>3. CASE ~Agrees(u, 0, c.header)
  BY <1>3 DEF Verdict
<1>4. CASE Agrees(u, 0, c.header) /\ c.kind = "FIXED"
  BY <1>1, <1>2, <1>4, KindVerdict
<1>5. CASE Agrees(u, 0, c.header) /\ c.kind = "LENGTH"
  <2>1. CASE Len(u) < LengthEnd(c)
    BY <2>1, <1>5, KindVerdict DEF LengthVerdict
  <2>2. CASE ~(Len(u) < LengthEnd(c))
    <3>1. u[c.pos + 1] \in Nat
      <4>1. c.pos + 1 \in 1..Len(u)
        BY <1>1, <2>2
      <4> QED BY <4>1, ElementOfSeq, ReceiverAssumption
    <3>2. LengthAt(u, 0, c) \in Int /\ BodyAt(c) > 0
      <4>1. \A q \in Nat : 0 + q + 1 = q + 1
        OBVIOUS
      <4> QED BY <1>1, <1>5, <3>1, <4>1 DEF LengthAt
    <3>3. SizedVerdict(u, LengthAt(u, 0, c), c) \in {-1, 0} \cup (1..Len(u))
      BY <3>2, <1>2
    <3> QED BY <3>3, <1>5, KindVerdict DEF LengthVerdict
  <2> QED BY <2>1, <2>2
<1>6. CASE Agrees(u, 0, c.header) /\ c.kind = "FOOTER"
  <2>1. Verdict(u, c) = FooterVerdict(u, c)
    BY <1>6, KindVerdict
  <2>2. FooterVerdict(u, c) \in {-1, 0} \cup Ends(u, c)
    BY FooterVerdictIs
  <2>3. Ends(u, c) \subseteq 1..Len(u)
    BY <1>1, <1>6 DEF Ends
  <2> QED BY <2>1, <2>2, <2>3
<1> QED BY <1>1, <1>3, <1>4, <1>5, <1>6

\* The verdict on what begins at a place in s, and what the frames from there are.
VerdictAt(s, p, c) == Verdict(SubSeq(s, p + 1, Len(s)), c)
Behind(p, v, c) == IF c.strict THEN p + 1 ELSE p + v

LEMMA VerdictAtRange ==
  ASSUME NEW c \in Configs, NEW s \in Seq(Bytes), NEW p \in 0..Len(s)
  PROVE  VerdictAt(s, p, c) \in {-1, 0} \cup (1..(Len(s) - p))
<1>1. Len(s) \in Nat
  BY LenProperties
<1>2. SubSeq(s, p + 1, Len(s)) \in Seq(Bytes) /\ Len(SubSeq(s, p + 1, Len(s))) = Len(s) - p
  <2>1. p + 1 \in 1..(Len(s) + 1) /\ Len(s) \in (p + 1 - 1)..Len(s)
    BY <1>1
  <2>2. SubSeq(s, p + 1, Len(s)) \in Seq(Bytes)
    BY <2>1, SubSeqProperties
  <2>3. Len(SubSeq(s, p + 1, Len(s))) = IF p + 1 <= Len(s) THEN Len(s) - (p + 1) + 1 ELSE 0
    BY <1>1, <2>1, SubSeqProperties
  <2> QED BY <1>1, <2>2, <2>3
<1> QED BY <1>2, VerdictRange DEF VerdictAt


\* What the frames from p on are, made from those behind.
FramesAt(f, s, p, c) ==
    IF p = Len(s) \/ VerdictAt(s, p, c) = -1 THEN <<>>
    ELSE IF VerdictAt(s, p, c) = 0 THEN f[p + 1]
    ELSE <<[at |-> p, len |-> VerdictAt(s, p, c)]>> \o f[Behind(p, VerdictAt(s, p, c), c)]

\* The next place to look at is behind p and within s.
LEMMA BehindRange ==
  ASSUME NEW c \in Configs, NEW s \in Seq(Bytes), NEW p \in 0..Len(s), p # Len(s),
         VerdictAt(s, p, c) \notin {-1, 0}
  PROVE  /\ Behind(p, VerdictAt(s, p, c), c) \in (p + 1)..Len(s)
         /\ <<[at |-> p, len |-> VerdictAt(s, p, c)]>> \in Seq(Frame)
<1>1. Len(s) \in Nat
  BY LenProperties
<1>2. VerdictAt(s, p, c) \in 1..(Len(s) - p)
  BY VerdictAtRange
<1>3. [at |-> p, len |-> VerdictAt(s, p, c)] \in Frame
  BY <1>1, <1>2 DEF Frame
<1> QED BY <1>1, <1>2, <1>3 DEF Behind

LEMMA FramesAtIsFrames ==
  ASSUME NEW c \in Configs, NEW s \in Seq(Bytes), NEW p \in 0..Len(s), NEW f,
         \A q \in (p + 1)..Len(s) : f[q] \in Seq(Frame)
  PROVE  FramesAt(f, s, p, c) \in Seq(Frame)
<1>1. Len(s) \in Nat
  BY LenProperties
<1>2. CASE p = Len(s) \/ VerdictAt(s, p, c) = -1
  BY <1>2, EmptySeq DEF FramesAt
<1>3. CASE p # Len(s) /\ VerdictAt(s, p, c) = 0
  <2>1. p + 1 \in (p + 1)..Len(s)
    BY <1>1, <1>3
  <2> QED BY <2>1, <1>3 DEF FramesAt
<1>4. CASE p # Len(s) /\ VerdictAt(s, p, c) \notin {-1, 0}
  <2> DEFINE q == Behind(p, VerdictAt(s, p, c), c)
             one == <<[at |-> p, len |-> VerdictAt(s, p, c)]>>
  <2>1. q \in (p + 1)..Len(s) /\ one \in Seq(Frame)
    BY <1>4, BehindRange
  <2>2. FramesAt(f, s, p, c) = one \o f[q]
    BY <1>4 DEF FramesAt
  <2> HIDE DEF q, one
  <2>3. f[q] \in Seq(Frame)
    BY <2>1
  <2> QED BY <2>1, <2>2, <2>3, ConcatProperties
<1> QED BY <1>2, <1>3, <1>4

\* Two functions that agree behind p give the same frames from p on.
LEMMA FramesAtAgree ==
  ASSUME NEW c \in Configs, NEW s \in Seq(Bytes), NEW p \in 0..Len(s), NEW f, NEW g,
         \A q \in (p + 1)..Len(s) : f[q] = g[q]
  PROVE  FramesAt(f, s, p, c) = FramesAt(g, s, p, c)
<1>1. Len(s) \in Nat
  BY LenProperties
<1>2. CASE p = Len(s) \/ VerdictAt(s, p, c) = -1
  BY <1>2 DEF FramesAt
<1>3. CASE p # Len(s) /\ VerdictAt(s, p, c) = 0
  <2>1. p + 1 \in (p + 1)..Len(s)
    BY <1>1, <1>3
  <2> QED BY <2>1, <1>3 DEF FramesAt
<1>4. CASE p # Len(s) /\ VerdictAt(s, p, c) \notin {-1, 0}
  <2>1. Behind(p, VerdictAt(s, p, c), c) \in (p + 1)..Len(s)
    BY <1>4, BehindRange
  <2>2. f[Behind(p, VerdictAt(s, p, c), c)] = g[Behind(p, VerdictAt(s, p, c), c)]
    BY <2>1
  <2> QED BY <1>4, <2>2 DEF FramesAt
<1> QED BY <1>2, <1>3, <1>4

\* The frames of s exist: they are made from the end of s to its beginning.
LEMMA FramesExist ==
  ASSUME NEW c \in Configs, NEW s \in Seq(Bytes)
  PROVE  \E g \in [0..Len(s) -> Seq(Frame)] :
            \A p \in 0..Len(s) : g[p] = FramesAt(g, s, p, c)
<1> DEFINE N == Len(s)
           Made(g, m) == \A p \in (N - m)..N : g[p] = FramesAt(g, s, p, c)
           S == {m \in Nat : m <= N => \E g \in [(N - m)..N -> Seq(Frame)] : Made(g, m)}
<1>1. N \in Nat
  BY LenProperties
<1>2. 0 \in S
  <2> DEFINE g == [p \in (N - 0)..N |-> <<>>]
  <2>1. g \in [(N - 0)..N -> Seq(Frame)]
    BY EmptySeq
  <2>2. \A p \in (N - 0)..N : p = N
    BY <1>1
  <2>3. Made(g, 0)
    BY <2>2 DEF FramesAt
  <2> HIDE DEF g, Made
  <2> QED BY <2>1, <2>3
<1>3. ASSUME NEW m \in Nat, m \in S PROVE m + 1 \in S
  <2> SUFFICES ASSUME m + 1 <= N
               PROVE  \E g \in [(N - (m + 1))..N -> Seq(Frame)] : Made(g, m + 1)
    OBVIOUS
  <2>1. m <= N
    BY <1>1
  <2>2. PICK g \in [(N - m)..N -> Seq(Frame)] : Made(g, m)
    BY <1>3, <2>1
  <2> DEFINE first == N - (m + 1)
             h == [p \in first..N |-> IF p = first THEN FramesAt(g, s, first, c) ELSE g[p]]
  <2>3. first \in 0..N /\ first + 1 = N - m
    BY <1>1
  <2> HIDE DEF first
  <2>4. \A q \in (first + 1)..N : q \in (N - m)..N /\ q \in first..N /\ q # first /\ q \in 0..N
    BY <1>1, <2>3
  <2>5. \A q \in (first + 1)..N : g[q] \in Seq(Frame) /\ h[q] = g[q]
    BY <2>2, <2>4
  <2>6. FramesAt(g, s, first, c) \in Seq(Frame)
    BY <2>3, <2>5, FramesAtIsFrames
  <2>7. \A p \in first..N : p = first \/ p \in (first + 1)..N
    BY <1>1, <2>3
  <2>8. h \in [first..N -> Seq(Frame)]
    BY <2>5, <2>6, <2>7
  <2>9. ASSUME NEW p \in first..N PROVE h[p] = FramesAt(h, s, p, c)
    <3>1. p \in 0..N /\ \A q \in (p + 1)..N : q \in (first + 1)..N
      BY <1>1, <2>3
    <3>2. \A q \in (p + 1)..N : g[q] = h[q]
      BY <3>1, <2>5
    <3>3. FramesAt(g, s, p, c) = FramesAt(h, s, p, c)
      BY <3>1, <3>2, FramesAtAgree
    <3>4. CASE p = first
      BY <3>3, <3>4
    <3>5. CASE p # first
      <4>1. p \in (N - m)..N
        BY <2>4, <2>7, <3>5
      <4>2. g[p] = FramesAt(g, s, p, c)
        BY <4>1, <2>2
      <4> QED BY <4>2, <3>3, <3>5
    <3> QED BY <3>4, <3>5
  <2> HIDE DEF h
  <2>10. Made(h, m + 1)
    BY <2>9 DEF first
  <2> HIDE DEF Made
  <2> QED BY <2>8, <2>10 DEF first
<1> HIDE DEF S
<1>4. N \in S
  BY <1>1, <1>2, <1>3, NatSetInduction
<1>5. PICK g \in [(N - N)..N -> Seq(Frame)] : Made(g, N)
  BY <1>1, <1>4 DEF S
<1>6. N - N = 0
  BY <1>1
<1> QED BY <1>5, <1>6

\* The recursion that defines the frames is theirs.
LEMMA FramesAre ==
  ASSUME NEW c \in Configs, NEW s \in Seq(Bytes)
  PROVE  \A p \in 0..Len(s) : /\ FramesFrom(s, c)[p] = FramesAt(FramesFrom(s, c), s, p, c)
                              /\ FramesFrom(s, c)[p] \in Seq(Frame)
<1> DEFINE N == Len(s)
           Body(f) == [p \in 0..N |-> FramesAt(f, s, p, c)]
           frames == FramesFrom(s, c)
           S == {m \in Nat : m <= N => \A p \in (N - m)..N : frames[p] \in Seq(Frame)}
<1>1. frames = CHOOSE f : f = Body(f)
  BY DEF FramesFrom, FramesAt, VerdictAt, Behind
<1>2. N \in Nat
  BY LenProperties
<1>3. PICK g \in [0..N -> Seq(Frame)] : \A p \in 0..N : g[p] = FramesAt(g, s, p, c)
  BY FramesExist
<1>4. g = Body(g)
  BY <1>3
<1> HIDE DEF frames
<1>5. frames = Body(frames)
  <2> HIDE DEF Body
  <2> QED BY <1>1, <1>4
<1>6. \A p \in 0..N : frames[p] = FramesAt(frames, s, p, c)
  BY <1>5
<1>7. 0 \in S
  <2>1. \A p \in (N - 0)..N : p = N /\ p \in 0..N
    BY <1>2
  <2>2. \A p \in (N - 0)..N : frames[p] = <<>>
    BY <2>1, <1>6 DEF FramesAt
  <2> QED BY <2>2, EmptySeq
<1>8. ASSUME NEW m \in Nat, m \in S PROVE m + 1 \in S
  <2> SUFFICES ASSUME m + 1 <= N, NEW p \in (N - (m + 1))..N PROVE frames[p] \in Seq(Frame)
    OBVIOUS
  <2>1. m <= N /\ p \in 0..N /\ \A q \in (p + 1)..N : q \in (N - m)..N
    BY <1>2
  <2>2. \A q \in (p + 1)..N : frames[q] \in Seq(Frame)
    BY <1>8, <2>1
  <2> QED BY <1>6, <2>1, <2>2, FramesAtIsFrames
<1> HIDE DEF S
<1>9. N \in S
  BY <1>2, <1>7, <1>8, NatSetInduction
<1>10. \A p \in 0..N : frames[p] \in Seq(Frame)
  <2>1. N - N = 0 /\ N <= N
    BY <1>2
  <2> QED BY <1>9, <2>1 DEF S
<1> QED BY <1>6, <1>10 DEF frames

\* Candidates that are refuted are passed over.
LEMMA Refuted ==
  ASSUME NEW c \in Configs, NEW s \in Seq(Bytes), NEW a \in 0..Len(s), NEW b \in a..Len(s),
         \A q \in a..(b - 1) : VerdictAt(s, q, c) = 0
  PROVE  FramesFrom(s, c)[a] = FramesFrom(s, c)[b]
<1> DEFINE frames == FramesFrom(s, c)
           S == {m \in Nat : a + m <= b => frames[a] = frames[a + m]}
<1>1. a \in Nat /\ b \in Nat /\ Len(s) \in Nat
  BY LenProperties
<1> HIDE DEF frames
<1>2. 0 \in S
  BY <1>1
<1>3. ASSUME NEW m \in Nat, m \in S PROVE m + 1 \in S
  <2> SUFFICES ASSUME a + (m + 1) <= b PROVE frames[a] = frames[a + (m + 1)]
    OBVIOUS
  <2>1. /\ a + m <= b /\ a + m \in a..(b - 1) /\ a + m \in 0..Len(s) /\ a + m # Len(s)
        /\ (a + m) + 1 = a + (m + 1)
    BY <1>1
  <2>2. frames[a + m] = FramesAt(frames, s, a + m, c)
    BY <2>1, FramesAre DEF frames
  <2>3. VerdictAt(s, a + m, c) = 0
    BY <2>1
  <2>4. frames[a + m] = frames[(a + m) + 1]
    BY <2>1, <2>2, <2>3 DEF FramesAt
  <2> QED BY <1>3, <2>1, <2>4
<1> HIDE DEF S
<1>4. b - a \in S
  <2>1. b - a \in Nat
    BY <1>1
  <2> QED BY <2>1, <1>2, <1>3, NatSetInduction
<1>5. a + (b - a) = b
  BY <1>1
<1> QED BY <1>1, <1>4, <1>5 DEF S, frames


-----------------------------------------------------------------------------
(***************************************************************************)
(* The search, seen from the stream.                                       *)
(***************************************************************************)
\* t is what the stream is when further bytes arrive.
Extends(t, s) == Len(s) <= Len(t) /\ \A i \in 1..Len(s) : t[i] = s[i]

\* Where the search is in the stream: at its candidate, or where it goes on behind a frame.
Place == Len(stream) - Len(bytes) + head + FrameDropped

\* Whatever arrives, the frames of the stream are those found and the frames from here on.
Walked ==
    \A t \in Seq(Bytes) : Extends(t, stream) =>
        FramesFrom(t, config)[0] = found \o FramesFrom(t, config)[Place]

\* The candidate is a frame as far as it was confirmed, and has not ended before.
HeaderSeen == \A i \in 1..Header(config) : i <= confirmed => bytes[head + i] = config.header[i]
FooterSeen(n, k) ==
    \A i \in 1..Footer(config) : n - Footer(config) + i <= k =>
        bytes[head + n - Footer(config) + i] = config.footer[i]
\* The same, for what is compared of a footer where the data may not have begun.
EndSeen(n, k) ==
    \A i \in 1..Footer(config) :
        BodyAt(config) < n - Footer(config) + i /\ n - Footer(config) + i <= k =>
            bytes[head + n - Footer(config) + i] = config.footer[i]

Seen ==
    /\ HeaderSeen
    /\ HasSize => EndSeen(FrameSize, confirmed)
    /\ config.kind = "LENGTH" /\ HasSize => LengthFits(FrameSize, config)
    /\ config.kind = "FOOTER" =>
          /\ confirmed <= Header(config) \/ confirmed <= config.max
          /\ \A n \in (Header(config) + Footer(config))..confirmed : ~FooterSeen(n, n)

SearchInv == Inv /\ Walked /\ (~fixed => Seen)

\* What may follow from the h-th byte of the buffer on.
Candidate(u, h) ==
    /\ u \in Seq(Bytes) /\ Len(u) >= Len(bytes) - h
    /\ \A i \in 1..(Len(bytes) - h) : u[i] = bytes[h + i]

\* What follows in an extension of the stream is such.
LEMMA CandidateOf ==
  ASSUME Inv, NEW t \in Seq(Bytes), Extends(t, stream), NEW h \in 0..Len(bytes)
  PROVE  /\ Len(stream) - Len(bytes) + h \in 0..Len(t)
         /\ Len(stream) - Len(bytes) + h <= Len(stream)
         /\ \E u : /\ Candidate(u, h) /\ Len(u) = Len(t) - (Len(stream) - Len(bytes) + h)
                   /\ VerdictAt(t, Len(stream) - Len(bytes) + h, config) = Verdict(u, config)
<1> DEFINE p == Len(stream) - Len(bytes) + h
           u == SubSeq(t, p + 1, Len(t))
<1>1. /\ Len(stream) \in Nat /\ Len(bytes) \in Nat /\ Len(t) \in Nat /\ h \in Nat
      /\ Len(bytes) <= Len(stream) /\ Len(stream) <= Len(t) /\ h <= Len(bytes)
      /\ \A i \in 1..Len(bytes) : bytes[i] = stream[Len(stream) - Len(bytes) + i]
      /\ \A i \in 1..Len(stream) : t[i] = stream[i]
  BY LenProperties DEF Inv, Typed, BufferIsReceived, Extends
<1>2. p \in 0..Len(t) /\ p <= Len(stream) /\ p \in Nat /\ Len(t) - p >= Len(bytes) - h
  BY <1>1
<1> HIDE DEF p
<1>3. /\ u \in Seq(Bytes) /\ Len(u) = Len(t) - p
      /\ \A i \in 1..(Len(t) - p) : u[i] = t[p + i]
  <2>1. \A i \in (p + 1)..Len(t) : t[i] \in Bytes
    <3>1. \A i \in (p + 1)..Len(t) : i \in 1..Len(t)
      BY <1>1, <1>2
    <3> QED BY <3>1, ElementOfSeq
  <2>2. /\ u \in Seq(Bytes) /\ Len(u) = IF p + 1 <= Len(t) THEN Len(t) - (p + 1) + 1 ELSE 0
        /\ \A i \in 1..(Len(t) - (p + 1) + 1) : u[i] = t[p + 1 + i - 1]
    BY <1>1, <1>2, <2>1, SubSeqProperties
  <2> QED BY <1>1, <1>2, <2>2
<1>4. ASSUME NEW i \in 1..(Len(bytes) - h) PROVE u[i] = bytes[h + i]
  <2>1. i \in 1..(Len(t) - p) /\ h + i \in 1..Len(bytes) /\ p + i \in 1..Len(stream)
        /\ p + i = Len(stream) - Len(bytes) + (h + i)
    BY <1>1, <1>2 DEF p
  <2>2. u[i] = t[p + i] /\ t[p + i] = stream[p + i]
    BY <1>1, <1>3, <2>1
  <2>3. bytes[h + i] = stream[Len(stream) - Len(bytes) + (h + i)]
    BY <1>1, <2>1
  <2> HIDE DEF u
  <2> QED BY <2>1, <2>2, <2>3
<1>5. Candidate(u, h)
  <2> HIDE DEF u
  <2> QED BY <1>2, <1>3, <1>4 DEF Candidate
<1>6. VerdictAt(t, p, config) = Verdict(u, config)
  BY DEF VerdictAt
<1>7. Len(u) = Len(t) - p
  BY <1>3
<1> HIDE DEF u
<1> QED BY <1>2, <1>5, <1>6, <1>7 DEF p

\* The frames of an extension, and those from a place in the buffer on.
LEMMA FramesTyped ==
  ASSUME Inv, NEW t \in Seq(Bytes), NEW p \in 0..Len(t)
  PROVE  FramesFrom(t, config)[p] \in Seq(Frame)
BY FramesAre DEF Inv, Typed

\* Candidates were given up that are no frames, whatever follows.
LEMMA WalkOn ==
  ASSUME SearchInv, Inv', Picking, NEW h \in head..Len(bytes), head' = h,
         UNCHANGED <<config, bytes, fixed, stream, found>>,
         \A k \in head..(h - 1) : \A u : Candidate(u, k) => Verdict(u, config) = 0
  PROVE  Walked'
<1>1. /\ head \in Nat /\ Len(bytes) \in Nat /\ Len(stream) \in Nat /\ h \in Nat
      /\ h \in 0..Len(bytes) /\ head \in 0..Len(bytes) /\ head <= h
      /\ Len(bytes) <= Len(stream)
  BY LenProperties DEF SearchInv, Inv, Typed, Within, BufferIsReceived
<1>2. FrameDropped = 0 /\ FrameDropped' = 0
  BY DEF Picking, FrameDropped
<1>3. /\ config' = config /\ stream' = stream /\ found' = found /\ bytes' = bytes
  OBVIOUS
<1> DEFINE base == Len(stream) - Len(bytes)
<1>4. Place = base + head /\ Place' = base + h /\ base \in Nat
  BY <1>1, <1>2, <1>3 DEF Place
<1> SUFFICES ASSUME NEW t \in Seq(Bytes), Extends(t, stream)
             PROVE  FramesFrom(t, config)[0] = found \o FramesFrom(t, config)[base + h]
  BY <1>3, <1>4 DEF Walked
<1>5. FramesFrom(t, config)[0] = found \o FramesFrom(t, config)[base + head]
  BY <1>4 DEF SearchInv, Walked
<1>6. base + head \in 0..Len(t) /\ base + h \in (base + head)..Len(t)
  <2>1. base + h \in 0..Len(t)
    BY <1>1, CandidateOf DEF SearchInv
  <2> QED BY <1>1, <1>4, <2>1
<1>7. ASSUME NEW q \in (base + head)..(base + h - 1) PROVE VerdictAt(t, q, config) = 0
  <2> DEFINE k == q - base
  <2>1. k \in 0..Len(bytes) /\ k \in head..(h - 1) /\ base + k = q
    BY <1>1, <1>4
  <2> HIDE DEF k
  <2>2. PICK u : Candidate(u, k) /\ VerdictAt(t, Len(stream) - Len(bytes) + k, config) = Verdict(u, config)
    BY <2>1, CandidateOf DEF SearchInv
  <2>3. Verdict(u, config) = 0
    BY <2>1, <2>2
  <2> QED BY <2>1, <2>2, <2>3
<1> HIDE DEF base
<1>8. FramesFrom(t, config)[base + head] = FramesFrom(t, config)[base + h]
  <2>1. config \in Configs
    BY DEF SearchInv, Inv, Typed
  <2> DEFINE a == base + head
             b == base + h
  <2>2. a \in 0..Len(t) /\ b \in a..Len(t)
    BY <1>6
  <2>3. ASSUME NEW q \in a..(b - 1) PROVE VerdictAt(t, q, config) = 0
    <3>1. q \in (base + head)..(base + h - 1)
      BY <1>1, <1>4
    <3> QED BY <3>1, <1>7
  <2> HIDE DEF a, b
  <2>4. FramesFrom(t, config)[a] = FramesFrom(t, config)[b]
    BY <2>1, <2>2, <2>3, Refuted
  <2> QED BY <2>4 DEF a, b
<1> QED BY <1>5, <1>8

\* The candidate was found to be a frame, whatever follows.
LEMMA WalkFound ==
  ASSUME SearchInv, Inv', Picking, NEW n \in Nat, confirmed + n > 0, n <= Unprocessed,
         Confirm(n, "FIXED_FRAME"),
         \A u : Candidate(u, head) => Verdict(u, config) = confirmed + n
  PROVE  Walked'
<1>1. /\ head \in Nat /\ Len(bytes) \in Nat /\ Len(stream) \in Nat /\ confirmed \in Nat
      /\ head \in 0..Len(bytes) /\ Len(bytes) <= Len(stream) /\ config \in Configs
      /\ head + confirmed + n <= Len(bytes) /\ found \in Seq(Frame)
  <2>1. /\ head \in Nat /\ Len(bytes) \in Nat /\ Len(stream) \in Nat /\ confirmed \in Nat
        /\ head + confirmed <= Len(bytes) /\ Len(bytes) <= Len(stream) /\ config \in Configs
        /\ found \in Seq(Frame)
    BY LenProperties DEF SearchInv, Inv, Typed, Within, BufferIsReceived
  <2>2. n <= Len(bytes) - head - confirmed
    BY DEF Unprocessed
  <2> QED BY <2>1, <2>2
<1> DEFINE base == Len(stream) - Len(bytes)
           len == confirmed + n
           frame == [at |-> base + head, len |-> len]
<1>2. /\ config' = config /\ stream' = stream /\ bytes' = bytes /\ head' = head
      /\ fixed' = TRUE /\ confirmed' = len /\ found' = Append(found, frame)
  BY DEF Confirm
<1>3. base \in Nat /\ len \in Nat \ {0} /\ base + head \in Nat
  BY <1>1
<1>4. Place = base + head
  BY <1>1 DEF Picking, FrameDropped, Place
<1>5. Place' = Behind(base + head, len, config)
  <2>1. FrameDropped' = IF config.strict THEN 1 ELSE len
    BY <1>2 DEF FrameDropped
  <2>2. Place' = Len(stream) - Len(bytes) + head + FrameDropped'
    BY <1>2 DEF Place
  <2> HIDE DEF len
  <2> QED BY <1>1, <1>3, <2>1, <2>2 DEF Behind
<1>6. frame \in Frame
  BY <1>3 DEF Frame
<1> HIDE DEF frame
<1> SUFFICES ASSUME NEW t \in Seq(Bytes), Extends(t, stream)
             PROVE  FramesFrom(t, config)[0] = Append(found, frame) \o FramesFrom(t, config)[Place']
  BY <1>2 DEF Walked
<1> DEFINE frames == FramesFrom(t, config)
<1>7. frames[0] = found \o frames[base + head]
  BY <1>4 DEF SearchInv, Walked
<1>8. PICK u : Candidate(u, head) /\ VerdictAt(t, base + head, config) = Verdict(u, config)
  BY <1>1, CandidateOf DEF SearchInv
<1>9. VerdictAt(t, base + head, config) = len
  BY <1>8
<1> HIDE DEF len
<1>10. base + head \in 0..Len(t) /\ base + head # Len(t)
  <2>1. base + head \in 0..Len(t)
    BY <1>1, CandidateOf DEF SearchInv
  <2>2. len \in {-1, 0} \cup (1..(Len(t) - (base + head)))
    BY <1>1, <1>9, <2>1, VerdictAtRange
  <2> QED BY <1>3, <2>1, <2>2, LenProperties
<1>11. Behind(base + head, len, config) \in 0..Len(t)
  <2> DEFINE p == base + head
             v == VerdictAt(t, p, config)
  <2>1. p \in 0..Len(t) /\ p # Len(t) /\ v \notin {-1, 0} /\ v = len
    BY <1>3, <1>9, <1>10
  <2> HIDE DEF p
  <2>2. Behind(p, v, config) \in (p + 1)..Len(t)
    BY <1>1, <2>1, BehindRange
  <2>3. p \in Nat /\ p = base + head
    BY <1>3 DEF p
  <2> QED BY <2>1, <2>2, <2>3
<1>12. frames[base + head] = <<frame>> \o frames[Behind(base + head, len, config)]
  <2>1. frames[base + head] = FramesAt(frames, t, base + head, config)
    BY <1>1, <1>10, FramesAre
  <2> HIDE DEF frames, base
  <2> QED BY <1>3, <1>9, <1>10, <2>1 DEF FramesAt, frame
<1>13. frames[Place'] \in Seq(Frame)
  BY <1>5, <1>11, FramesTyped DEF SearchInv
<1> HIDE DEF frames
<1>14. <<frame>> \in Seq(Frame) /\ Append(found, frame) = found \o <<frame>>
  BY <1>1, <1>6, AppendIsConcat
<1>15. (found \o <<frame>>) \o frames[Place'] = found \o (<<frame>> \o frames[Place'])
  <2> DEFINE one == <<frame>>
             more == frames[Place']
  <2>1. one \in Seq(Frame) /\ more \in Seq(Frame)
    BY <1>13, <1>14
  <2> HIDE DEF one, more
  <2>2. (found \o one) \o more = found \o (one \o more)
    BY <1>1, <2>1, ConcatAssociative
  <2> QED BY <2>2 DEF one, more
<1> QED BY <1>5, <1>7, <1>12, <1>14, <1>15 DEF frames

\* The search has not moved, and what has arrived was not known before.
LEMMA WalkStays ==
  ASSUME SearchInv, config' = config, found' = found, Place' = Place,
         \A t \in Seq(Bytes) : Extends(t, stream') => Extends(t, stream)
  PROVE  Walked'
BY DEF SearchInv, Walked


\* What is at the end of a sequence, element by element.
LEMMA SuffixIs ==
  ASSUME NEW f \in Seq(Bytes), NEW g \in Seq(Bytes)
  PROVE  IsSuffix(f, g) <=> /\ Len(f) <= Len(g)
                            /\ \A i \in 1..Len(f) : g[Len(g) - Len(f) + i] = f[i]
<1> DEFINE m == Len(f)
           n == Len(g)
           rf == Reverse(f)
           rg == Reverse(g)
<1>1. m \in Nat /\ n \in Nat
  BY LenProperties
<1>2. /\ rf \in Seq(Bytes) /\ Len(rf) = m /\ \A i \in 1..m : rf[i] = f[m - i + 1]
  <2>1. \A i \in 1..m : m - i + 1 \in 1..m
    BY <1>1
  <2>2. \A i \in 1..m : f[m - i + 1] \in Bytes
    BY <2>1, ElementOfSeq
  <2>3. rf = [i \in 1..m |-> f[m - i + 1]]
    BY <1>1 DEF Reverse
  <2> HIDE DEF rf
  <2>4. rf \in Seq(Bytes) /\ Len(rf) = m
    BY <1>1, <2>2, <2>3, IsASeq
  <2> QED BY <2>3, <2>4
<1>3. /\ rg \in Seq(Bytes) /\ Len(rg) = n /\ \A i \in 1..n : rg[i] = g[n - i + 1]
  <2>1. \A i \in 1..n : n - i + 1 \in 1..n
    BY <1>1
  <2>2. \A i \in 1..n : g[n - i + 1] \in Bytes
    BY <2>1, ElementOfSeq
  <2>3. rg = [i \in 1..n |-> g[n - i + 1]]
    BY <1>1 DEF Reverse
  <2> HIDE DEF rg
  <2>4. rg \in Seq(Bytes) /\ Len(rg) = n
    BY <1>1, <2>2, <2>3, IsASeq
  <2> QED BY <2>3, <2>4
<1>4. IsSuffix(f, g) <=> Len(rf) <= Len(rg) /\ SubSeq(rf, 1, Len(rf)) = SubSeq(rg, 1, Len(rf))
  BY DEF IsSuffix, IsPrefix
<1> HIDE DEF rf, rg
<1> SUFFICES ASSUME m <= n
             PROVE  IsSuffix(f, g) <=> \A i \in 1..m : g[n - m + i] = f[i]
  BY <1>2, <1>3, <1>4
<1>5. /\ SubSeq(rf, 1, m) \in Seq(Bytes) /\ Len(SubSeq(rf, 1, m)) = m
      /\ \A i \in 1..m : SubSeq(rf, 1, m)[i] = rf[i]
  BY <1>1, <1>2, ElementOfSeq, SubSeqProperties
<1>6. /\ SubSeq(rg, 1, m) \in Seq(Bytes) /\ Len(SubSeq(rg, 1, m)) = m
      /\ \A i \in 1..m : SubSeq(rg, 1, m)[i] = rg[i]
  <2>1. \A i \in 1..m : rg[i] \in Bytes
    BY <1>1, <1>3, ElementOfSeq
  <2> QED BY <1>1, <2>1, SubSeqProperties
<1>7. IsSuffix(f, g) <=> \A i \in 1..m : rf[i] = rg[i]
  <2> DEFINE a == SubSeq(rf, 1, m)
             b == SubSeq(rg, 1, m)
  <2>1. /\ a \in Seq(Bytes) /\ b \in Seq(Bytes) /\ Len(a) = m /\ Len(b) = m
        /\ \A i \in 1..m : a[i] = rf[i] /\ b[i] = rg[i]
    BY <1>5, <1>6
  <2>2. IsSuffix(f, g) <=> a = b
    BY <1>1, <1>2, <1>3, <1>4
  <2> HIDE DEF a, b
  <2>3. (\A i \in 1..m : a[i] = b[i]) => a = b
    BY <2>1, SeqEqual
  <2> QED BY <2>1, <2>2, <2>3
<1>8. ASSUME \A i \in 1..m : rf[i] = rg[i], NEW i \in 1..m PROVE g[n - m + i] = f[i]
  <2>1. m - i + 1 \in 1..m /\ m - i + 1 \in 1..n /\ m - (m - i + 1) + 1 = i
        /\ n - (m - i + 1) + 1 = n - m + i
    BY <1>1
  <2>2. rf[m - i + 1] = f[i] /\ rg[m - i + 1] = g[n - m + i]
    BY <1>2, <1>3, <2>1
  <2> QED BY <1>8, <2>1, <2>2
<1>9. ASSUME \A i \in 1..m : g[n - m + i] = f[i], NEW i \in 1..m PROVE rf[i] = rg[i]
  <2>1. m - i + 1 \in 1..m /\ i \in 1..n /\ n - m + (m - i + 1) = n - i + 1
    BY <1>1
  <2>2. rf[i] = f[m - i + 1] /\ rg[i] = g[n - i + 1]
    BY <1>2, <1>3, <2>1
  <2> QED BY <1>9, <2>1, <2>2
<1> QED BY <1>7, <1>8, <1>9

-----------------------------------------------------------------------------
\* Within its header a candidate has neither a footer nor a length.
LEMMA SeenInHeader ==
  config \in Configs /\ confirmed \in Nat /\ confirmed <= Header(config) /\ HeaderSeen => Seen
<1> SUFFICES ASSUME config \in Configs, confirmed \in Nat, confirmed <= Header(config), HeaderSeen
             PROVE  Seen
  OBVIOUS
<1>1. /\ Header(config) \in Nat /\ Footer(config) \in Nat /\ config.kind \in {"FIXED", "LENGTH", "FOOTER"}
      /\ config.kind = "FIXED" => config.size \in Int /\ config.size >= Header(config) + Footer(config)
      /\ config.kind = "LENGTH" => Header(config) < LengthEnd(config)
      /\ config.kind = "FOOTER" => Footer(config) > 0
      /\ LengthEnd(config) \in Nat
  BY ConfigFacts
<1>2. HasSize => config.kind = "FIXED" /\ FrameSize = config.size
  BY <1>1 DEF HasSize, FrameSize
<1>3. HasSize => EndSeen(FrameSize, confirmed)
  <2> SUFFICES ASSUME HasSize, NEW i \in 1..Footer(config), FrameSize - Footer(config) + i <= confirmed
               PROVE  FALSE
    BY DEF EndSeen
  <2> QED BY <1>1, <1>2
<1>4. config.kind = "FOOTER" => (Header(config) + Footer(config))..confirmed = {}
  BY <1>1
<1> QED BY <1>1, <1>2, <1>3, <1>4 DEF Seen

\* What a candidate has shown does not depend on where the buffer begins.
LEMMA SeenStays ==
  ASSUME Inv, ~fixed, Seen, config' = config, confirmed' = confirmed, head' \in Nat,
         \A i \in 1..confirmed : bytes'[head' + i] = bytes[head + i]
  PROVE  Seen'
<1>1. /\ config \in Configs /\ confirmed \in Nat /\ head \in Nat
      /\ Header(config) \in Nat /\ Footer(config) \in Nat /\ config.kind \in {"FIXED", "LENGTH", "FOOTER"}
      /\ config.kind = "FIXED" => config.size \in Int /\ config.size >= Header(config) + Footer(config)
      /\ LengthEnd(config) = config.pos + 1 /\ config.pos \in Nat
      /\ config.kind = "FOOTER" => Footer(config) > 0
  BY ConfigFacts DEF Inv, Typed, LengthEnd
<1>2. HasSize' = HasSize
  BY DEF HasSize
<1>3. HasSize => FrameSize' = FrameSize
  <2>1. CASE config.kind = "FIXED"
    BY <2>1 DEF FrameSize
  <2>2. CASE config.kind = "LENGTH" /\ HasSize
    <3>1. config.pos + 1 \in 1..confirmed
      BY <1>1, <2>2 DEF HasSize
    <3>2. bytes'[head' + (config.pos + 1)] = bytes[head + (config.pos + 1)]
      BY <3>1
    <3>3. head' + (config.pos + 1) = head' + config.pos + 1 /\ head + (config.pos + 1) = head + config.pos + 1
      BY <1>1
    <3> QED BY <2>2, <3>2, <3>3 DEF FrameSize, LengthAt
  <2>3. CASE config.kind = "FOOTER"
    BY <2>3 DEF HasSize
  <2> QED BY <1>1, <2>1, <2>2, <2>3
<1>4. HeaderSeen'
  BY <1>1 DEF Seen, HeaderSeen
<1>5. HasSize => FrameSize \in Int /\ FrameSize >= Footer(config)
  <2>1. CASE config.kind = "FIXED"
    BY <1>1, <2>1 DEF FrameSize
  <2>2. CASE config.kind = "LENGTH" /\ HasSize
    <3>1. FrameSize \in Int /\ head + confirmed <= Len(bytes)
      <4>1. confirmed \in Nat /\ head + confirmed <= Len(bytes) /\ confirmed >= LengthEnd(config)
        BY <1>1, <2>2 DEF Inv, Within, HasSize
      <4> QED BY <2>2, <4>1, SizeFacts DEF Inv
    <3>2. LengthFits(FrameSize, config)
      BY <2>2 DEF Seen
    <3> QED BY <1>1, <3>1, <3>2 DEF LengthFits
  <2>3. CASE config.kind = "FOOTER"
    BY <2>3 DEF HasSize
  <2> QED BY <1>1, <2>1, <2>2, <2>3
<1>6. ASSUME NEW n \in Int, n >= Footer(config), NEW i \in 1..Footer(config),
             n - Footer(config) + i <= confirmed
      PROVE  bytes'[head' + n - Footer(config) + i] = bytes[head + n - Footer(config) + i]
  <2>1. n - Footer(config) + i \in 1..confirmed
    BY <1>1, <1>6
  <2>2. bytes'[head' + (n - Footer(config) + i)] = bytes[head + (n - Footer(config) + i)]
    BY <2>1
  <2>3. /\ head' + (n - Footer(config) + i) = head' + n - Footer(config) + i
        /\ head + (n - Footer(config) + i) = head + n - Footer(config) + i
    BY <1>1
  <2> QED BY <2>2, <2>3
<1>7. HasSize => (EndSeen(FrameSize, confirmed))'
  <2> SUFFICES ASSUME HasSize, NEW i \in 1..Footer(config),
                      BodyAt(config) < FrameSize - Footer(config) + i,
                      FrameSize - Footer(config) + i <= confirmed
               PROVE  bytes'[head' + FrameSize - Footer(config) + i] = config.footer[i]
    BY <1>2, <1>3 DEF EndSeen
  <2>1. bytes[head + FrameSize - Footer(config) + i] = config.footer[i]
    BY DEF Seen, EndSeen
  <2> QED BY <1>5, <1>6, <2>1
<1>8. ASSUME config.kind = "FOOTER", NEW n \in (Header(config) + Footer(config))..confirmed
      PROVE  ~(FooterSeen(n, n))'
  <2>1. n \in Int /\ n >= Footer(config) /\ n <= confirmed
    BY <1>1
  <2>2. PICK i \in 1..Footer(config) : /\ n - Footer(config) + i <= n
                                       /\ bytes[head + n - Footer(config) + i] # config.footer[i]
    BY <1>8 DEF Seen, FooterSeen
  <2>3. n - Footer(config) + i <= confirmed
    BY <1>1, <2>1
  <2>4. bytes'[head' + n - Footer(config) + i] # config.footer[i]
    BY <1>6, <2>1, <2>2, <2>3
  <2> QED BY <2>2, <2>4 DEF FooterSeen
<1> QED BY <1>2, <1>3, <1>4, <1>7, <1>8 DEF Seen


\* What SearchInv says, in numbers.
LEMMA SearchFacts ==
  ASSUME SearchInv, Picking
  PROVE  /\ config \in Configs /\ bytes \in Seq(Bytes) /\ head \in Nat /\ confirmed \in Nat
         /\ Len(bytes) \in Nat /\ head + confirmed <= Len(bytes) /\ Seen /\ ~fixed /\ Inv
         /\ Unprocessed = Len(bytes) - head - confirmed /\ Unprocessed > 0
         /\ Header(config) \in Nat /\ Footer(config) \in Nat
         /\ Len(config.footer) = Footer(config) /\ Len(config.header) = Header(config)
BY ConfigFacts, LenProperties DEF SearchInv, Inv, Typed, Within, Picking, Unprocessed, Header, Footer

\* Behind its header a candidate begins with the header, whatever follows.
LEMMA HeaderIsSeen ==
  ASSUME SearchInv, Picking, confirmed >= Header(config), NEW u, Candidate(u, head)
  PROVE  Agrees(u, 0, config.header)
<1>1. ASSUME NEW i \in 1..Header(config) PROVE u[i] = config.header[i]
  <2>1. i <= confirmed /\ i \in 1..(Len(bytes) - head)
    BY SearchFacts
  <2> QED BY <2>1, SearchFacts DEF Seen, HeaderSeen, Candidate
<1>2. \A i \in 1..Len(config.header) : 0 + i = i
  BY SearchFacts
<1> QED BY <1>1, <1>2, SearchFacts DEF Agrees

\* Where its size is known, the verdict depends on the footer alone.
LEMMA SizedIs ==
  ASSUME SearchInv, PastHeader, HasSize, NEW u, Candidate(u, head)
  PROVE  Verdict(u, config) = SizedVerdict(u, FrameSize, config)
<1>1. Picking /\ confirmed >= Header(config)
  BY DEF PastHeader
<1>2. Agrees(u, 0, config.header) /\ u \in Seq(Bytes) /\ Len(u) \in Nat /\ Len(u) >= Len(bytes) - head
  BY <1>1, HeaderIsSeen, LenProperties DEF Candidate
<1>3. CASE config.kind = "FIXED"
  BY <1>1, <1>2, <1>3, KindVerdict, SearchFacts DEF FrameSize
<1>4. CASE config.kind = "LENGTH" /\ confirmed >= LengthEnd(config)
  <2>1. LengthEnd(config) = config.pos + 1 /\ config.pos \in Nat /\ config.capacity \in Nat
    BY <1>1, ConfigFacts, SearchFacts DEF LengthEnd
  <2>2. ~(Len(u) < LengthEnd(config)) /\ config.pos + 1 \in 1..(Len(bytes) - head)
    BY <1>1, <1>2, <1>4, <2>1, SearchFacts
  <2>3. u[config.pos + 1] = bytes[head + (config.pos + 1)] /\ head + (config.pos + 1) = head + config.pos + 1
    BY <1>1, <2>1, <2>2, SearchFacts DEF Candidate
  <2>4. FrameSize = LengthAt(u, 0, config)
    <3>1. \A q \in Nat : 0 + q + 1 = q + 1
      OBVIOUS
    <3> QED BY <1>4, <2>1, <2>3, <3>1 DEF FrameSize, LengthAt
  <2>5. FrameSize \in Int
    BY <1>1, <1>4, SizeFacts, SearchFacts DEF Inv
  <2>6. FrameSize \in (Header(config) + Footer(config))..Least(config.max, config.capacity)
    <3>1. /\ FrameSize <= config.max /\ FrameSize <= config.capacity
          /\ FrameSize >= Header(config) + Footer(config)
          /\ Header(config) \in Nat /\ Footer(config) \in Nat
      BY <1>1, <1>4, SearchFacts DEF Seen, HasSize, LengthFits
    <3>2. config.max \in Nat /\ config.capacity \in Nat
      BY <1>1, SearchFacts, ReceiverAssumption DEF Valid
    <3> QED BY <2>5, <3>1, <3>2 DEF Least
  <2>7. Verdict(u, config) = LengthVerdict(u, config)
    BY <1>1, <1>2, <1>4, KindVerdict, SearchFacts
  <2> QED BY <2>2, <2>4, <2>6, <2>7 DEF LengthVerdict
<1> QED BY <1>3, <1>4 DEF HasSize

\* The rounds of the search keep SearchInv if they keep what is new in it.
LEMMA ConfirmWalks ==
  ASSUME SearchInv, Picking, NEW n \in Nat, NEW s, s # "FIXED_FRAME", Confirm(n, s)
  PROVE  Walked'
<1>1. /\ config' = config /\ bytes' = bytes /\ head' = head /\ stream' = stream
      /\ fixed' = FALSE /\ found' = found
  BY DEF Confirm
<1>2. Place' = Place
  BY <1>1, SearchFacts DEF Place, FrameDropped
<1> QED BY <1>1, <1>2, WalkStays

LEMMA MismatchSearch ==
  ASSUME SearchInv, Inv', Picking, Mismatch, \A u : Candidate(u, head) => Verdict(u, config) = 0
  PROVE  SearchInv'
<1>1. /\ head' = head + 1 /\ confirmed' = 0
      /\ config' = config /\ bytes' = bytes /\ fixed' = fixed /\ stream' = stream /\ found' = found
  BY DEF Mismatch
<1>2. Walked'
  <2> DEFINE h == head + 1
  <2>1. h \in head..Len(bytes) /\ head' = h /\ \A k \in head..(h - 1) : k = head
    BY <1>1, SearchFacts
  <2>2. \A k \in head..(h - 1) : \A u : Candidate(u, k) => Verdict(u, config) = 0
    BY <2>1
  <2>3. UNCHANGED <<config, bytes, fixed, stream, found>>
    BY <1>1
  <2> HIDE DEF h
  <2> QED BY <2>1, <2>2, <2>3, WalkOn
<1>3. Seen'
  <2>1. HeaderSeen'
    BY <1>1, SearchFacts DEF HeaderSeen
  <2>2. (config \in Configs)' /\ (confirmed \in Nat)' /\ (confirmed <= Header(config))'
    BY <1>1, SearchFacts
  <2> QED BY <2>1, <2>2, SeenInHeader, PTL
<1> QED BY <1>2, <1>3 DEF SearchInv

\* The first byte of a header.
LEMMA FindHeaderSearch ==
  ASSUME SearchInv, Inv', FindHeader
  PROVE  SearchInv'
<1> DEFINE I == {i \in (head + 1)..Len(bytes) : bytes[i] = config.header[1]}
           place == IF I # {} THEN Min(I) ELSE 0
<1>1. Picking /\ Header(config) > 0
  BY DEF FindHeader
<1>2. /\ head' = IF place = 0 THEN Len(bytes) ELSE place - 1
      /\ confirmed' = IF place = 0 THEN 0 ELSE 1
      /\ config' = config /\ bytes' = bytes /\ fixed' = fixed /\ stream' = stream /\ found' = found
  BY DEF FindHeader, SelectInSubSeq
<1>3. /\ I = {} => place = 0
      /\ I # {} => place \in I /\ \A i \in I : place <= i
  <2>1. I \in SUBSET Nat
    BY <1>1, SearchFacts
  <2>2. I # {} => Min(I) \in I /\ \A i \in I : Min(I) <= i
    <3> HIDE DEF I
    <3> QED BY <2>1, MinOfNats
  <2> QED
    BY <2>2
<1>4. /\ head' \in head..Len(bytes)
      /\ \A k \in head..(head' - 1) : bytes[k + 1] # config.header[1]
      /\ confirmed' = 0 \/ (confirmed' = 1 /\ bytes[head' + 1] = config.header[1])
  <2>1. CASE place = 0
    <3>1. I = {}
      BY <1>1, <1>3, <2>1, SearchFacts
    <3>2. \A k \in head..(Len(bytes) - 1) : k + 1 \in (head + 1)..Len(bytes)
      BY <1>1, SearchFacts
    <3>3. \A k \in head..(Len(bytes) - 1) : bytes[k + 1] # config.header[1]
      BY <3>1, <3>2
    <3> HIDE DEF I, place
    <3> QED BY <1>1, <1>2, <2>1, <3>3, SearchFacts
  <2>2. CASE place # 0
    <3>1. place \in (head + 1)..Len(bytes) /\ bytes[place] = config.header[1]
      BY <1>3, <2>2
    <3>2. ASSUME NEW k \in head..(place - 1 - 1) PROVE bytes[k + 1] # config.header[1]
      <4>1. k + 1 \in (head + 1)..Len(bytes) /\ ~(place <= k + 1)
        <5>1. head \in Nat /\ Len(bytes) \in Nat
          BY <1>1, SearchFacts
        <5> HIDE DEF I, place
        <5> QED BY <3>1, <5>1
      <4>2. k + 1 \notin I
        BY <1>3, <4>1
      <4> QED BY <4>1, <4>2
    <3> HIDE DEF I, place
    <3>3. (place - 1) + 1 = place /\ place - 1 \in head..Len(bytes)
      BY <1>1, <3>1, SearchFacts
    <3> QED BY <1>2, <2>2, <3>1, <3>2, <3>3
  <2> QED BY <2>1, <2>2
<1> HIDE DEF I, place
<1>5. Walked'
  <2> DEFINE h == head'
  <2>1. ASSUME NEW k \in head..(h - 1), NEW u, Candidate(u, k) PROVE Verdict(u, config) = 0
    <3>1. 1 \in 1..(Len(bytes) - k) /\ 1 \in 1..Header(config) /\ k \in Nat
      <4>1. head' \in head..Len(bytes)
        BY <1>4
      <4>2. head \in Nat /\ Len(bytes) \in Nat /\ Header(config) \in Nat
        BY <1>1, SearchFacts
      <4>3. k \in Nat /\ k <= Len(bytes) - 1
        <5>1. h \in Nat /\ h <= Len(bytes)
          BY <4>1, <4>2
        <5> HIDE DEF h
        <5> QED BY <4>2, <5>1
      <4>4. 1 \in 1..Header(config)
        BY <1>1, <4>2
      <4> QED BY <4>2, <4>3, <4>4
    <3>2. u[1] = bytes[k + 1] /\ u \in Seq(Bytes) /\ 1 <= Len(u)
      BY <1>1, <2>1, <3>1, SearchFacts, LenProperties DEF Candidate
    <3>3. u[1] # config.header[1]
      BY <1>4, <3>2
    <3> QED BY <1>1, <3>1, <3>2, <3>3, HeaderVerdict, SearchFacts
  <2>2. UNCHANGED <<config, bytes, fixed, stream, found>>
    BY <1>2
  <2>3. h \in head..Len(bytes) /\ head' = h
    BY <1>4
  <2> HIDE DEF h
  <2> QED BY <1>1, <2>1, <2>2, <2>3, WalkOn
<1>6. Seen'
  <2>1. HeaderSeen'
    <3> SUFFICES ASSUME NEW i \in 1..Header(config), i <= confirmed' PROVE bytes'[head' + i] = config.header[i]
      BY <1>2 DEF HeaderSeen
    <3>1. i = 1 /\ confirmed' = 1
      BY <1>1, <1>4, SearchFacts
    <3> QED BY <1>2, <1>4, <3>1
  <2>2. (config \in Configs)' /\ (confirmed \in Nat)' /\ (confirmed <= Header(config))'
    BY <1>1, <1>2, SearchFacts
  <2> QED BY <2>1, <2>2, SeenInHeader, PTL
<1> QED BY <1>5, <1>6 DEF SearchInv

\* The rest of the header.
LEMMA HeaderSearch ==
  ASSUME SearchInv, Inv', ReceiveHeader
  PROVE  SearchInv'
<1>1. Picking /\ 0 < confirmed /\ confirmed < Header(config)
  BY DEF ReceiveHeader
<1>2. confirmed + 1 \in 1..Header(config) /\ confirmed + 1 \in 1..(Len(bytes) - head)
  BY <1>1, SearchFacts
<1>3. ByteAt(confirmed) = bytes[head + (confirmed + 1)]
  <2>1. head + confirmed + 1 = head + (confirmed + 1)
    BY <1>1, SearchFacts
  <2> QED BY <2>1 DEF ByteAt
<1>4. CASE ByteAt(confirmed) # config.header[confirmed + 1]
  <2>1. ASSUME NEW u, Candidate(u, head) PROVE Verdict(u, config) = 0
    <3>1. u[confirmed + 1] # config.header[confirmed + 1] /\ u \in Seq(Bytes) /\ confirmed + 1 <= Len(u)
      BY <1>1, <1>2, <1>3, <1>4, <2>1, SearchFacts, LenProperties DEF Candidate
    <3> QED BY <1>1, <1>2, <3>1, HeaderVerdict, SearchFacts
  <2>2. Mismatch
    BY <1>4 DEF ReceiveHeader
  <2> QED BY <1>1, <2>1, <2>2, MismatchSearch
<1>5. CASE ByteAt(confirmed) = config.header[confirmed + 1]
  <2>1. Confirm(1, "RECEIVING_HEADER")
    BY <1>5 DEF ReceiveHeader
  <2>2. /\ config' = config /\ bytes' = bytes /\ head' = head /\ confirmed' = confirmed + 1
        /\ fixed' = FALSE
    BY <2>1 DEF Confirm
  <2>3. Walked'
    BY <1>1, <2>1, ConfirmWalks
  <2>4. HeaderSeen'
    <3> SUFFICES ASSUME NEW i \in 1..Header(config), i <= confirmed + 1 PROVE bytes[head + i] = config.header[i]
      BY <2>2 DEF HeaderSeen
    <3>1. CASE i <= confirmed
      BY <1>1, <3>1, SearchFacts DEF Seen, HeaderSeen
    <3>2. CASE i = confirmed + 1
      BY <1>3, <1>5, <3>2
    <3> QED BY <1>1, <3>1, <3>2, SearchFacts
  <2>5. (config \in Configs)' /\ (confirmed \in Nat)' /\ (confirmed <= Header(config))'
    BY <1>1, <1>2, <2>2, SearchFacts
  <2>6. Seen'
    BY <2>4, <2>5, SeenInHeader, PTL
  <2> QED BY <2>3, <2>6 DEF SearchInv
<1> QED BY <1>4, <1>5


\* A header that was seen is seen in what follows, too.
LEMMA HeaderStays ==
  ASSUME SearchInv, Picking, confirmed >= Header(config), config' = config, bytes' = bytes, head' = head
  PROVE  HeaderSeen'
<1>1. \A i \in 1..Header(config) : bytes[head + i] = config.header[i]
  BY SearchFacts DEF Seen, HeaderSeen
<1> QED BY <1>1 DEF HeaderSeen

\* The candidate was found to be a frame.
LEMMA FoundSearch ==
  ASSUME SearchInv, Inv', Picking, NEW n \in Nat, confirmed + n > 0, n <= Unprocessed,
         Confirm(n, "FIXED_FRAME"),
         \A u : Candidate(u, head) => Verdict(u, config) = confirmed + n
  PROVE  SearchInv'
<1>1. Walked'
  BY WalkFound
<1>2. fixed'
  BY DEF Confirm
<1> QED BY <1>1, <1>2 DEF SearchInv

\* The length.
LEMMA LengthSearch ==
  ASSUME SearchInv, Inv', ReceiveLength
  PROVE  SearchInv'
<1> DEFINE n == Arrived(LengthEnd(config) - confirmed)
           size == LengthAt(bytes, head, config)
           fits == LengthFits(size, config)
<1>1. /\ config.kind = "LENGTH" /\ PastHeader /\ Picking /\ confirmed < LengthEnd(config)
      /\ confirmed >= Header(config)
  BY DEF ReceiveLength, PastHeader
<1>7. IF confirmed + n = LengthEnd(config) /\ ~fits THEN Mismatch ELSE Confirm(n, "RECEIVING_FRAMELENGTH")
  BY DEF ReceiveLength
<1>2. /\ LengthEnd(config) = config.pos + 1 /\ config.pos \in Nat /\ LengthEnd(config) \in Nat
      /\ config.offset \in Nat /\ BodyAt(config) = LengthEnd(config)
      /\ Header(config) < LengthEnd(config) /\ config.capacity \in Nat /\ config.max \in Nat
  BY <1>1, ConfigFacts, BodyFacts, SearchFacts, ReceiverAssumption DEF LengthEnd, Valid
<1>8. /\ confirmed \in Nat /\ head \in Nat /\ Len(bytes) \in Nat /\ bytes \in Seq(Bytes)
      /\ Unprocessed = Len(bytes) - head - confirmed /\ Footer(config) \in Nat
      /\ Header(config) \in Nat /\ Inv
  BY <1>1, SearchFacts
<1>3. n \in Nat /\ n > 0 /\ n <= Unprocessed /\ n <= LengthEnd(config) - confirmed
  <2>1. LengthEnd(config) - confirmed \in Int /\ LengthEnd(config) - confirmed > 0
    BY <1>1, <1>2, <1>8
  <2> QED BY <1>1, <1>8, <2>1, ArrivedFacts
<1> HIDE DEF n
<1>9. confirmed < LengthEnd(config)
  BY <1>1
<1>4. ASSUME confirmed + n = LengthEnd(config)
      PROVE  /\ bytes[head + config.pos + 1] \in Nat
             /\ size = bytes[head + config.pos + 1] + config.offset
             /\ size \in Nat
             /\ fits <=> size \in (Header(config) + Footer(config))..Least(config.max, config.capacity)
  <2>1. head + config.pos + 1 \in 1..Len(bytes)
    <3>1. head + confirmed + n <= Len(bytes)
      BY <1>3, <1>8
    <3>2. head + config.pos + 1 = head + confirmed + n
      <4>1. config.pos + 1 = confirmed + n
        BY <1>2, <1>4
      <4> DEFINE p == config.pos
      <4>2. p \in Nat /\ p + 1 = confirmed + n
        BY <1>2, <4>1
      <4> HIDE DEF p
      <4>3. head + p + 1 = head + confirmed + n
        BY <1>3, <1>8, <4>2
      <4> QED BY <4>3 DEF p
    <3> QED BY <1>2, <1>8, <3>1, <3>2
  <2>2. bytes[head + config.pos + 1] \in Nat
    BY <1>8, <2>1, ElementOfSeq, ReceiverAssumption
  <2>3. size = bytes[head + config.pos + 1] + config.offset
    BY DEF LengthAt
  <2> HIDE DEF size
  <2>4. size \in Nat
    BY <1>2, <2>2, <2>3
  <2>5. fits <=> size \in (Header(config) + Footer(config))..Least(config.max, config.capacity)
    BY <1>2, <1>8, <2>4 DEF LengthFits, Least
  <2> QED BY <2>2, <2>3, <2>4, <2>5
<1> HIDE DEF size, fits
<1>5. CASE confirmed + n = LengthEnd(config) /\ ~fits
  <2>1. ASSUME NEW u, Candidate(u, head) PROVE Verdict(u, config) = 0
    <3>1. Agrees(u, 0, config.header) /\ u \in Seq(Bytes) /\ Len(u) \in Nat /\ Len(u) >= Len(bytes) - head
      BY <1>1, <2>1, HeaderIsSeen, LenProperties DEF Candidate
    <3>2. Verdict(u, config) = LengthVerdict(u, config)
      BY <1>1, <3>1, KindVerdict, SearchFacts
    <3>3. ~(Len(u) < LengthEnd(config)) /\ config.pos + 1 \in 1..(Len(bytes) - head)
      BY <1>2, <1>3, <1>5, <1>8, <3>1
    <3>4. u[config.pos + 1] = bytes[head + (config.pos + 1)] /\ head + (config.pos + 1) = head + config.pos + 1
      <4>1. head + (config.pos + 1) = head + config.pos + 1
        BY <1>2, <1>8
      <4>2. \A i \in 1..(Len(bytes) - head) : u[i] = bytes[head + i]
        BY <2>1 DEF Candidate
      <4> QED BY <3>3, <4>1, <4>2
    <3>5. LengthAt(u, 0, config) = size
      <4>1. \A q \in Nat : 0 + q + 1 = q + 1
        OBVIOUS
      <4> QED BY <1>2, <1>4, <1>5, <3>4, <4>1 DEF LengthAt
    <3>6. size \notin (Header(config) + Footer(config))..Least(config.max, config.capacity)
      BY <1>4, <1>5
    <3> QED BY <3>2, <3>3, <3>5, <3>6 DEF LengthVerdict
  <2>2. Mismatch
    BY <1>5, <1>7
  <2> QED BY <1>1, <2>1, <2>2, MismatchSearch
<1>6. CASE ~(confirmed + n = LengthEnd(config) /\ ~fits)
  <2>1. Confirm(n, "RECEIVING_FRAMELENGTH")
    BY <1>6, <1>7
  <2>2. /\ config' = config /\ bytes' = bytes /\ head' = head /\ confirmed' = confirmed + n
    BY <2>1 DEF Confirm
  <2>3. Walked'
    BY <1>1, <1>3, <2>1, ConfirmWalks
  <2>4. HeaderSeen'
    BY <1>1, <2>2, HeaderStays
  <2>5. HasSize' => confirmed + n = LengthEnd(config) /\ FrameSize' = size /\ fits
    <3>1. HasSize' => confirmed + n = LengthEnd(config)
      <4>1. HasSize' => confirmed + n >= LengthEnd(config)
        BY <1>1, <2>2 DEF HasSize
      <4> QED BY <1>2, <1>3, <1>8, <4>1
    <3>2. FrameSize' = size
      BY <1>1, <2>2 DEF FrameSize, LengthAt, size
    <3> QED BY <1>6, <3>1, <3>2
  <2>6. HasSize' => EndSeen(FrameSize, confirmed)'
    <3> SUFFICES ASSUME HasSize', NEW i \in 1..Footer(config),
                        LengthEnd(config) < size - Footer(config) + i,
                        size - Footer(config) + i <= confirmed + n
                 PROVE  FALSE
      BY <1>2, <2>2, <2>5 DEF EndSeen, BodyAt
    <3> QED BY <1>2, <1>4, <1>8, <2>5
  <2>7. Seen'
    BY <1>1, <2>2, <2>4, <2>5, <2>6 DEF Seen, fits
  <2> QED BY <2>3, <2>7 DEF SearchInv
<1> QED BY <1>5, <1>6

\* A frame whose size is known grows, with what was seen of its footer.
LEMMA GrowSearch ==
  ASSUME SearchInv, Inv', PastHeader, HasSize, NEW n \in Nat, NEW s, s # "FIXED_FRAME", Confirm(n, s),
         EndSeen(FrameSize, confirmed + n)
  PROVE  SearchInv'
<1>1. Picking /\ confirmed >= Header(config)
  BY DEF PastHeader
<1>2. /\ config' = config /\ bytes' = bytes /\ head' = head /\ confirmed' = confirmed + n
  BY DEF Confirm
<1>3. Walked'
  BY <1>1, ConfirmWalks
<1>4. HeaderSeen'
  BY <1>1, <1>2, HeaderStays
<1>5. FrameSize' = FrameSize
  BY <1>2 DEF FrameSize
<1>6. EndSeen(FrameSize, confirmed)'
  BY <1>2, <1>5 DEF EndSeen, BodyAt
<1>7. config.kind # "FOOTER" /\ (config.kind = "LENGTH" => LengthFits(FrameSize, config))
  BY <1>1, SearchFacts DEF HasSize, Seen
<1>8. Seen'
  BY <1>2, <1>4, <1>5, <1>6, <1>7 DEF Seen
<1> QED BY <1>3, <1>8 DEF SearchInv

\* The size of a frame that has one has room for its header and footer.
LEMMA SizeHasFooter ==
  ASSUME SearchInv, PastHeader, HasSize
  PROVE  /\ FrameSize \in Int /\ FrameSize >= Footer(config)
         /\ BodyAt(config) \in Nat /\ confirmed >= BodyAt(config)
         /\ FrameSize > BodyAt(config) => confirmed < FrameSize
<1>1. Picking /\ config.kind # "FOOTER"
  BY DEF PastHeader, HasSize
<1>2. /\ FrameSize \in Int /\ BodyAt(config) \in Nat /\ confirmed >= BodyAt(config)
      /\ FrameSize > BodyAt(config) => confirmed < FrameSize
  BY <1>1, SizedFacts, SearchFacts
<1>3. CASE config.kind = "FIXED"
  BY <1>1, <1>2, <1>3, ConfigFacts, SearchFacts DEF FrameSize
<1>4. CASE config.kind = "LENGTH"
  BY <1>1, <1>2, <1>4, SearchFacts DEF Seen, LengthFits
<1> QED BY <1>1, <1>2, <1>3, <1>4, ConfigFacts, SearchFacts

\* All of a frame whose size is known has arrived.
LEMMA WholeFrame ==
  ASSUME SearchInv, PastHeader, HasSize, FrameSize <= Len(bytes) - head, FrameSize > BodyAt(config),
         EndSeen(FrameSize, FrameSize), NEW u, Candidate(u, head)
  PROVE  Verdict(u, config) = FrameSize
<1>1. Picking
  BY DEF PastHeader
<1>2. /\ FrameSize \in Int /\ FrameSize >= Footer(config)
      /\ u \in Seq(Bytes) /\ Len(u) \in Nat /\ Len(u) >= Len(bytes) - head
  BY <1>1, SizeHasFooter, LenProperties DEF Candidate
<1>3. ASSUME NEW i \in 1..Footer(config), BodyAt(config) < FrameSize - Footer(config) + i
      PROVE  u[FrameSize - Footer(config) + i] = config.footer[i]
  <2> DEFINE j == FrameSize - Footer(config) + i
  <2>1. j \in 1..(Len(bytes) - head) /\ j <= FrameSize /\ head + j = head + FrameSize - Footer(config) + i
    BY <1>1, <1>2, SearchFacts
  <2>2. bytes[head + FrameSize - Footer(config) + i] = config.footer[i]
    BY <1>3, <2>1 DEF EndSeen
  <2>3. u[j] = bytes[head + j]
    BY <2>1 DEF Candidate
  <2> QED BY <2>1, <2>2, <2>3
<1>4. ~FooterRefuted(u, FrameSize, config)
  BY <1>3 DEF FooterRefuted
<1>5. Len(u) >= FrameSize
  BY <1>1, <1>2, SearchFacts
<1> QED BY <1>4, <1>5, SizedIs DEF SizedVerdict

\* The data behind the header or the length.
LEMMA DataSearch ==
  ASSUME SearchInv, Inv', ReceiveData
  PROVE  SearchInv'
<1> DEFINE n == Arrived(FrameSize - Footer(config) - confirmed)
<1>1. /\ PastHeader /\ HasSize /\ Picking /\ confirmed < FrameSize - Footer(config)
      /\ Confirm(n, DataStatus(n))
  BY DEF ReceiveData, PastHeader
<1>2. /\ FrameSize \in Int /\ FrameSize >= Footer(config) /\ FrameSize > BodyAt(config)
      /\ FrameSize - Footer(config) - confirmed > 0
  BY <1>1, SizeHasFooter, SearchFacts
<1>3. n \in Nat /\ n > 0 /\ n <= Unprocessed /\ n <= FrameSize - Footer(config) - confirmed
  BY <1>1, <1>2, ArrivedFacts, SearchFacts
<1> HIDE DEF n
<1>4. EndSeen(FrameSize, confirmed + n)
  <2> SUFFICES ASSUME NEW i \in 1..Footer(config), FrameSize - Footer(config) + i <= confirmed + n
               PROVE  FALSE
    BY DEF EndSeen
  <2> QED BY <1>1, <1>2, <1>3, SearchFacts
<1>5. CASE Footer(config) = 0 /\ confirmed + n = FrameSize
  <2>1. Confirm(n, "FIXED_FRAME")
    BY <1>1, <1>5 DEF DataStatus
  <2>2. FrameSize <= Len(bytes) - head /\ EndSeen(FrameSize, FrameSize) /\ confirmed + n > 0
    BY <1>1, <1>3, <1>4, <1>5, SearchFacts
  <2>3. \A u : Candidate(u, head) => Verdict(u, config) = confirmed + n
    BY <1>1, <1>2, <1>5, <2>2, WholeFrame
  <2> QED BY <1>1, <1>3, <2>1, <2>2, <2>3, FoundSearch
<1>6. CASE ~(Footer(config) = 0 /\ confirmed + n = FrameSize)
  <2>1. Confirm(n, "RECEIVING_DATA") /\ "RECEIVING_DATA" # "FIXED_FRAME"
    BY <1>1, <1>6 DEF DataStatus
  <2> QED BY <1>1, <1>3, <1>4, <2>1, GrowSearch
<1> QED BY <1>5, <1>6

\* The end of a frame without data and without a footer.
LEMMA EmptyBodySearch ==
  ASSUME SearchInv, Inv', FixWithoutFooter
  PROVE  SearchInv'
<1>1. /\ PastHeader /\ HasSize /\ Picking /\ confirmed >= FrameSize - Footer(config)
      /\ Footer(config) = 0 /\ Confirm(0, "FIXED_FRAME")
  BY DEF FixWithoutFooter, PastData, PastHeader
<1>2. /\ config \in Configs /\ confirmed \in Nat /\ FrameSize \in Int /\ BodyAt(config) \in Nat
      /\ FrameSize <= BodyAt(config) /\ confirmed = BodyAt(config)
  BY <1>1, SizedFacts, SearchFacts
<1>3. confirmed + 0 > 0
  <2>1. CASE config.kind = "FIXED"
    BY <1>1, <1>2, <2>1, ConfigFacts DEF FrameSize
  <2>2. CASE config.kind = "LENGTH"
    BY <1>2, <2>2, BodyFacts
  <2> QED BY <1>1, <2>1, <2>2 DEF HasSize
<1>4. ASSUME NEW u, Candidate(u, head) PROVE Verdict(u, config) = confirmed + 0
  <2>1. Len(u) \in Nat /\ Len(u) > BodyAt(config)
    BY <1>1, <1>2, <1>4, SearchFacts, LenProperties DEF Candidate
  <2>2. Verdict(u, config) = SizedVerdict(u, FrameSize, config)
    BY <1>1, <1>4, SizedIs
  <2>3. SizedVerdict(u, FrameSize, config) = BodyAt(config)
    BY <1>1, <1>2, <2>1 DEF SizedVerdict
  <2> QED BY <1>2, <2>2, <2>3
<1>5. 0 <= Unprocessed
  BY <1>1, SearchFacts
<1> QED BY <1>1, <1>3, <1>4, <1>5, FoundSearch

\* The footer of a frame whose length ends before its data: whatever is compared, it is no frame
\* and is not taken for one.
LEMMA OverrunSearch ==
  ASSUME SearchInv, Inv', ReceiveFooter, FrameSize <= BodyAt(config)
  PROVE  SearchInv'
<1>1. PastHeader /\ HasSize /\ Picking /\ Footer(config) > 0
  BY DEF ReceiveFooter, PastData, PastHeader
<1>2. /\ FrameSize \in Int /\ BodyAt(config) \in Nat /\ confirmed \in Nat
      /\ confirmed >= BodyAt(config) /\ Footer(config) \in Nat
  BY <1>1, SizeHasFooter, SearchFacts
<1>3. CASE Mismatch
  <2>1. \A u : Candidate(u, head) => Verdict(u, config) = 0
    BY <1>1, <1>2, SizedIs DEF SizedVerdict
  <2> QED BY <1>1, <1>3, <2>1, MismatchSearch
<1>4. CASE Confirm(1, "RECEIVING_FOOTER")
  <2>1. EndSeen(FrameSize, confirmed + 1)
    BY <1>2 DEF EndSeen
  <2>2. "RECEIVING_FOOTER" # "FIXED_FRAME"
    OBVIOUS
  <2> QED BY <1>1, <1>4, <2>1, <2>2, GrowSearch
<1> QED BY <1>2, <1>3, <1>4 DEF ReceiveFooter

\* The footer of a frame whose size is known.
LEMMA FooterSearch ==
  ASSUME SearchInv, Inv', ReceiveFooter
  PROVE  SearchInv'
<1> DEFINE k == confirmed + 1
           f == FrameSize - Footer(config)
<1>1. PastHeader /\ HasSize /\ Picking /\ confirmed >= f
  BY DEF ReceiveFooter, PastData, PastHeader
<1>7. FrameSize \in Int /\ BodyAt(config) \in Nat
  BY <1>1, SizeHasFooter
<1>8. CASE FrameSize <= BodyAt(config)
  BY <1>8, OverrunSearch
<1> SUFFICES ASSUME FrameSize > BodyAt(config) PROVE SearchInv'
  BY <1>7, <1>8
<1>2. FrameSize \in Int /\ FrameSize >= Footer(config) /\ confirmed < FrameSize /\ confirmed >= BodyAt(config)
  BY <1>1, SizeHasFooter
<1>3. /\ FooterIndex \in 1..Footer(config) /\ f + FooterIndex = k /\ k \in 1..(Len(bytes) - head)
      /\ f \in Nat /\ head + f = head + FrameSize - Footer(config) /\ k <= FrameSize
      /\ BodyAt(config) < f + FooterIndex
  BY <1>1, <1>2, <1>7, SearchFacts DEF FooterIndex
<1>4. ByteAt(confirmed) = bytes[head + k]
  <2>1. head + confirmed + 1 = head + k
    BY <1>1, SearchFacts
  <2> QED BY <2>1 DEF ByteAt
<1>5. CASE ByteAt(confirmed) # config.footer[FooterIndex]
  <2>1. ASSUME NEW u, Candidate(u, head) PROVE Verdict(u, config) = 0
    <3>1. u[k] = bytes[head + k] /\ u \in Seq(Bytes) /\ k <= Len(u)
      BY <1>1, <1>3, <2>1, SearchFacts, LenProperties DEF Candidate
    <3>2. u[f + FooterIndex] # config.footer[FooterIndex] /\ f + FooterIndex <= Len(u)
      BY <1>3, <1>4, <1>5, <3>1
    <3>3. FooterRefuted(u, FrameSize, config)
      BY <1>3, <3>2 DEF FooterRefuted
    <3> QED BY <1>1, <2>1, <3>3, SizedIs DEF SizedVerdict
  <2>2. Mismatch
    BY <1>3, <1>5 DEF ReceiveFooter, InFooter
  <2> QED BY <1>1, <2>1, <2>2, MismatchSearch
<1>6. CASE ByteAt(confirmed) = config.footer[FooterIndex]
  <2>1. Confirm(1, IF confirmed + 1 = FrameSize THEN "FIXED_FRAME" ELSE "RECEIVING_FOOTER")
    BY <1>3, <1>6 DEF ReceiveFooter, InFooter
  <2>2. EndSeen(FrameSize, k)
    <3> SUFFICES ASSUME NEW i \in 1..Footer(config), BodyAt(config) < f + i, f + i <= k
                 PROVE  bytes[head + FrameSize - Footer(config) + i] = config.footer[i]
      BY DEF EndSeen
    <3>1. CASE f + i <= confirmed
      BY <1>1, <3>1, SearchFacts DEF Seen, EndSeen
    <3>2. CASE f + i = k
      <4>1. i = FooterIndex /\ head + FrameSize - Footer(config) + i = head + k
        BY <1>1, <1>2, <1>3, <3>2, SearchFacts
      <4> QED BY <1>4, <1>6, <4>1
    <3> QED BY <1>1, <1>3, <3>1, <3>2, SearchFacts
  <2>3. CASE k = FrameSize
    <3>1. Confirm(1, "FIXED_FRAME")
      BY <2>1, <2>3
    <3>2. FrameSize <= Len(bytes) - head /\ EndSeen(FrameSize, FrameSize)
      BY <1>1, <1>3, <2>2, <2>3, SearchFacts
    <3>3. \A u : Candidate(u, head) => Verdict(u, config) = confirmed + 1
      BY <1>1, <2>3, <3>2, WholeFrame
    <3>4. 1 <= Unprocessed /\ confirmed + 1 > 0
      BY <1>1, SearchFacts
    <3> QED BY <1>1, <3>1, <3>3, <3>4, FoundSearch
  <2>4. CASE k # FrameSize
    <3>1. Confirm(1, "RECEIVING_FOOTER") /\ "RECEIVING_FOOTER" # "FIXED_FRAME"
      BY <2>1, <2>4
    <3> QED BY <1>1, <2>2, <3>1, GrowSearch
  <2> QED BY <2>3, <2>4
<1> QED BY <1>5, <1>6


\* The search for a footer, where the size is not known.
LEMMA FooterSearched ==
  ASSUME SearchInv, Inv', SearchFooter
  PROVE  SearchInv'
<1> DEFINE I == {i \in (head + confirmed + 1)..Len(bytes) : bytes[i] = Last(config.footer)}
           place == IF I # {} THEN Min(I) ELSE 0
           n == IF place = 0 THEN Unprocessed ELSE place - head - confirmed
           k == confirmed + n
           frame == SubSeq(bytes, head + 1, head + confirmed + n)
           H == Header(config)
           F == Footer(config)
<1>1. config.kind = "FOOTER" /\ Picking /\ confirmed >= Header(config)
  BY DEF SearchFooter, PastHeader
<1>2. IF Len(frame) > config.max THEN Mismatch
      ELSE Confirm(n, IF Len(frame) >= H + F /\ IsSuffix(config.footer, frame)
                      THEN "FIXED_FRAME" ELSE "RECEIVING_DATA")
  BY DEF SearchFooter, SelectInSubSeq
<1>3. /\ head \in Nat /\ confirmed \in Nat /\ Len(bytes) \in Nat /\ bytes \in Seq(Bytes)
      /\ H \in Nat /\ F \in Nat /\ Len(config.footer) = F /\ Unprocessed = Len(bytes) - head - confirmed
      /\ Unprocessed > 0 /\ config \in Configs /\ Seen /\ confirmed >= H
  BY <1>1, SearchFacts
<1>4. F > 0 /\ config.max \in Nat /\ config.footer \in Seq(Bytes)
  BY <1>1, <1>3, ConfigFacts, ReceiverAssumption DEF Valid
<1>5. /\ I = {} => place = 0
      /\ I # {} => place \in I /\ \A i \in I : place <= i
  <2>1. I \in SUBSET Nat
    BY <1>3
  <2>2. I # {} => Min(I) \in I /\ \A i \in I : Min(I) <= i
    <3> HIDE DEF I
    <3> QED BY <2>1, MinOfNats
  <2> QED
    BY <2>2
<1> HIDE DEF place
<1>6. n \in Nat /\ n > 0 /\ n <= Unprocessed
  <2>1. CASE I = {}
    BY <1>3, <1>5, <2>1
  <2>2. CASE I # {}
    <3>1. place \in (head + confirmed + 1)..Len(bytes)
      BY <1>5, <2>2
    <3> QED BY <1>3, <3>1
  <2> QED BY <2>1, <2>2
<1>7. ASSUME NEW j \in (confirmed + 1)..(k - 1) PROVE bytes[head + j] # Last(config.footer)
  <2>1. head + j \in (head + confirmed + 1)..Len(bytes) /\ j \in Nat
    BY <1>3, <1>6
  <2>2. CASE I = {}
    BY <2>1, <2>2
  <2>3. CASE I # {}
    <3>1. place \in (head + confirmed + 1)..Len(bytes) /\ \A i \in I : place <= i
      BY <1>5, <2>3
    <3>2. k = place - head
      BY <1>3, <3>1
    <3> HIDE DEF n, k
    <3>3. ~(place <= head + j)
      BY <1>3, <2>1, <3>1, <3>2
    <3>4. head + j \notin I
      BY <3>1, <3>3
    <3> QED BY <2>1, <3>4
  <2> QED BY <2>2, <2>3
<1> HIDE DEF n, I
<1>8. k \in Nat /\ k > confirmed /\ head + k <= Len(bytes) /\ head + confirmed + n = head + k
  BY <1>3, <1>6
<1>9. /\ frame \in Seq(Bytes) /\ Len(frame) = k /\ \A i \in 1..k : frame[i] = bytes[head + i]
  <2>1. frame = SubSeq(bytes, head + 1, head + k)
    BY <1>8
  <2> HIDE DEF frame, k
  <2>2. \A i \in (head + 1)..(head + k) : bytes[i] \in Bytes
    <3>1. \A i \in (head + 1)..(head + k) : i \in 1..Len(bytes)
      BY <1>3, <1>8
    <3> QED BY <1>3, <3>1, ElementOfSeq
  <2>3. /\ frame \in Seq(Bytes)
        /\ Len(frame) = IF head + 1 <= head + k THEN head + k - (head + 1) + 1 ELSE 0
        /\ \A i \in 1..(head + k - (head + 1) + 1) : frame[i] = bytes[head + 1 + i - 1]
    BY <1>3, <1>8, <2>1, <2>2, SubSeqProperties
  <2> QED BY <1>3, <1>8, <2>3
<1> HIDE DEF frame, k
\* No shorter frame ends in what has arrived.
<1>10. ASSUME NEW m \in (H + F)..(k - 1) PROVE ~FooterSeen(m, m)
  <2>1. CASE m <= confirmed
    <3>1. m \in (H + F)..confirmed
      BY <1>3, <1>8, <2>1
    <3> QED BY <1>1, <1>3, <3>1 DEF Seen
  <2>2. CASE m > confirmed
    <3>1. m \in (confirmed + 1)..(k - 1) /\ m \in Nat /\ F \in 1..F /\ m - F + F <= m
          /\ head + m - F + F = head + m
      BY <1>3, <1>4, <1>8, <2>2
    <3>2. bytes[head + m] # config.footer[F]
      BY <1>3, <1>7, <3>1 DEF Last
    <3> QED BY <3>1, <3>2 DEF FooterSeen
  <2> QED BY <1>3, <1>8, <2>1, <2>2
<1>11. ASSUME F <= k PROVE IsSuffix(config.footer, frame) <=> FooterSeen(k, k)
  <2>1. IsSuffix(config.footer, frame) <=> \A i \in 1..F : frame[k - F + i] = config.footer[i]
    <3> DEFINE f == config.footer
    <3>1. f \in Seq(Bytes) /\ Len(f) = F
      BY <1>3, <1>4
    <3> HIDE DEF f
    <3>2. IsSuffix(f, frame) <=> /\ Len(f) <= Len(frame)
                                /\ \A i \in 1..Len(f) : frame[Len(frame) - Len(f) + i] = f[i]
      BY <3>1, <1>9, SuffixIs
    <3>3. IsSuffix(f, frame) <=> \A i \in 1..F : frame[k - F + i] = f[i]
      BY <3>1, <3>2, <1>9, <1>11
    <3> QED BY <3>3 DEF f
  <2>2. ASSUME NEW i \in 1..F PROVE frame[k - F + i] = bytes[head + k - F + i] /\ k - F + i <= k
    <3>1. k - F + i \in 1..k /\ head + (k - F + i) = head + k - F + i
      BY <1>3, <1>8, <1>11
    <3> QED BY <1>9, <3>1
  <2> QED BY <2>1, <2>2 DEF FooterSeen
<1>12. ASSUME NEW u, Candidate(u, head)
       PROVE  /\ u \in Seq(Bytes) /\ Len(u) \in Nat /\ Len(u) >= k
              /\ Verdict(u, config) = FooterVerdict(u, config)
              /\ \A m \in (H + F)..k : EndsAt(u, m, config) <=> FooterSeen(m, m)
  <2>1. /\ u \in Seq(Bytes) /\ Len(u) \in Nat /\ Len(u) >= Len(bytes) - head
        /\ \A i \in 1..(Len(bytes) - head) : u[i] = bytes[head + i]
    BY <1>12, LenProperties DEF Candidate
  <2>2. Verdict(u, config) = FooterVerdict(u, config)
    BY <1>1, <1>3, <1>12, <2>1, HeaderIsSeen, KindVerdict
  <2>3. Len(u) >= k
    BY <1>3, <1>8, <2>1
  <2>4. ASSUME NEW m \in (H + F)..k PROVE EndsAt(u, m, config) <=> FooterSeen(m, m)
    <3>1. m \in Nat /\ m <= Len(u) /\ m >= F
      BY <1>3, <1>8, <2>1, <2>3
    <3>2. EndsAt(u, m, config) <=> \A i \in 1..F : u[m - F + i] = config.footer[i]
      BY <1>3, <2>1, <3>1, EndsAtIs
    <3>3. ASSUME NEW i \in 1..F PROVE u[m - F + i] = bytes[head + m - F + i] /\ m - F + i <= m
      <4>1. m - F + i \in 1..(Len(bytes) - head) /\ head + (m - F + i) = head + m - F + i /\ m - F + i <= m
        BY <1>3, <1>8, <3>1
      <4> QED BY <2>1, <4>1
    <3> QED BY <3>2, <3>3 DEF FooterSeen
  <2> QED BY <2>1, <2>2, <2>3, <2>4
<1>13. CASE k > config.max
  <2>1. ASSUME NEW u, Candidate(u, head) PROVE Verdict(u, config) = 0
    <3>1. Ends(u, config) = {}
      <4> SUFFICES ASSUME NEW m \in Ends(u, config) PROVE FALSE
        OBVIOUS
      <4>1. m \in (H + F)..(k - 1) /\ m \in (H + F)..k /\ EndsAt(u, m, config)
        BY <1>3, <1>4, <1>8, <1>13 DEF Ends
      <4> QED BY <1>10, <1>12, <2>1, <4>1
    <3>2. Len(u) > config.max
      BY <1>4, <1>8, <1>12, <1>13, <2>1
    <3> QED BY <1>3, <1>12, <2>1, <3>1, <3>2, FooterVerdictIs
  <2>2. Mismatch
    BY <1>2, <1>9, <1>13
  <2> QED BY <1>1, <2>1, <2>2, MismatchSearch
<1>14. CASE ~(k > config.max) /\ k >= H + F /\ FooterSeen(k, k)
  <2>1. F <= k
    BY <1>3, <1>8, <1>14
  <2>2. Confirm(n, "FIXED_FRAME")
    BY <1>2, <1>9, <1>11, <1>14, <2>1
  <2>3. ASSUME NEW u, Candidate(u, head) PROVE Verdict(u, config) = k
    <3>1. k \in (H + F)..k /\ k \in (H + F)..Len(u) /\ k <= config.max
      BY <1>3, <1>4, <1>8, <1>12, <1>14, <2>3
    <3>2. k \in Ends(u, config)
      BY <1>12, <1>14, <2>3, <3>1 DEF Ends
    <3>3. ASSUME NEW m \in Ends(u, config) PROVE k <= m
      <4>1. m \in Nat /\ m >= H + F /\ EndsAt(u, m, config)
        BY <1>3, <1>12, <2>3 DEF Ends
      <4> SUFFICES ASSUME ~(k <= m) PROVE FALSE
        OBVIOUS
      <4>2. m \in (H + F)..(k - 1) /\ m \in (H + F)..k
        BY <1>3, <1>8, <4>1
      <4> QED BY <1>10, <1>12, <2>3, <4>1, <4>2
    <3>4. FooterVerdict(u, config) = k
      BY <1>3, <1>12, <2>3, <3>2, <3>3, FooterVerdictIs
    <3> QED BY <1>12, <2>3, <3>4
  <2>4. confirmed + n > 0
    BY <1>3, <1>6
  <2> QED BY <1>1, <1>6, <2>2, <2>3, <2>4, FoundSearch DEF k
<1>15. CASE ~(k > config.max) /\ ~(k >= H + F /\ FooterSeen(k, k))
  <2>1. k >= H + F => F <= k
    BY <1>3, <1>8
  <2>2. Confirm(n, "RECEIVING_DATA")
    BY <1>2, <1>9, <1>11, <1>15, <2>1
  <2>3. /\ config' = config /\ bytes' = bytes /\ head' = head /\ confirmed' = k
    BY <2>2 DEF Confirm, k
  <2>4. Walked'
    BY <1>1, <1>6, <2>2, ConfirmWalks
  <2>5. HeaderSeen'
    BY <1>1, <2>3, HeaderStays
  <2>6. ASSUME NEW m \in (H + F)..k PROVE ~FooterSeen(m, m)'
    <3>1. m = k \/ m \in (H + F)..(k - 1)
      BY <1>3, <1>8
    <3>2. m = k => k >= H + F
      BY <1>3, <1>8
    <3>3. ~FooterSeen(m, m)
      BY <1>10, <1>15, <3>1, <3>2
    <3> QED BY <2>3, <3>3 DEF FooterSeen
  <2>7. ~HasSize'
    BY <1>1, <2>3 DEF HasSize
  <2>8. k <= config.max
    BY <1>4, <1>8, <1>15
  <2>9. Seen'
    BY <1>1, <2>3, <2>5, <2>6, <2>7, <2>8 DEF Seen
  <2> QED BY <2>4, <2>9 DEF SearchInv
<1> QED BY <1>13, <1>14, <1>15


\* The buffer was emptied, or holds nothing but what has just arrived: the search begins anew.
LEMMA NewSearch ==
  ASSUME Inv', confirmed' = 0, head' = 0, fixed' = FALSE, found' = <<>>, stream' = bytes'
  PROVE  SearchInv'
<1>1. config' \in Configs /\ bytes' \in Seq(Bytes)
  BY DEF Inv, Typed
<1>2. Place' = 0
  <2>1. Len(bytes') \in Nat
    BY <1>1, LenProperties
  <2> QED BY <2>1 DEF Place, FrameDropped
<1>3. Walked'
  <2> SUFFICES ASSUME NEW t \in Seq(Bytes)
               PROVE  FramesFrom(t, config')[0] = <<>> \o FramesFrom(t, config')[0]
    BY <1>2 DEF Walked
  <2> DEFINE f == FramesFrom(t, config')[0]
  <2>1. f \in Seq(Frame)
    <3>1. 0 \in 0..Len(t)
      BY LenProperties
    <3> QED BY <1>1, <3>1, FramesAre
  <2> HIDE DEF f
  <2>2. f = <<>> \o f
    BY <2>1, ConcatEmptySeq
  <2> QED BY <2>2 DEF f
<1>4. Seen'
  <2>1. (config \in Configs)' /\ (confirmed \in Nat)' /\ (confirmed <= Header(config))' /\ HeaderSeen'
    BY <1>1, ConfigFacts DEF HeaderSeen
  <2> QED BY <2>1, SeenInHeader, PTL
<1> QED BY <1>3, <1>4 DEF SearchInv

\* What arrives is appended to what is left, or replaces all.
LEMMA PrepareSearch ==
  ASSUME SearchInv, Inv', pc = "idle", NEW chunk \in Seq(Bytes), Prepare(chunk)
  PROVE  SearchInv'
<1> DEFINE rest == SubSeq(bytes, FrameDropped + 1, Len(bytes))
           fits == Len(rest) + Len(chunk) <= config.capacity
<1>1. /\ config \in Configs /\ bytes \in Seq(Bytes) /\ stream \in Seq(Bytes)
      /\ confirmed \in Nat /\ Len(bytes) \in Nat /\ Len(stream) \in Nat /\ Len(chunk) \in Nat
      /\ head = 0 /\ confirmed <= Len(bytes) /\ fixed \in BOOLEAN
      /\ fixed => confirmed > 0
  BY LenProperties DEF SearchInv, Inv, Typed, Within, Reports
<1>2. /\ fixed' = FALSE /\ confirmed' = (IF fixed \/ ~fits THEN 0 ELSE confirmed) /\ head' = 0
      /\ bytes' = (IF fits THEN rest \o chunk ELSE chunk)
      /\ stream' = (IF fits THEN stream \o chunk ELSE chunk)
      /\ found' = (IF fits THEN found ELSE <<>>)
      /\ config' = config
  BY DEF Prepare
<1>3. FrameDropped \in Nat /\ FrameDropped <= Len(bytes) /\ (~fixed => FrameDropped = 0)
  BY <1>1 DEF FrameDropped
<1>4. /\ rest \in Seq(Bytes) /\ Len(rest) = Len(bytes) - FrameDropped
      /\ \A i \in 1..Len(rest) : rest[i] = bytes[FrameDropped + i]
  <2>1. \A i \in (FrameDropped + 1)..Len(bytes) : bytes[i] \in Bytes
    BY <1>1, <1>3, ElementOfSeq
  <2> QED
    BY <1>1, <1>3, <2>1, SubSeqProperties
<1> HIDE DEF rest
<1>5. /\ Len(rest \o chunk) = Len(rest) + Len(chunk)
      /\ \A i \in 1..Len(rest) : (rest \o chunk)[i] = rest[i]
  <2>1. /\ Len(rest \o chunk) = Len(rest) + Len(chunk)
        /\ \A i \in 1..(Len(rest) + Len(chunk)) :
              (rest \o chunk)[i] = IF i <= Len(rest) THEN rest[i] ELSE chunk[i - Len(rest)]
    BY <1>4, ConcatProperties
  <2>2. \A i \in 1..Len(rest) : i \in 1..(Len(rest) + Len(chunk)) /\ i <= Len(rest)
    BY <1>1, <1>3, <1>4
  <2> QED BY <2>1, <2>2
<1>6. /\ Len(stream \o chunk) = Len(stream) + Len(chunk)
      /\ \A i \in 1..Len(stream) : (stream \o chunk)[i] = stream[i]
  BY <1>1, ConcatProperties
<1>7. CASE ~fits
  BY <1>2, <1>7, NewSearch
<1>8. CASE fits
  <2>1. Place' = Place
    <3>1. Place = Len(stream) - Len(bytes) + FrameDropped
      BY <1>1, <1>3 DEF Place
    <3>2. FrameDropped' = 0
      BY <1>2 DEF FrameDropped
    <3>3. Place' = Len(stream) + Len(chunk) - (Len(rest) + Len(chunk))
      <4>1. Len(stream') = Len(stream) + Len(chunk) /\ Len(bytes') = Len(rest) + Len(chunk) /\ head' = 0
        BY <1>2, <1>5, <1>6, <1>8
      <4>2. Len(rest) \in Nat
        BY <1>4, LenProperties
      <4> QED BY <1>1, <3>2, <4>1, <4>2 DEF Place
    <3> QED BY <1>1, <1>3, <1>4, <3>1, <3>3
  <2>2. ASSUME NEW t \in Seq(Bytes), Extends(t, stream') PROVE Extends(t, stream)
    <3>1. /\ Len(stream) + Len(chunk) <= Len(t) /\ Len(t) \in Nat
          /\ \A i \in 1..(Len(stream) + Len(chunk)) : t[i] = (stream \o chunk)[i]
      BY <1>2, <1>6, <1>8, <2>2, LenProperties DEF Extends
    <3>2. ASSUME NEW i \in 1..Len(stream) PROVE t[i] = stream[i]
      <4>1. i \in 1..(Len(stream) + Len(chunk))
        BY <1>1
      <4> QED BY <1>6, <3>1, <4>1
    <3> QED BY <1>1, <3>1, <3>2 DEF Extends
  <2>3. Walked'
    BY <1>2, <1>8, <2>1, <2>2, WalkStays
  <2>4. CASE fixed
    <3>1. confirmed' = 0
      BY <1>2, <2>4
    <3>2. (config \in Configs)' /\ (confirmed \in Nat)' /\ (confirmed <= Header(config))' /\ HeaderSeen'
      BY <1>1, <1>2, <3>1, ConfigFacts DEF HeaderSeen
    <3>3. Seen'
      BY <3>2, SeenInHeader, PTL
    <3> QED BY <2>3, <3>3 DEF SearchInv
  <2>5. CASE ~fixed
    <3>1. confirmed' = confirmed /\ head' \in Nat /\ config' = config
      BY <1>1, <1>2, <1>8, <2>5
    <3>2. ASSUME NEW i \in 1..confirmed PROVE bytes'[head' + i] = bytes[head + i]
      <4>1. i \in 1..Len(rest) /\ head' + i = i /\ head + i = i /\ FrameDropped + i = i
        BY <1>1, <1>2, <1>3, <1>4, <2>5
      <4> QED BY <1>2, <1>4, <1>5, <1>8, <4>1
    <3>3. Inv /\ Seen
      BY <2>5 DEF SearchInv
    <3>4. Seen'
      BY <2>5, <3>1, <3>2, <3>3, SeenStays
    <3> QED BY <2>3, <3>4 DEF SearchInv
  <2> QED BY <2>4, <2>5
<1> QED BY <1>7, <1>8

\* What is before the head is dropped.
LEMMA EndSearch ==
  ASSUME SearchInv, Inv', EndRounds
  PROVE  SearchInv'
<1>1. /\ bytes \in Seq(Bytes) /\ head \in Nat /\ confirmed \in Nat
      /\ Len(bytes) \in Nat /\ Len(stream) \in Nat /\ head + confirmed <= Len(bytes) /\ fixed \in BOOLEAN
  BY LenProperties DEF SearchInv, Inv, Typed, Within
<1>2. /\ bytes' = SubSeq(bytes, head + 1, Len(bytes)) /\ head' = 0
      /\ config' = config /\ confirmed' = confirmed /\ fixed' = fixed
      /\ stream' = stream /\ found' = found
  BY DEF EndRounds
<1>3. /\ Len(bytes') = Len(bytes) - head
      /\ \A i \in 1..(Len(bytes) - head) : bytes'[i] = bytes[head + i]
  <2>1. \A i \in (head + 1)..Len(bytes) : bytes[i] \in Bytes
    BY <1>1, ElementOfSeq
  <2> QED
    BY <1>1, <1>2, <2>1, SubSeqProperties
<1>4. Place' = Place
  <2>1. FrameDropped' = FrameDropped /\ FrameDropped \in Nat
    BY <1>1, <1>2 DEF FrameDropped
  <2> QED BY <1>1, <1>2, <1>3, <2>1 DEF Place
<1>5. Walked'
  BY <1>2, <1>4, WalkStays
<1>6. ASSUME ~fixed PROVE Seen'
  <2>1. ASSUME NEW i \in 1..confirmed PROVE bytes'[head' + i] = bytes[head + i]
    <3>1. i \in 1..(Len(bytes) - head) /\ head' + i = i
      BY <1>1, <1>2
    <3> QED BY <1>3, <3>1
  <2>2. Inv /\ Seen /\ head' \in Nat
    BY <1>2, <1>6 DEF SearchInv
  <2> QED BY <1>2, <1>6, <2>1, <2>2, SeenStays
<1> QED BY <1>2, <1>5, <1>6 DEF SearchInv

\* The steps that leave the stream and the candidate alone.
LEMMA SameSearch ==
  ASSUME SearchInv, Inv', UNCHANGED <<config, bytes, head, confirmed, fixed, stream, found>>
  PROVE  SearchInv'
<1>1. Walked'
  BY DEF SearchInv, Walked, Place, FrameDropped
<1>2. Seen' = Seen
  BY DEF Seen, HeaderSeen, FooterSeen, EndSeen, HasSize, FrameSize
<1> QED BY <1>1, <1>2 DEF SearchInv

\* Every step keeps what the search has established.
LEMMA SearchNext == SearchInv /\ [Next]_vars => SearchInv'
<1> SUFFICES ASSUME SearchInv, [Next]_vars PROVE SearchInv'
  OBVIOUS
<1>1. Inv'
  BY NextStep DEF SearchInv
<1>2. ASSUME NEW n \in 1..HalMax, NEW chunk \in [1..n -> Bytes], Receive(chunk) PROVE SearchInv'
  <2>1. chunk \in Seq(Bytes)
    BY IsASeq
  <2>2. pc = "idle" /\ Prepare(chunk)
    BY <1>2 DEF Receive
  <2> QED BY <1>1, <2>1, <2>2, PrepareSearch
<1>3. CASE ReceiveBacklog
  <2>1. <<>> \in Seq(Bytes) /\ pc = "idle" /\ Prepare(<<>>)
    BY <1>3, EmptySeq DEF ReceiveBacklog
  <2> QED BY <1>1, <2>1, PrepareSearch
<1>4. CASE ReceiveNothing \/ ReceiveError
  <2>1. UNCHANGED <<config, bytes, head, confirmed, fixed, stream, found>>
    BY <1>4 DEF ReceiveNothing, ReceiveError, buffer
  <2> QED BY <1>1, <2>1, SameSearch
<1>5. CASE ClearBuffer
  <2>1. confirmed' = 0 /\ head' = 0 /\ fixed' = FALSE /\ found' = <<>> /\ stream' = bytes'
    BY <1>5 DEF ClearBuffer
  <2> QED BY <1>1, <2>1, NewSearch
<1>6. CASE FindHeader
  BY <1>1, <1>6, FindHeaderSearch
<1>7. CASE ReceiveHeader
  BY <1>1, <1>7, HeaderSearch
<1>8. CASE ReceiveLength
  BY <1>1, <1>8, LengthSearch
<1>9. CASE ReceiveData
  BY <1>1, <1>9, DataSearch
<1>10. CASE ReceiveFooter
  BY <1>1, <1>10, FooterSearch
<1>14. CASE FixWithoutFooter
  BY <1>1, <1>14, EmptyBodySearch
<1>11. CASE SearchFooter
  BY <1>1, <1>11, FooterSearched
<1>12. CASE EndRounds
  BY <1>1, <1>12, EndSearch
<1>13. CASE UNCHANGED vars
  <2>1. UNCHANGED <<config, bytes, head, confirmed, fixed, stream, found>>
    BY <1>13 DEF vars
  <2> QED BY <1>1, <2>1, SameSearch
<1> QED
  BY <1>2, <1>3, <1>4, <1>5, <1>6, <1>7, <1>8, <1>9, <1>10, <1>11, <1>12, <1>13, <1>14
  DEF Next, CallWithoutData, Pickup

\* Nothing is found before anything has arrived.
LEMMA InitSearch == Init => SearchInv
<1> SUFFICES ASSUME Init PROVE SearchInv
  OBVIOUS
<1>1. Inv
  BY InitInv
<1>2. /\ config \in Configs /\ bytes = <<>> /\ stream = <<>> /\ head = 0 /\ confirmed = 0
      /\ fixed = FALSE /\ found = <<>> /\ Len(<<>>) = 0
  BY DEF Init
<1>3. Place = 0
  BY <1>2 DEF Place, FrameDropped
<1>4. Walked
  <2> SUFFICES ASSUME NEW t \in Seq(Bytes)
               PROVE  FramesFrom(t, config)[0] = <<>> \o FramesFrom(t, config)[0]
    BY <1>2, <1>3 DEF Walked
  <2> DEFINE f == FramesFrom(t, config)[0]
  <2>1. f \in Seq(Frame)
    <3>1. 0 \in 0..Len(t)
      BY LenProperties
    <3> QED BY <1>2, <3>1, FramesAre
  <2> HIDE DEF f
  <2>2. f = <<>> \o f
    BY <2>1, ConcatEmptySeq
  <2> QED BY <2>2 DEF f
<1>5. Seen
  <2>1. confirmed \in Nat /\ confirmed <= Header(config) /\ HeaderSeen
    BY <1>2, ConfigFacts DEF HeaderSeen
  <2> QED BY <1>2, <2>1, SeenInHeader
<1> QED BY <1>1, <1>4, <1>5 DEF SearchInv


-----------------------------------------------------------------------------
(***************************************************************************)
(* What holds of every behaviour.                                          *)
(***************************************************************************)
\* What was found and what the candidate has shown is what the stream says: the invariant
\* from which the two theorems below follow.
THEOREM SearchInvariance == Spec => []SearchInv
<1>1. Init => SearchInv
  BY InitSearch
<1>2. SearchInv /\ [Next]_vars => SearchInv'
  BY SearchNext
<1> QED BY <1>1, <1>2, PTL DEF Spec

\* The stream itself is one of its extensions.
LEMMA WalkedNow ==
  ASSUME SearchInv
  PROVE  /\ Place \in 0..Len(stream) /\ found \in Seq(Frame)
         /\ stream \in Seq(Bytes) /\ config \in Configs /\ Extends(stream, stream)
         /\ FramesFrom(stream, config)[Place] \in Seq(Frame)
         /\ Frames = found \o FramesFrom(stream, config)[Place]
<1>1. /\ stream \in Seq(Bytes) /\ config \in Configs /\ found \in Seq(Frame) /\ Len(stream) \in Nat
      /\ Len(bytes) \in Nat /\ head \in Nat /\ confirmed \in Nat /\ head + confirmed <= Len(bytes)
      /\ Len(bytes) <= Len(stream) /\ fixed \in BOOLEAN /\ (fixed => confirmed > 0) /\ Inv
  BY LenProperties DEF SearchInv, Inv, Typed, Within, BufferIsReceived, Reports
<1>2. FrameDropped \in Nat /\ FrameDropped <= confirmed
  BY <1>1 DEF FrameDropped
<1>3. Place \in 0..Len(stream)
  BY <1>1, <1>2 DEF Place
<1>4. Extends(stream, stream)
  BY <1>1 DEF Extends
<1>5. Frames = found \o FramesFrom(stream, config)[Place]
  BY <1>1, <1>4 DEF SearchInv, Walked, Frames
<1>6. FramesFrom(stream, config)[Place] \in Seq(Frame)
  BY <1>1, <1>3, FramesTyped
<1> QED BY <1>1, <1>3, <1>4, <1>5, <1>6

\* However the stream is split over the calls, what CDS_analyze_rx_buffer_pickup_ finds are its
\* first frames, in order.
THEOREM FoundAreTheFrames == Spec => []FramesAreTheStreams
<1>1. SearchInv => FramesAreTheStreams
  <2> SUFFICES ASSUME SearchInv PROVE FramesAreTheStreams
    OBVIOUS
  <2> DEFINE more == FramesFrom(stream, config)[Place]
  <2>1. found \in Seq(Frame) /\ more \in Seq(Frame) /\ Frames = found \o more
    BY WalkedNow
  <2> HIDE DEF more
  <2>2. /\ Len(found) \in Nat /\ Len(more) \in Nat /\ Len(Frames) = Len(found) + Len(more)
        /\ Frames \in Seq(Frame)
        /\ \A i \in 1..(Len(found) + Len(more)) :
              Frames[i] = IF i <= Len(found) THEN found[i] ELSE more[i - Len(found)]
    BY <2>1, ConcatProperties, LenProperties
  <2> DEFINE n == Len(found)
             a == SubSeq(found, 1, n)
             b == SubSeq(Frames, 1, n)
  <2>3. /\ a \in Seq(Frame) /\ Len(a) = n /\ \A i \in 1..n : a[i] = found[i]
    BY <2>1, <2>2, ElementOfSeq, SubSeqProperties
  <2>4. /\ b \in Seq(Frame) /\ Len(b) = n /\ \A i \in 1..n : b[i] = Frames[i]
    <3>1. \A i \in 1..n : Frames[i] \in Frame
      BY <2>2, ElementOfSeq
    <3> QED BY <2>2, <3>1, SubSeqProperties
  <2>5. \A i \in 1..n : Frames[i] = found[i]
    BY <2>2
  <2>6. a = b
    <3> HIDE DEF a, b
    <3> QED BY <2>3, <2>4, <2>5, SeqEqual
  <2> QED BY <2>2, <2>6 DEF FramesAreTheStreams, IsPrefix
<1> QED BY <1>1, SearchInvariance, PTL

\* No frame begins where no candidate is one.
LEMMA NoFrames ==
  ASSUME NEW c \in Configs, NEW s \in Seq(Bytes), NEW a \in 0..Len(s),
         \A p \in a..Len(s) : VerdictAt(s, p, c) \in {-1, 0}
  PROVE  FramesFrom(s, c)[a] = <<>>
<1> DEFINE N == Len(s)
           frames == FramesFrom(s, c)
           S == {m \in Nat : m <= N - a => \A p \in (N - m)..N : frames[p] = <<>>}
<1>1. N \in Nat /\ a \in Nat /\ a <= N
  BY LenProperties
<1>2. \A p \in 0..N : frames[p] = FramesAt(frames, s, p, c)
  BY FramesAre
<1> HIDE DEF frames
<1>3. 0 \in S
  <2>1. \A p \in (N - 0)..N : p = N /\ p \in 0..N
    BY <1>1
  <2> QED BY <1>2, <2>1 DEF FramesAt
<1>4. ASSUME NEW m \in Nat, m \in S PROVE m + 1 \in S
  <2> SUFFICES ASSUME m + 1 <= N - a, NEW p \in (N - (m + 1))..N PROVE frames[p] = <<>>
    OBVIOUS
  <2>1. /\ m <= N - a /\ p \in 0..N /\ p \in a..N
        /\ p # N => p + 1 \in (N - m)..N
    BY <1>1
  <2>2. p # N => frames[p + 1] = <<>>
    BY <1>4, <2>1
  <2>3. VerdictAt(s, p, c) \in {-1, 0}
    BY <2>1
  <2> QED BY <1>2, <2>1, <2>2, <2>3 DEF FramesAt
<1> HIDE DEF S
<1>5. N - a \in S
  <2>1. N - a \in Nat
    BY <1>1
  <2> QED BY <2>1, <1>3, <1>4, NatSetInduction
<1>6. a \in (N - (N - a))..N /\ N - a <= N - a
  BY <1>1
<1> QED BY <1>5, <1>6 DEF S, frames

\* A candidate all of which was confirmed, and that is not fixed, may still become a frame; or
\* it is too long for one that is searched for its footer, and there is no room for a frame.
LEMMA Waiting ==
  ASSUME SearchInv, ~fixed, ~Overrun, confirmed = Len(bytes) - head, confirmed > 0,
         NEW u, Candidate(u, head), Len(u) = confirmed
  PROVE  \/ Verdict(u, config) = -1
         \/ config.kind = "FOOTER" /\ confirmed <= Header(config)
<1>1. /\ config \in Configs /\ bytes \in Seq(Bytes) /\ head \in Nat /\ confirmed \in Nat
      /\ Len(bytes) \in Nat /\ Seen /\ Inv /\ u \in Seq(Bytes)
      /\ Header(config) \in Nat /\ Footer(config) \in Nat
      /\ Len(config.footer) = Footer(config) /\ Len(config.header) = Header(config)
      /\ LengthEnd(config) = config.pos + 1 /\ config.pos \in Nat
      /\ config.max \in Nat /\ config.capacity \in Nat
  BY ConfigFacts, LenProperties, ReceiverAssumption
  DEF SearchInv, Inv, Typed, Header, Footer, Candidate, LengthEnd, Valid
<1>2. \A i \in 1..confirmed : u[i] = bytes[head + i]
  BY DEF Candidate
<1>3. Agrees(u, 0, config.header)
  <2> SUFFICES ASSUME NEW i \in 1..Header(config), i <= confirmed PROVE u[i] = config.header[i]
    BY <1>1 DEF Agrees
  <2>1. bytes[head + i] = config.header[i]
    BY <1>1 DEF Seen, HeaderSeen
  <2> QED BY <1>1, <1>2, <2>1
<1>4. ASSUME HasSize PROVE SizedVerdict(u, FrameSize, config) = -1
  <2>1. config.kind # "FOOTER" /\ (config.kind = "LENGTH" => confirmed >= LengthEnd(config))
    BY <1>4 DEF HasSize
  <2>2. FrameSize \in Int /\ BodyAt(config) \in Nat
    <3>1. head + confirmed <= Len(bytes)
      BY <1>1
    <3> QED BY <1>1, <2>1, <3>1, SizeFacts, BodyFacts DEF Inv
  <2>3. CASE FrameSize <= BodyAt(config)
    <3>1. Footer(config) = 0
      <4> SUFFICES ASSUME Footer(config) > 0 PROVE FALSE
        BY <1>1
      <4>1. CASE config.kind = "FIXED"
        BY <1>1, <2>2, <2>3, <4>1, BodyFacts DEF FrameSize
      <4>2. CASE config.kind = "LENGTH"
        BY <1>1, <1>4, <2>1, <2>2, <2>3, <4>2, BodyFacts DEF Overrun
      <4> QED BY <1>1, <2>1, <4>1, <4>2, ConfigFacts
    <3>2. confirmed <= BodyAt(config)
      BY <1>1, <1>4, <2>2, <2>3, <3>1 DEF Inv, BelowSize
    <3> QED BY <1>1, <2>2, <2>3, <3>1, <3>2 DEF SizedVerdict
  <2>4. CASE FrameSize > BodyAt(config)
    <3>1. confirmed < FrameSize
      BY <1>1, <1>4, <2>2, <2>4 DEF Inv, BelowSize
    <3>2. ~FooterRefuted(u, FrameSize, config)
      <4> SUFFICES ASSUME NEW i \in 1..Footer(config), BodyAt(config) < FrameSize - Footer(config) + i,
                          FrameSize - Footer(config) + i <= confirmed
                   PROVE  u[FrameSize - Footer(config) + i] = config.footer[i]
        BY <1>1 DEF FooterRefuted
      <4>1. bytes[head + FrameSize - Footer(config) + i] = config.footer[i]
        BY <1>1, <1>4 DEF Seen, EndSeen
      <4>2. /\ FrameSize - Footer(config) + i \in 1..confirmed
            /\ head + (FrameSize - Footer(config) + i) = head + FrameSize - Footer(config) + i
        BY <1>1, <2>2
      <4> QED BY <1>2, <4>1, <4>2
    <3> QED BY <1>1, <2>2, <2>4, <3>1, <3>2 DEF SizedVerdict
  <2> QED BY <2>2, <2>3, <2>4
<1>5. CASE config.kind = "FIXED"
  <2>1. HasSize /\ FrameSize = config.size
    BY <1>5 DEF HasSize, FrameSize
  <2> QED BY <1>1, <1>3, <1>4, <1>5, <2>1, KindVerdict
<1>6. CASE config.kind = "LENGTH" /\ confirmed < LengthEnd(config)
  BY <1>1, <1>3, <1>6, KindVerdict DEF LengthVerdict
<1>7. CASE config.kind = "LENGTH" /\ ~(confirmed < LengthEnd(config))
  <2>1. HasSize /\ LengthFits(FrameSize, config)
    BY <1>1, <1>7 DEF HasSize, Seen
  <2>2. FrameSize = LengthAt(u, 0, config)
    <3>1. config.pos + 1 \in 1..confirmed /\ head + (config.pos + 1) = head + config.pos + 1
      <4> DEFINE p == config.pos
      <4>1. p \in Nat /\ head \in Nat /\ confirmed \in Nat /\ ~(confirmed < p + 1)
        BY <1>1, <1>7
      <4> HIDE DEF p
      <4>2. p + 1 \in 1..confirmed /\ head + (p + 1) = head + p + 1
        BY <4>1
      <4> QED BY <4>2 DEF p
    <3>2. u[config.pos + 1] = bytes[head + config.pos + 1]
      BY <1>2, <3>1
    <3>3. \A q \in Nat : 0 + q + 1 = q + 1
      OBVIOUS
    <3> QED BY <1>1, <1>7, <3>2, <3>3 DEF FrameSize, LengthAt
  <2>3. FrameSize \in Int
    <3>1. head + confirmed <= Len(bytes) /\ confirmed >= LengthEnd(config) /\ config.kind # "FOOTER"
      BY <1>1, <1>7
    <3> QED BY <1>1, <3>1, SizeFacts DEF Inv
  <2>4. FrameSize \in (Header(config) + Footer(config))..Least(config.max, config.capacity)
    BY <1>1, <2>1, <2>3 DEF LengthFits, Least
  <2> QED BY <1>1, <1>3, <1>4, <1>7, <2>1, <2>2, <2>4, KindVerdict DEF LengthVerdict
<1>8. CASE config.kind = "FOOTER" /\ confirmed <= config.max
  <2>1. Ends(u, config) = {}
    <3> SUFFICES ASSUME NEW m \in Ends(u, config) PROVE FALSE
      OBVIOUS
    <3>1. m \in (Header(config) + Footer(config))..confirmed /\ EndsAt(u, m, config)
      BY DEF Ends
    <3>2. m \in Nat /\ m <= Len(u) /\ m >= Footer(config)
      BY <1>1, <3>1
    <3>3. \A i \in 1..Footer(config) : u[m - Footer(config) + i] = config.footer[i]
      BY <1>1, <3>1, <3>2, EndsAtIs
    <3>4. FooterSeen(m, m)
      <4> SUFFICES ASSUME NEW i \in 1..Footer(config)
                   PROVE  bytes[head + m - Footer(config) + i] = config.footer[i]
        BY DEF FooterSeen
      <4>1. /\ m - Footer(config) + i \in 1..confirmed
            /\ head + (m - Footer(config) + i) = head + m - Footer(config) + i
        BY <1>1, <3>2
      <4> QED BY <1>2, <3>3, <4>1
    <3> QED BY <1>1, <1>8, <3>1, <3>4 DEF Seen
  <2>2. FooterVerdict(u, config) = -1
    BY <1>1, <1>8, <2>1, FooterVerdictIs
  <2> QED BY <1>1, <1>3, <1>8, <2>2, KindVerdict
<1>9. CASE config.kind = "FOOTER" /\ ~(confirmed <= config.max)
  BY <1>1, <1>9 DEF Seen
<1> QED BY <1>1, <1>5, <1>6, <1>7, <1>8, <1>9, ConfigFacts

\* Once CDS_receive has looked at every byte and holds no frame, none is left in the stream that
\* it has not found, unless the candidate is one whose length ends before its footer.
THEOREM NoneIsMissed == Spec => []NoFrameMissed
<1>1. SearchInv => NoFrameMissed
  <2> SUFFICES ASSUME SearchInv, pc = "idle", Unprocessed = 0, ~fixed, ~Overrun PROVE found = Frames
    BY DEF NoFrameMissed
  <2> DEFINE more == FramesFrom(stream, config)[Place]
             N == Len(stream)
  <2>1. /\ found \in Seq(Frame) /\ more \in Seq(Frame) /\ Frames = found \o more
        /\ stream \in Seq(Bytes) /\ config \in Configs /\ Extends(stream, stream)
    BY WalkedNow
  <2>2. /\ Len(bytes) \in Nat /\ N \in Nat /\ confirmed \in Nat /\ head = 0 /\ Inv
        /\ Len(bytes) <= N /\ confirmed = Len(bytes)
    BY LenProperties DEF SearchInv, Inv, Typed, Within, BufferIsReceived, Unprocessed
  <2>3. Place = N - Len(bytes) /\ Place \in 0..N
    BY <2>2 DEF Place, FrameDropped
  <2>4. /\ FramesFrom(stream, config)[Place] = FramesAt(FramesFrom(stream, config), stream, Place, config)
    BY <2>1, <2>3, FramesAre
  <2>5. more = <<>>
    <3>1. CASE Place = N
      BY <2>4, <3>1 DEF FramesAt
    <3>2. CASE Place # N
      <4>1. 0 \in 0..Len(bytes) /\ N - Len(bytes) + 0 = Place /\ confirmed > 0 /\ confirmed = Len(bytes) - head
        BY <2>2, <2>3, <3>2
      <4>2. PICK u : /\ Candidate(u, 0) /\ Len(u) = N - (N - Len(bytes) + 0)
                     /\ VerdictAt(stream, N - Len(bytes) + 0, config) = Verdict(u, config)
        BY <2>1, <2>2, <4>1, CandidateOf
      <4>3. Candidate(u, head) /\ Len(u) = confirmed /\ VerdictAt(stream, Place, config) = Verdict(u, config)
        BY <2>2, <4>1, <4>2
      <4>4. CASE Verdict(u, config) = -1
        BY <2>4, <4>3, <4>4 DEF FramesAt
      <4>5. CASE config.kind = "FOOTER" /\ confirmed <= Header(config)
        <5>1. ASSUME NEW p \in Place..N PROVE VerdictAt(stream, p, config) \in {-1, 0}
          <6>1. p \in 0..N /\ N - p <= confirmed
            BY <2>2, <2>3
          <6>2. SubSeq(stream, p + 1, N) \in Seq(Bytes) /\ Len(SubSeq(stream, p + 1, N)) <= confirmed
            <7>1. \A i \in (p + 1)..N : stream[i] \in Bytes
              <8>1. \A i \in (p + 1)..N : i \in 1..N
                BY <2>2, <6>1
              <8> QED BY <2>1, <8>1, ElementOfSeq
            <7>2. /\ SubSeq(stream, p + 1, N) \in Seq(Bytes)
                  /\ Len(SubSeq(stream, p + 1, N)) = IF p + 1 <= N THEN N - (p + 1) + 1 ELSE 0
              BY <2>2, <6>1, <7>1, SubSeqProperties
            <7> QED BY <2>2, <6>1, <7>2
          <6> DEFINE w == SubSeq(stream, p + 1, N)
          <6>3. VerdictAt(stream, p, config) = Verdict(w, config)
            BY DEF VerdictAt
          <6>4. w \in Seq(Bytes) /\ Len(w) <= confirmed /\ Len(w) \in Nat
            BY <6>2, LenProperties
          <6> HIDE DEF w
          <6>5. Ends(w, config) = {}
            <7>1. Header(config) \in Nat /\ Footer(config) \in Nat /\ Footer(config) > 0
              BY <2>1, <4>5, ConfigFacts
            <7> QED BY <2>2, <4>5, <6>4, <7>1 DEF Ends
          <6>6. FooterVerdict(w, config) \in {-1, 0}
            BY <2>1, <6>4, <6>5, FooterVerdictIs
          <6>7. Verdict(w, config) = FooterVerdict(w, config) \/ Verdict(w, config) = 0
            BY <2>1, <4>5, <6>4, KindVerdict DEF Verdict
          <6> QED BY <6>3, <6>6, <6>7
        <5> QED BY <2>1, <2>3, <5>1, NoFrames
      <4> QED BY <4>1, <4>3, <4>4, <4>5, Waiting
    <3> QED BY <3>1, <3>2
  <2> HIDE DEF more
  <2> QED BY <2>1, <2>5, ConcatEmptySeq
<1> QED BY <1>1, SearchInvariance, PTL
-----------------------------------------------------------------------------
(***************************************************************************)
(* What a frame is.                                                        *)
(***************************************************************************)
\* n bytes of s, from the one behind the first a on.
LEMMA PartIs ==
  ASSUME NEW s \in Seq(Bytes), NEW a \in Nat, NEW n \in Nat, a + n <= Len(s)
  PROVE  /\ SubSeq(s, a + 1, a + n) \in Seq(Bytes) /\ Len(SubSeq(s, a + 1, a + n)) = n
         /\ \A i \in 1..n : SubSeq(s, a + 1, a + n)[i] = s[a + i]
<1>1. Len(s) \in Nat
  BY LenProperties
<1>2. \A i \in (a + 1)..(a + n) : s[i] \in Bytes
  <2>1. \A i \in (a + 1)..(a + n) : i \in 1..Len(s)
    BY <1>1
  <2> QED BY <2>1, ElementOfSeq
<1>3. /\ SubSeq(s, a + 1, a + n) \in Seq(Bytes)
      /\ Len(SubSeq(s, a + 1, a + n)) = IF a + 1 <= a + n THEN a + n - (a + 1) + 1 ELSE 0
      /\ \A i \in 1..(a + n - (a + 1) + 1) : SubSeq(s, a + 1, a + n)[i] = s[a + 1 + i - 1]
  BY <1>1, <1>2, SubSeqProperties
<1>4. ASSUME NEW i \in 1..n PROVE i \in 1..(a + n - (a + 1) + 1) /\ a + 1 + i - 1 = a + i
  OBVIOUS
<1>5. \A i \in 1..n : SubSeq(s, a + 1, a + n)[i] = s[a + i]
  BY <1>3, <1>4
<1> QED BY <1>3, <1>5

\* The first n bytes of s.
LEMMA FirstIs ==
  ASSUME NEW s \in Seq(Bytes), NEW n \in Nat, n <= Len(s)
  PROVE  /\ SubSeq(s, 1, n) \in Seq(Bytes) /\ Len(SubSeq(s, 1, n)) = n
         /\ \A i \in 1..n : SubSeq(s, 1, n)[i] = s[i]
<1> DEFINE a == 0
<1>1. a \in Nat /\ a + n <= Len(s) /\ a + 1 = 1 /\ a + n = n /\ \A i \in 1..n : a + i = i
  BY LenProperties
<1> HIDE DEF a
<1>2. /\ SubSeq(s, a + 1, a + n) \in Seq(Bytes) /\ Len(SubSeq(s, a + 1, a + n)) = n
      /\ \A i \in 1..n : SubSeq(s, a + 1, a + n)[i] = s[a + i]
  BY <1>1, PartIs
<1> QED BY <1>1, <1>2

\* The first v bytes of u begin with the header and end with the footer, byte by byte.
LEMMA FramedIs ==
  ASSUME NEW c \in Configs, NEW u \in Seq(Bytes), NEW v \in Nat, v <= Len(u),
         v >= Header(c) + Footer(c), Agrees(u, 0, c.header),
         \A i \in 1..Footer(c) : u[v - Footer(c) + i] = c.footer[i]
  PROVE  /\ SubSeq(u, 1, v) \in Seq(Bytes) /\ Len(SubSeq(u, 1, v)) = v
         /\ IsPrefix(c.header, SubSeq(u, 1, v)) /\ IsSuffix(c.footer, SubSeq(u, 1, v))
<1> DEFINE w == SubSeq(u, 1, v)
           h == c.header
           f == c.footer
<1>1. /\ Header(c) \in Nat /\ Footer(c) \in Nat /\ h \in Seq(Bytes) /\ f \in Seq(Bytes)
      /\ Len(h) = Header(c) /\ Len(f) = Footer(c) /\ Len(u) \in Nat
  BY ConfigFacts, ReceiverAssumption, LenProperties DEF Valid, Header, Footer
<1>2. w \in Seq(Bytes) /\ Len(w) = v /\ \A i \in 1..v : w[i] = u[i]
  BY <1>1, FirstIs
<1>3. \A i \in 1..Len(h) : u[i] = h[i]
  <2>1. \A i \in 1..Len(h) : 0 + i <= Len(u) /\ 0 + i = i
    BY <1>1
  <2> QED BY <2>1 DEF Agrees
<1> HIDE DEF w, h, f
<1>4. IsPrefix(h, w)
  <2> DEFINE n == Len(h)
             a == SubSeq(h, 1, n)
             b == SubSeq(w, 1, n)
  <2>1. n \in Nat /\ n <= v /\ \A i \in 1..n : 0 + i = i
    BY <1>1
  <2>2. a \in Seq(Bytes) /\ Len(a) = n /\ \A i \in 1..n : a[i] = h[i]
    <3>1. n <= Len(h)
      BY <2>1
    <3> HIDE DEF n
    <3> QED BY <1>1, <2>1, <3>1, FirstIs
  <2>3. b \in Seq(Bytes) /\ Len(b) = n /\ \A i \in 1..n : b[i] = w[i]
    <3>1. n <= Len(w)
      BY <1>2, <2>1
    <3> HIDE DEF n
    <3> QED BY <1>2, <2>1, <3>1, FirstIs
  <2>4. \A i \in 1..n : a[i] = b[i]
    <3>1. \A i \in 1..n : i \in 1..v
      BY <2>1
    <3> QED BY <1>2, <1>3, <2>2, <2>3, <3>1
  <2>5. a = b
    <3> HIDE DEF a, b, n
    <3> QED BY <2>1, <2>2, <2>3, <2>4, SeqEqual
  <2> QED BY <1>2, <2>1, <2>5 DEF IsPrefix
<1>5. IsSuffix(f, w)
  <2>1. \A i \in 1..Len(f) : Len(w) - Len(f) + i \in 1..v
    BY <1>1, <1>2
  <2>2. \A i \in 1..Len(f) : w[Len(w) - Len(f) + i] = f[i]
    BY <1>1, <1>2, <2>1 DEF f
  <2>3. IsSuffix(f, w) <=> /\ Len(f) <= Len(w)
                           /\ \A i \in 1..Len(f) : w[Len(w) - Len(f) + i] = f[i]
    BY <1>1, <1>2, SuffixIs
  <2>4. Len(f) <= Len(w)
    BY <1>1, <1>2
  <2> QED BY <2>2, <2>3, <2>4
<1> QED BY <1>2, <1>4, <1>5 DEF w, h, f

\* What a verdict takes for a frame is a whole one, or of a length that is too short.
LEMMA VerdictIsWhole ==
  ASSUME NEW c \in Configs, NEW u \in Seq(Bytes), Verdict(u, c) > 0
  PROVE  IsWhole(SubSeq(u, 1, Verdict(u, c)), c) \/ IsShort(SubSeq(u, 1, Verdict(u, c)), c)
<1> DEFINE v == Verdict(u, c)
           w == SubSeq(u, 1, v)
           H == Header(c)
           F == Footer(c)
<1>1. /\ H \in Nat /\ F \in Nat /\ Len(u) \in Nat /\ c.size \in Int /\ BodyAt(c) \in Nat
      /\ LengthEnd(c) = c.pos + 1 /\ c.pos \in Nat /\ c.max \in Nat /\ c.capacity \in Nat
      /\ c.offset \in Nat /\ c.kind \in {"FIXED", "LENGTH", "FOOTER"}
  BY ConfigFacts, BodyFacts, LenProperties, ReceiverAssumption DEF LengthEnd, Valid
<1>2. v \in 1..Len(u)
  BY VerdictRange
<1>3. Agrees(u, 0, c.header)
  BY DEF Verdict
<1> HIDE DEF v
<1>4. Len(w) = v /\ \A i \in 1..v : w[i] = u[i]
  <2>1. v <= Len(u) /\ v \in Nat
    BY <1>1, <1>2
  <2> QED BY <2>1, FirstIs
<1>5. ASSUME v >= H + F, \A i \in 1..F : u[v - F + i] = c.footer[i]
      PROVE  Len(w) >= H + F /\ IsPrefix(c.header, w) /\ IsSuffix(c.footer, w)
  BY <1>1, <1>2, <1>3, <1>4, <1>5, FramedIs
<1>6. CASE c.kind = "FIXED"
  <2>1. v = SizedVerdict(u, c.size, c) /\ BodyAt(c) = H /\ c.size >= H + F /\ c.size > 0
    BY <1>3, <1>6, KindVerdict, BodyFacts DEF v
  <2>2. v = c.size /\ (F > 0 => ~FooterRefuted(u, v, c))
    BY <1>1, <1>2, <2>1 DEF SizedVerdict
  <2>3. ASSUME NEW i \in 1..F PROVE u[v - F + i] = c.footer[i]
    <3>1. BodyAt(c) < v - F + i /\ v - F + i <= Len(u) /\ F > 0
      BY <1>1, <1>2, <2>1, <2>2
    <3> QED BY <2>2, <3>1 DEF FooterRefuted
  <2> QED BY <1>4, <1>5, <1>6, <2>1, <2>2, <2>3 DEF IsWhole, v
<1>7. CASE c.kind = "LENGTH"
  <2> DEFINE n == LengthAt(u, 0, c)
  <2>1. v = LengthVerdict(u, c) /\ BodyAt(c) = LengthEnd(c)
    BY <1>3, <1>7, KindVerdict, BodyFacts DEF v
  <2>2. /\ ~(Len(u) < LengthEnd(c)) /\ n \in (H + F)..Least(c.max, c.capacity)
        /\ v = SizedVerdict(u, n, c)
    BY <1>2, <2>1 DEF LengthVerdict
  <2> HIDE DEF n
  <2>3. n \in Int /\ n >= H + F /\ n <= c.max /\ n <= c.capacity
    BY <1>1, <2>2 DEF Least
  <2>4. \/ n > BodyAt(c) /\ ~FooterRefuted(u, n, c) /\ v = n
        \/ n <= BodyAt(c) /\ F = 0 /\ v = BodyAt(c)
    BY <1>1, <1>2, <2>2, <2>3 DEF SizedVerdict
  <2>5. v >= c.pos + 1
    BY <1>1, <2>1, <2>3, <2>4
  <2>6. LengthAt(w, 0, c) = n
    <3>1. 0 + c.pos + 1 = c.pos + 1 /\ c.pos + 1 \in 1..v
      BY <1>1, <1>2, <2>5
    <3> QED BY <1>4, <3>1 DEF LengthAt, n
  <2>7. CASE n < LengthEnd(c) + F
    BY <1>7, <2>6, <2>7 DEF IsShort, v
  <2>8. CASE n >= LengthEnd(c) + F
    <3>1. v = n
      BY <1>1, <2>1, <2>3, <2>4, <2>8
    <3>2. ASSUME NEW i \in 1..F PROVE u[v - F + i] = c.footer[i]
      <4>1. BodyAt(c) < v - F + i /\ v - F + i <= Len(u) /\ F > 0
        BY <1>1, <1>2, <2>1, <2>8, <3>1
      <4> QED BY <1>1, <2>4, <3>1, <4>1 DEF FooterRefuted
    <3> QED BY <1>1, <1>4, <1>5, <1>7, <2>3, <2>6, <3>1, <3>2 DEF IsWhole, v
  <2> QED BY <1>1, <2>3, <2>7, <2>8
<1>8. CASE c.kind = "FOOTER"
  <2>1. v = FooterVerdict(u, c)
    BY <1>3, <1>8, KindVerdict DEF v
  <2>2. v \in Ends(u, c)
    BY <1>1, <1>2, <2>1, FooterVerdictIs
  <2>3. v \in Nat /\ v >= H + F /\ v >= F /\ v <= Len(u) /\ v <= c.max /\ EndsAt(u, v, c)
    BY <1>1, <2>2 DEF Ends
  <2>4. \A i \in 1..F : u[v - F + i] = c.footer[i]
    BY <2>3, EndsAtIs
  <2> QED BY <1>4, <1>5, <1>8, <2>3, <2>4 DEF IsWhole, v
<1> QED BY <1>1, <1>6, <1>7, <1>8

\* A frame of s is what the verdict at its place says.
JudgedFrame(f, s, c) == f.at \in 0..Len(s) /\ f.len = VerdictAt(s, f.at, c) /\ f.len > 0

LEMMA FramesAreJudged ==
  ASSUME NEW c \in Configs, NEW s \in Seq(Bytes)
  PROVE  \A i \in 1..Len(FramesFrom(s, c)[0]) : JudgedFrame(FramesFrom(s, c)[0][i], s, c)
<1> DEFINE N == Len(s)
           frames == FramesFrom(s, c)
           Judged(p) == \A i \in 1..Len(frames[p]) : JudgedFrame(frames[p][i], s, c)
           S == {m \in Nat : m <= N => \A p \in (N - m)..N : Judged(p)}
<1>1. N \in Nat
  BY LenProperties
<1>2. \A p \in 0..N : frames[p] = FramesAt(frames, s, p, c) /\ frames[p] \in Seq(Frame)
  BY FramesAre
<1> HIDE DEF frames
<1>3. ASSUME NEW p \in 0..N, \A q \in (p + 1)..N : Judged(q) PROVE Judged(p)
  <2>1. CASE p = N \/ VerdictAt(s, p, c) = -1
    <3>1. frames[p] = <<>>
      BY <1>2, <2>1 DEF FramesAt
    <3> QED BY <3>1
  <2>2. CASE p # N /\ VerdictAt(s, p, c) = 0
    <3>1. p + 1 \in (p + 1)..N
      BY <1>1, <2>2
    <3>2. frames[p] = FramesAt(frames, s, p, c)
      BY <1>2
    <3>3. frames[p] = frames[p + 1]
      BY <2>2, <3>2 DEF FramesAt
    <3> QED BY <1>3, <3>1, <3>3
  <2>3. CASE p # N /\ VerdictAt(s, p, c) \notin {-1, 0}
    <3> DEFINE v == VerdictAt(s, p, c)
               q == Behind(p, v, c)
               one == [at |-> p, len |-> v]
               more == frames[q]
    <3>1. q \in (p + 1)..N /\ <<one>> \in Seq(Frame)
      BY <2>3, BehindRange
    <3>2. frames[p] = <<one>> \o more
      BY <1>2, <2>3 DEF FramesAt
    <3>3. v \in 1..(N - p)
      BY <2>3, VerdictAtRange
    <3>4. JudgedFrame(one, s, c)
      BY <1>1, <3>3 DEF JudgedFrame
    <3>5. Judged(q) /\ more \in Seq(Frame)
      BY <1>1, <1>2, <1>3, <3>1
    <3> HIDE DEF q, one, v
    <3>6. /\ Len(more) \in Nat /\ Len(<<one>>) = 1 /\ Len(frames[p]) = 1 + Len(more)
          /\ \A i \in 1..(1 + Len(more)) : frames[p][i] = IF i <= 1 THEN <<one>>[i] ELSE more[i - 1]
      <4>1. more \in Seq(Frame) /\ Len(<<one>>) = 1
        BY <3>5
      <4> HIDE DEF more
      <4> QED BY <3>1, <3>2, <4>1, ConcatProperties, LenProperties
    <3>7. ASSUME NEW i \in 1..Len(frames[p]) PROVE JudgedFrame(frames[p][i], s, c)
      <4>1. CASE i = 1
        BY <3>4, <3>6, <4>1
      <4>2. CASE i # 1
        <5>1. i - 1 \in 1..Len(more) /\ frames[p][i] = more[i - 1]
          BY <3>6, <4>2
        <5> QED BY <3>5, <5>1
      <4> QED BY <4>1, <4>2
    <3> QED BY <3>7
  <2> QED BY <2>1, <2>2, <2>3
<1> HIDE DEF Judged
<1>4. 0 \in S
  <2> SUFFICES ASSUME NEW p \in (N - 0)..N PROVE Judged(p)
    OBVIOUS
  <2>1. p \in 0..N /\ (p + 1)..N = {}
    BY <1>1
  <2> QED BY <1>3, <2>1
<1>5. ASSUME NEW m \in Nat, m \in S PROVE m + 1 \in S
  <2> SUFFICES ASSUME m + 1 <= N, NEW p \in (N - (m + 1))..N PROVE Judged(p)
    OBVIOUS
  <2>1. m <= N /\ p \in 0..N /\ \A q \in (p + 1)..N : q \in (N - m)..N
    BY <1>1
  <2>2. \A q \in (p + 1)..N : Judged(q)
    BY <1>5, <2>1
  <2> QED BY <1>3, <2>1, <2>2
<1> HIDE DEF S
<1>6. N \in S
  BY <1>1, <1>4, <1>5, NatSetInduction
<1>7. 0 \in (N - N)..N /\ N <= N
  BY <1>1
<1> QED BY <1>6, <1>7 DEF S, Judged, frames

\* A frame that was found is what the verdict says of the bytes that begin at its place.
LEMMA FoundIs ==
  ASSUME SearchInv, NEW i \in DOMAIN found
  PROVE  /\ config \in Configs
         /\ \E u \in Seq(Bytes) : /\ Verdict(u, config) > 0
                                 /\ FoundBytes(i) = SubSeq(u, 1, Verdict(u, config))
<1> DEFINE more == FramesFrom(stream, config)[Place]
<1>1. /\ found \in Seq(Frame) /\ more \in Seq(Frame) /\ Frames = found \o more
      /\ stream \in Seq(Bytes) /\ config \in Configs /\ Len(stream) \in Nat
  BY WalkedNow, LenProperties
<1> HIDE DEF more
<1>2. i \in 1..Len(Frames) /\ Frames[i] = found[i]
  <2>1. /\ Len(found) \in Nat /\ Len(more) \in Nat /\ Len(Frames) = Len(found) + Len(more)
        /\ \A j \in 1..(Len(found) + Len(more)) :
              Frames[j] = IF j <= Len(found) THEN found[j] ELSE more[j - Len(found)]
        /\ DOMAIN found = 1..Len(found)
    BY <1>1, ConcatProperties, LenProperties
  <2> QED BY <2>1
<1>3. JudgedFrame(found[i], stream, config)
  BY <1>1, <1>2, FramesAreJudged DEF Frames
<1> DEFINE p == found[i].at
           v == found[i].len
           u == SubSeq(stream, p + 1, Len(stream))
<1>4. p \in 0..Len(stream) /\ v = VerdictAt(stream, p, config) /\ v > 0
  BY <1>3 DEF JudgedFrame
<1>5. v \in 1..(Len(stream) - p) /\ v = Verdict(u, config)
  BY <1>1, <1>4, VerdictAtRange DEF VerdictAt
<1> HIDE DEF p, v
<1>6. /\ u \in Seq(Bytes) /\ Len(u) = Len(stream) - p
      /\ \A j \in 1..(Len(stream) - p) : u[j] = stream[p + j]
  <2>1. p \in Nat /\ Len(stream) - p \in Nat /\ p + (Len(stream) - p) = Len(stream)
    BY <1>1, <1>4
  <2> DEFINE n == Len(stream) - p
  <2>2. n \in Nat /\ p + n <= Len(stream) /\ u = SubSeq(stream, p + 1, p + n)
    BY <1>1, <2>1
  <2> HIDE DEF n, u
  <2>3. u \in Seq(Bytes) /\ Len(u) = n /\ \A j \in 1..n : u[j] = stream[p + j]
    BY <1>1, <2>1, <2>2, PartIs
  <2> QED BY <2>3 DEF n
<1> HIDE DEF u
<1>7. SubSeq(u, 1, v) = SubSeq(stream, p + 1, p + v)
  <2> DEFINE a == SubSeq(u, 1, v)
             b == SubSeq(stream, p + 1, p + v)
  <2>1. /\ p \in Nat /\ v \in Nat /\ p + v <= Len(stream) /\ v <= Len(u)
        /\ \A j \in 1..v : j \in 1..(Len(stream) - p)
    BY <1>1, <1>4, <1>5, <1>6
  <2>2. a \in Seq(Bytes) /\ Len(a) = v /\ \A j \in 1..v : a[j] = u[j]
    BY <1>6, <2>1, FirstIs
  <2>3. b \in Seq(Bytes) /\ Len(b) = v /\ \A j \in 1..v : b[j] = stream[p + j]
    BY <1>1, <2>1, PartIs
  <2>4. \A j \in 1..v : a[j] = b[j]
    BY <1>6, <2>1, <2>2, <2>3
  <2> HIDE DEF a, b
  <2>5. a = b
    BY <2>1, <2>2, <2>3, <2>4, SeqEqual
  <2> QED BY <2>5 DEF a, b
<1>8. FoundBytes(i) = SubSeq(u, 1, v)
  BY <1>7 DEF FoundBytes, p, v
<1> QED BY <1>1, <1>4, <1>5, <1>6, <1>8

\* A frame with a length reaches behind the length.
LEMMA LengthIsThere ==
  ASSUME NEW c \in Configs, NEW u \in Seq(Bytes), Verdict(u, c) > 0, c.kind = "LENGTH"
  PROVE  Verdict(u, c) >= c.pos + 1
<1> DEFINE n == LengthAt(u, 0, c)
<1>1. /\ Header(c) \in Nat /\ Footer(c) \in Nat /\ LengthEnd(c) = c.pos + 1 /\ BodyAt(c) = c.pos + 1
      /\ c.pos \in Nat /\ c.max \in Nat /\ c.capacity \in Nat
  BY ConfigFacts, BodyFacts, ReceiverAssumption DEF LengthEnd, Valid
<1>2. Verdict(u, c) = LengthVerdict(u, c)
  BY KindVerdict DEF Verdict
<1>3. n \in (Header(c) + Footer(c))..Least(c.max, c.capacity) /\ Verdict(u, c) = SizedVerdict(u, n, c)
  BY <1>2 DEF LengthVerdict
<1> HIDE DEF n
<1>4. n \in Int
  BY <1>1, <1>3 DEF Least
<1> QED BY <1>1, <1>3, <1>4 DEF SizedVerdict

\* Every frame that CDS_analyze_rx_buffer_pickup_ fixes has its header, its length and its whole
\* footer, or a length too short for what it stands in.
THEOREM FoundAreWhole == Spec => []FramesAreWhole
<1>1. SearchInv => FramesAreWhole
  BY FoundIs, VerdictIsWhole DEF FramesAreWhole
<1> QED BY <1>1, SearchInvariance, PTL

\* What driver_super.h:354-357 says of the frames holds if the offset makes up for what precedes
\* the data and for the footer, as when the length counts the data alone.
THEOREM OffsetMakesWhole ==
  ASSUME \A c \in Configs : c.kind = "LENGTH" => c.offset >= LengthEnd(c) + Footer(c)
  PROVE  Spec => []EveryFrameIsWhole
<1>1. SearchInv => EveryFrameIsWhole
  <2> SUFFICES ASSUME SearchInv, NEW i \in DOMAIN found PROVE IsWhole(FoundBytes(i), config)
    BY DEF EveryFrameIsWhole
  <2>1. PICK u \in Seq(Bytes) : Verdict(u, config) > 0 /\ FoundBytes(i) = SubSeq(u, 1, Verdict(u, config))
    BY FoundIs
  <2> DEFINE v == Verdict(u, config)
             w == SubSeq(u, 1, v)
  <2>2. config \in Configs /\ v \in 1..Len(u) /\ v > 0 /\ Len(u) \in Nat
    BY <2>1, FoundIs, VerdictRange, LenProperties
  <2>3. ~IsShort(w, config)
    <3> SUFFICES ASSUME config.kind = "LENGTH"
                 PROVE  ~(LengthAt(w, 0, config) < LengthEnd(config) + Footer(config))
      BY DEF IsShort
    <3>1. /\ config.pos \in Nat /\ config.offset \in Nat /\ LengthEnd(config) \in Nat
          /\ Footer(config) \in Nat /\ config.offset >= LengthEnd(config) + Footer(config)
      BY <2>2, ConfigFacts
    <3>2. v >= config.pos + 1
      BY <2>1, <2>2, LengthIsThere
    <3>3. w \in Seq(Bytes) /\ Len(w) = v
      <4>1. v \in Nat /\ v <= Len(u)
        BY <2>2
      <4> HIDE DEF v
      <4> QED BY <4>1, FirstIs
    <3>4. 0 + config.pos + 1 \in 1..Len(w)
      BY <2>2, <3>1, <3>2, <3>3
    <3>5. w[0 + config.pos + 1] \in Nat
      BY <3>3, <3>4, ElementOfSeq, ReceiverAssumption
    <3> HIDE DEF w
    <3> QED BY <3>1, <3>5 DEF LengthAt
  <2> QED BY <2>1, <2>2, <2>3, VerdictIsWhole
<1> QED BY <1>1, SearchInvariance, PTL
=============================================================================
