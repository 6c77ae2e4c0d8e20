----------------------- MODULE CommandPipelineProofs -----------------------
(***************************************************************************)
(* Theorems about CommandPipeline for every number of timelines, every     *)
(* capacity, every set of commands and blocks and every width of the clock. *)
(*                                                                         *)
(* The inductive invariant joins the type invariant with the order of the  *)
(* timelines, the bounds the clock puts on what has begun, and the packet   *)
(* at the head of the line that is running: each needs the others.  What a  *)
(* deployment does to its line has an invariant of its own (DeployInv).     *)
(***************************************************************************)
EXTENDS CommandPipeline, CommonLemmas

IInv ==
    /\ TypeOK
    /\ TimelineOrdered
    /\ TimelineRunsInOrder
    /\ NothingRunsEarly
    /\ HeadIsRunning

USE CycleAssumption, LineAssumption DEF Running

\* Times are natural numbers below CycleMod, and so is the clock.
LEMMA TimesAreNat ==
  /\ Times \subseteq Nat /\ 0 \in Times /\ 0..(MaxCycle - 1) \subseteq Times
  /\ \A n \in Nat : n % CycleMod \in Times
  /\ \A p \in Packet : p.ti \in Nat /\ p.ti \in Times /\ p.cmd \in Commands
<1>1. /\ Times \subseteq Nat /\ 0 \in Times /\ 0..(MaxCycle - 1) \subseteq Times
      /\ \A n \in Nat : n % CycleMod \in Times
  BY DEF Times
<1>2. \A p \in Packet : p.ti \in Times /\ p.cmd \in Commands
  BY DEF Packet
<1> QED BY <1>1, <1>2

\* The fields of a command tell which line it acts on.
LEMMA CommandFields ==
  ASSUME NEW c \in Commands
  PROVE  /\ c.op = "plain" => c.ok \in BOOLEAN
         /\ c.op = "CLEAR_ALL" => c.on \in Lines
         /\ c.op \in {"CLEAR_ERR_LOG", "APP_INIT"} => c.on \in Lines
         /\ c.op = "CLEAR_TIMELINE_AT" => c.on \in Timelines /\ c.at \in Times
         /\ c.op = "DEPLOY_BLOCK" => c.on \in Timelines /\ c.block \in Blocks
         /\ c.op \in {"SET_SOE_FLAG", "SET_LOUT_FLAG"} => c.on \in Timelines /\ c.flag \in BOOLEAN
         /\ c.op = "SET_TIME" => c.to \in 0..(MaxCycle - 1)
BY CommandAssumption DEF CommandSpace, Lines

\* The deployment record outside a deployment is well typed.
LEMMA NoDeployTyped == NoDeploy \in Deployment
BY TimesAreNat DEF NoDeploy, Deployment, PL_ACKS

\* The empty lines of C2A_core_init satisfy the invariant.
LEMMA InitInv == Init => IInv
<1> SUFFICES ASSUME Init PROVE IInv
  OBVIOUS
<1>1. TypeOK
  <2>1. NoDeploy \in Deployment
    BY NoDeployTyped
  <2>2. lists \in [Lines -> Seq(Packet)]
    BY DEF Init
  <2>3. /\ total \in 0..(MaxCycle - 1) /\ errs \in [Lines -> 0..(ErrMod - 1)]
        /\ lastRun \in [Lines -> Times]
    BY TimesAreNat DEF Init
  <2>4. /\ lockout \in [Lines -> BOOLEAN] /\ soe \in [Lines -> BOOLEAN]
        /\ prev \in [Lines -> Commands \cup {None}] /\ prevErr \in [Lines -> Commands \cup {None}]
        /\ lastFail \in [Lines -> Commands \cup {None}]
    BY DEF Init
  <2>5. line \in Lines /\ stopped \subseteq Lines /\ read \in Times
    BY TimesAreNat DEF Init, Lines
  <2> QED BY <2>1, <2>2, <2>3, <2>4, <2>5 DEF Init, TypeOK
<1>2. \A l \in Lines : DOMAIN lists[l] = {}
  BY DEF Init
<1>3. TimelineOrdered /\ TimelineRunsInOrder
  BY <1>2 DEF TimelineOrdered, TimelineRunsInOrder, Ordered, Lines
<1>4. NothingRunsEarly /\ HeadIsRunning
  BY DEF Init, NothingRunsEarly, HeadIsRunning, Lines
<1> QED BY <1>1, <1>3, <1>4 DEF IInv

-----------------------------------------------------------------------------
\* When one list is replaced by an ordered one whose packets are not before lastRun, and
\* lastRun grows for no line, the three facts about the lists stay true.
LEMMA ListReplaced ==
  ASSUME TypeOK, TimelineOrdered, TimelineRunsInOrder,
         NEW l \in Lines, NEW new \in Seq(Packet), lists' = [lists EXCEPT ![l] = new],
         lastRun' \in [Lines -> Times], \A m \in Lines : lastRun'[m] <= lastRun[m],
         l \in Timelines => Ordered(new),
         l \in Timelines => \A i \in DOMAIN new : lastRun[l] <= new[i].ti
  PROVE  lists' \in [Lines -> Seq(Packet)] /\ TimelineOrdered' /\ TimelineRunsInOrder'
<1>1. lists \in [Lines -> Seq(Packet)] /\ Timelines \subseteq Lines
  BY DEF TypeOK, Lines
<1>2. lists' \in [Lines -> Seq(Packet)] /\ lists'[l] = new
      /\ \A m \in Lines \ {l} : lists'[m] = lists[m]
  BY <1>1
<1>3. TimelineOrdered'
  <2> SUFFICES ASSUME NEW m \in Timelines PROVE Ordered(lists'[m])
    BY DEF TimelineOrdered, Ordered
  <2>1. CASE m = l
    BY <2>1, <1>2
  <2>2. CASE m # l
    BY <2>2, <1>1, <1>2 DEF TimelineOrdered
  <2> QED BY <2>1, <2>2
<1>4. TimelineRunsInOrder'
  <2> SUFFICES ASSUME NEW m \in Timelines, NEW i \in DOMAIN lists'[m]
               PROVE  lastRun'[m] <= lists'[m][i].ti
    BY DEF TimelineRunsInOrder
  <2>1. m \in Lines /\ lastRun[m] \in Nat /\ lastRun'[m] \in Nat /\ lastRun'[m] <= lastRun[m]
    BY <1>1, TimesAreNat DEF TypeOK
  <2>2. lists'[m][i].ti \in Nat
    <3>1. lists'[m] \in Seq(Packet)
      BY <1>2, <2>1
    <3>2. lists'[m][i] \in Packet
      BY <3>1, ElementOfSeq, LenProperties
    <3> QED BY <3>2, TimesAreNat
  <2>3. lastRun[m] <= lists'[m][i].ti
    <3>1. CASE m = l
      BY <3>1, <1>2
    <3>2. CASE m # l
      BY <3>2, <1>1, <1>2 DEF TimelineRunsInOrder
    <3> QED BY <3>1, <3>2
  <2> QED BY <2>1, <2>2, <2>3
<1> QED BY <1>2, <1>3, <1>4

\* The same when the lists do not change.
LEMMA ListsUnchanged ==
  ASSUME TypeOK, TimelineOrdered, TimelineRunsInOrder, lists' = lists,
         lastRun' \in [Lines -> Times], \A m \in Lines : lastRun'[m] <= lastRun[m]
  PROVE  lists' \in [Lines -> Seq(Packet)] /\ TimelineOrdered' /\ TimelineRunsInOrder'
<1>1. GS \in Lines /\ lists[GS] \in Seq(Packet) /\ lists' = [lists EXCEPT ![GS] = lists[GS]]
      /\ GS \notin Timelines
  BY DEF TypeOK, Lines
<1> QED BY <1>1, ListReplaced

\* Emptying a list.
LEMMA ListCleared ==
  ASSUME TypeOK, TimelineOrdered, TimelineRunsInOrder,
         NEW l \in Lines, lists' = [lists EXCEPT ![l] = <<>>],
         lastRun' \in [Lines -> Times], \A m \in Lines : lastRun'[m] <= lastRun[m]
  PROVE  lists' \in [Lines -> Seq(Packet)] /\ TimelineOrdered' /\ TimelineRunsInOrder'
<1>1. <<>> \in Seq(Packet) /\ Ordered(<<>>) /\ DOMAIN <<>> = {}
  BY DEF Ordered
<1> QED BY <1>1, ListReplaced

\* lastRun unchanged or reset is what the two lemmas above ask of it.
LEMMA LastRunKept ==
  ASSUME TypeOK, lastRun' = lastRun \/ lastRun' = [m \in Lines |-> 0]
  PROVE  lastRun' \in [Lines -> Times] /\ \A m \in Lines : lastRun'[m] <= lastRun[m]
<1>0. lastRun \in [Lines -> Times]
  BY DEF TypeOK
<1>1. \A m \in Lines : lastRun[m] \in Nat /\ 0 <= lastRun[m] /\ lastRun[m] <= lastRun[m]
  <2>1. \A m \in Lines : lastRun[m] \in Nat
    BY <1>0, TimesAreNat
  <2>2. \A n \in Nat : 0 <= n /\ n <= n
    OBVIOUS
  <2> QED BY <2>1, <2>2
<1>2. CASE lastRun' = lastRun
  BY <1>0, <1>1, <1>2
<1>3. CASE lastRun' = [m \in Lines |-> 0]
  BY <1>1, <1>3, TimesAreNat
<1> QED BY <1>2, <1>3

-----------------------------------------------------------------------------
\* The timer interrupt preserves the invariant in the middle of any dispatch: when the
\* clock goes back, the history of the lines starts again.
LEMMA TickInv == ASSUME IInv, Tick PROVE IInv'
<1>0. TypeOK /\ TimelineOrdered /\ TimelineRunsInOrder /\ NothingRunsEarly /\ HeadIsRunning
  BY DEF IInv
<1>1. /\ lists' = lists /\ lockout' = lockout /\ soe' = soe /\ prev' = prev
      /\ prevErr' = prevErr /\ errs' = errs /\ pc' = pc /\ line' = line /\ pkt' = pkt
      /\ ok' = ok /\ dep' = dep /\ lastFail' = lastFail /\ stopped' = stopped /\ read' = read
  BY DEF Tick, cdisVars, runVars, soeVars
<1>2. total \in Nat /\ total' \in 0..(MaxCycle - 1) /\ total' \in Nat
  BY <1>0 DEF Tick, NextCycle, TypeOK
<1>3. \/ lastRun' = [m \in Lines |-> 0] /\ (pc = "idle" \/ touched' = TRUE)
      \/ total <= total' /\ lastRun' = lastRun /\ touched' = touched
  <2>1. CASE NextCycle < total
    BY <2>1 DEF Tick
  <2>2. CASE ~(NextCycle < total)
    <3>1. lastRun' = lastRun /\ touched' = touched
      BY <2>2 DEF Tick
    <3>2. total <= total'
      BY <2>2, <1>2 DEF Tick
    <3> QED BY <3>1, <3>2
  <2> QED BY <2>1, <2>2
<1>4. lastRun' \in [Lines -> Times] /\ \A m \in Lines : lastRun'[m] <= lastRun[m]
  BY <1>0, <1>3, LastRunKept
<1>5. lists' \in [Lines -> Seq(Packet)] /\ TimelineOrdered' /\ TimelineRunsInOrder'
  BY <1>0, <1>1, <1>4, ListsUnchanged
<1>6. touched' \in BOOLEAN
  BY <1>0 DEF Tick, TypeOK
<1>7. TypeOK'
  BY <1>0, <1>1, <1>2, <1>4, <1>5, <1>6 DEF TypeOK, BlockLength
<1>8. /\ Timelines \subseteq Lines /\ dep.start \in Nat
      /\ \A l \in Timelines : lastRun[l] \in Nat /\ lastRun'[l] \in Nat
      /\ pc \in Running => pkt.ti \in Nat
      /\ line \in Timelines /\ lists[line] # <<>> => Head(lists[line]).ti \in Nat
  <2>1. line \in Timelines /\ lists[line] # <<>> => Head(lists[line]) \in Packet
    BY <1>0 DEF TypeOK
  <2> QED BY <2>1, <1>0, <1>4, TimesAreNat DEF TypeOK, Deployment, Lines
<1>9. CASE lastRun' = [m \in Lines |-> 0] /\ (pc = "idle" \/ touched' = TRUE)
  <2>1. \A l \in Timelines : lastRun'[l] = 0
    BY <1>9, <1>8
  <2>2. NothingRunsEarly' /\ HeadIsRunning'
    BY <2>1, <1>1, <1>2, <1>8, <1>9 DEF NothingRunsEarly, HeadIsRunning
  <2> QED BY <2>2, <1>5, <1>7 DEF IInv
<1>10. CASE total <= total' /\ lastRun' = lastRun /\ touched' = touched
  <2>1. HeadIsRunning'
    BY <1>0, <1>1, <1>10 DEF HeadIsRunning
  <2>2. NothingRunsEarly'
    BY <1>0, <1>1, <1>2, <1>8, <1>10 DEF NothingRunsEarly
  <2> QED BY <2>1, <2>2, <1>5, <1>7 DEF IInv
<1> QED BY <1>3, <1>9, <1>10

\* Receiving an accepted packet for a timeline.
LEMMA InsertedKeepsInv ==
  ASSUME IInv, NEW l \in Timelines, NEW packet \in Packet,
         InsertAck(lists[l], Capacity[l], packet.ti, total) = "PL_SUCCESS",
         Enqueued(l, packet)
  PROVE  IInv'
<1>0. TypeOK /\ TimelineOrdered /\ TimelineRunsInOrder /\ NothingRunsEarly /\ HeadIsRunning
  BY DEF IInv
<1>1. /\ l \in Lines /\ lists[l] \in Seq(Packet) /\ Capacity[l] \in Nat /\ total \in Nat
      /\ packet.ti \in Nat /\ Ordered(lists[l]) /\ lastRun[l] \in Nat
  BY <1>0, TimesAreNat DEF TypeOK, Lines, TimelineOrdered
<1>2. total <= packet.ti /\ ~Occupied(lists[l], packet.ti)
  BY <1>1, AcceptedIsFree
<1> DEFINE new == Inserted(lists[l], packet)
<1>3. /\ new \in Seq(Packet) /\ Ordered(new)
      /\ \A i \in DOMAIN new : new[i] = packet \/ \E j \in DOMAIN lists[l] : new[i] = lists[l][j]
  <2>1. \A p \in Packet : p.ti \in Nat
    BY TimesAreNat
  <2> QED BY <2>1, <1>1, <1>2, InsertedProperties
<1>4. lists' = [lists EXCEPT ![l] = new] /\ lastRun' = lastRun /\ pc = "idle"
  BY DEF Enqueued
<1> HIDE DEF new
<1>5. \A i \in DOMAIN new : lastRun[l] <= new[i].ti
  BY <1>0, <1>1, <1>2, <1>3 DEF TimelineRunsInOrder, NothingRunsEarly
<1>6. lists' \in [Lines -> Seq(Packet)] /\ TimelineOrdered' /\ TimelineRunsInOrder'
  BY <1>0, <1>1, <1>3, <1>4, <1>5, ListReplaced, LastRunKept
<1>7. TypeOK'
  BY <1>0, <1>6 DEF TypeOK, Enqueued, cdisVars, runVars, soeVars, BlockLength
<1>8. NothingRunsEarly' /\ HeadIsRunning'
  BY <1>0, <1>4 DEF NothingRunsEarly, HeadIsRunning, Enqueued, runVars
<1> QED BY <1>6, <1>7, <1>8 DEF IInv

-----------------------------------------------------------------------------
\* What the steps below read off the invariant.
LEMMA Facts ==
  ASSUME IInv
  PROVE  /\ TypeOK /\ TimelineOrdered /\ TimelineRunsInOrder /\ NothingRunsEarly /\ HeadIsRunning
         /\ lists \in [Lines -> Seq(Packet)] /\ line \in Lines /\ Timelines \subseteq Lines
         /\ total \in Nat /\ total \in Times
         /\ lastRun \in [Lines -> Times] /\ \A l \in Lines : lastRun[l] \in Nat
         /\ dep.start \in Nat /\ dep.start \in Times
         /\ pc \in Running => pkt \in Packet /\ pkt.ti \in Nat /\ pkt.cmd \in Commands
         /\ stopped \subseteq Lines /\ read \in Times /\ (pc = "call" => line \in Timelines)
         /\ \A p \in Packet : p.ti \in Nat
<1>1. TypeOK /\ TimelineOrdered /\ TimelineRunsInOrder /\ NothingRunsEarly /\ HeadIsRunning
  BY DEF IInv
<1>2. /\ lists \in [Lines -> Seq(Packet)] /\ line \in Lines /\ lastRun \in [Lines -> Times]
      /\ dep \in Deployment /\ total \in 0..(MaxCycle - 1) /\ (pc \in Running => pkt \in Packet)
      /\ stopped \subseteq Lines /\ read \in Times /\ (pc = "call" => line \in Timelines)
  BY <1>1 DEF TypeOK
<1>3. total \in Nat /\ total \in Times /\ dep.start \in Times /\ dep.start \in Nat
  BY <1>2, TimesAreNat DEF Deployment
<1>4. \A l \in Lines : lastRun[l] \in Nat
  BY <1>2, TimesAreNat
<1> QED BY <1>1, <1>2, <1>3, <1>4, TimesAreNat DEF Lines

\* Receiving a packet for a line that is not a timeline.
LEMMA ReceiveRealtimeInv ==
  ASSUME IInv, NEW l \in {GS, RT}, NEW cmd \in Uplink[l], ReceiveRealtime(l, cmd)
  PROVE  IInv'
<1> DEFINE packet == [ti |-> 0, cmd |-> cmd]
<1>1. l \in Lines /\ l \notin Timelines
  BY DEF Lines
<1>2. packet \in Packet
  BY <1>1, TimesAreNat, CommandAssumption DEF Packet
<1>3. lists[l] \in Seq(Packet) /\ Append(lists[l], packet) \in Seq(Packet)
  BY <1>1, <1>2, Facts, AppendProperties
<1>4. lists' = [lists EXCEPT ![l] = Append(lists[l], packet)] /\ lastRun' = lastRun /\ pc = "idle"
  BY <1>1 DEF ReceiveRealtime, Enqueued
<1>5. lists' \in [Lines -> Seq(Packet)] /\ TimelineOrdered' /\ TimelineRunsInOrder'
  BY <1>1, <1>3, <1>4, Facts, LastRunKept, ListReplaced
<1>6. TypeOK'
  BY <1>5, Facts DEF TypeOK, ReceiveRealtime, Enqueued, cdisVars, runVars, soeVars, BlockLength
<1>7. NothingRunsEarly' /\ HeadIsRunning'
  BY <1>4, Facts DEF NothingRunsEarly, HeadIsRunning, ReceiveRealtime, Enqueued, runVars
<1> QED BY <1>5, <1>6, <1>7 DEF IInv

\* PH_add_tl_cmd_ preserves the invariant: what it accepts is not before the clock, hence
\* not before anything the line has begun.
LEMMA ReceiveTimelineInv ==
  ASSUME IInv, NEW l \in Timelines, NEW cmd \in Uplink[l], NEW ti \in TiRange,
         ReceiveTimeline(l, cmd, ti) \/ ReceiveAsap(l, cmd, ti)
  PROVE  IInv'
<1>1. cmd \in Commands /\ ti \in Times
  BY CommandAssumption DEF Lines
<1>2. CASE ReceiveTimeline(l, cmd, ti)
  <2> DEFINE packet == [ti |-> ti, cmd |-> cmd]
  <2>1. packet \in Packet /\ packet.ti = ti
    BY <1>1 DEF Packet
  <2>2. Enqueued(l, packet) /\ InsertAck(lists[l], Capacity[l], packet.ti, total) = "PL_SUCCESS"
    BY <1>2 DEF ReceiveTimeline
  <2> HIDE DEF packet
  <2> QED BY <2>1, <2>2, InsertedKeepsInv
<1>3. CASE ReceiveAsap(l, cmd, ti)
  <2>1. PICK asap \in Times :
          /\ InsertAck(lists[l], Capacity[l], asap, total) = "PL_SUCCESS"
          /\ Enqueued(l, [ti |-> asap, cmd |-> cmd])
    BY <1>3 DEF ReceiveAsap
  <2> DEFINE packet == [ti |-> asap, cmd |-> cmd]
  <2>2. packet \in Packet /\ packet.ti = asap
    BY <1>1 DEF Packet
  <2>3. Enqueued(l, packet) /\ InsertAck(lists[l], Capacity[l], packet.ti, total) = "PL_SUCCESS"
    BY <2>1
  <2> HIDE DEF packet
  <2> QED BY <2>2, <2>3, InsertedKeepsInv
<1> QED BY <1>2, <1>3

-----------------------------------------------------------------------------
\* What the check of a timeline tells about the head of its list.
LEMMA CheckedHead ==
  ASSUME IInv, NEW l \in Timelines,
         CheckTl(lists[l], total) \in {"PL_TLC_ON_TIME", "PL_TLC_PAST_TIME"}
  PROVE  /\ lists[l] # <<>> /\ Head(lists[l]) \in Packet /\ Head(lists[l]).ti <= total
         /\ CheckTl(lists[l], total) = "PL_TLC_ON_TIME" => Head(lists[l]).ti = total
<1>1. lists[l] # <<>> /\ lists[l] \in Seq(Packet)
  BY Facts DEF CheckTl
<1>2. Head(lists[l]) = lists[l][1] /\ Head(lists[l]) \in Packet
  BY <1>1
<1>3. lists[l][1].ti = total \/ lists[l][1].ti < total
  BY DEF CheckTl
<1>4. CheckTl(lists[l], total) = "PL_TLC_ON_TIME" => lists[l][1].ti = total
  BY DEF CheckTl
<1> QED BY <1>1, <1>2, <1>3, <1>4, Facts

\* The check of a timeline touches nothing but the lockout.
LEMMA CheckInv == ASSUME IInv, NEW l \in Timelines, CheckTimeline(l) PROVE IInv'
<1>1. /\ lists' = lists /\ lastRun' = lastRun /\ pc' = "call" /\ line' = l /\ read' = total
      /\ UNCHANGED <<total, soe, prev, prevErr, errs, pkt, ok, dep, lastFail, touched>>
      /\ stopped' \subseteq stopped \cup {l}
      /\ lockout' = [lockout EXCEPT ![l] = lockout[l] \/ StopsLate(l)]
  BY DEF CheckTimeline
<1>2. lists' \in [Lines -> Seq(Packet)] /\ TimelineOrdered' /\ TimelineRunsInOrder'
  BY <1>1, Facts, LastRunKept, ListsUnchanged
<1>3. lockout' \in [Lines -> BOOLEAN] /\ stopped' \subseteq Lines /\ l \in Lines
  BY <1>1, Facts DEF TypeOK
<1>4. TypeOK'
  BY <1>1, <1>2, <1>3, Facts DEF TypeOK
<1>5. lists[l] # <<>> /\ Head(lists[l]).ti <= total
  BY CheckedHead DEF CheckTimeline
<1>6. NothingRunsEarly' /\ HeadIsRunning'
  BY <1>1, <1>5, Facts DEF NothingRunsEarly, HeadIsRunning
<1> QED BY <1>2, <1>4, <1>6 DEF IInv

\* A dispatch begins with the head of the list; on a timeline its time has come, and no
\* other packet of the list is earlier.
LEMMA BeginInv == ASSUME IInv, NEW l \in Lines, Begin(l) PROVE IInv'
<1> DEFINE list == lists[l]
<1>1. list \in Seq(Packet) /\ list # <<>> /\ 1 \in DOMAIN list /\ Head(list) = list[1]
      /\ \A i \in DOMAIN list : list[i] \in Packet
  <2>1. list \in Seq(Packet) /\ list # <<>>
    BY Facts DEF Begin
  <2>2. 1 \in DOMAIN list /\ Head(list) = list[1]
    BY <2>1
  <2>3. \A i \in DOMAIN list : list[i] \in Packet
    BY <2>1, ElementOfSeq
  <2> QED BY <2>1, <2>2, <2>3
<1>2. list[1] \in Packet /\ list[1].ti \in Times /\ list[1].ti \in Nat
  BY <1>1, TimesAreNat
<1>3. l \in Timelines /\ ~touched => list[1].ti <= total
  BY <1>1, Facts DEF Begin, Called, NothingRunsEarly
<1>4. /\ lists' = lists /\ total' = total /\ pc' = "exec" /\ line' = l /\ pkt' = list[1]
      /\ lastRun' = IF touched THEN lastRun ELSE [lastRun EXCEPT ![l] = list[1].ti]
      /\ dep' = dep /\ touched' = touched /\ stopped' = stopped /\ read' = 0
  BY <1>1 DEF Begin
<1>5. lastRun' \in [Lines -> Times] /\ (lastRun'[l] = IF touched THEN lastRun[l] ELSE list[1].ti)
      /\ \A m \in Lines \ {l} : lastRun'[m] = lastRun[m]
  BY <1>2, <1>4, Facts
<1>6. TypeOK'
  <2>1. prevErr' \in [Lines -> Commands \cup {None}]
    BY Facts DEF TypeOK, Begin, SavedError
  <2>2. /\ lockout' = lockout /\ soe' = soe /\ prev' = prev /\ errs' = errs /\ ok' = ok
        /\ lastFail' = lastFail
    BY DEF Begin
  <2> QED BY <1>1, <1>2, <1>4, <1>5, <2>1, <2>2, Facts, TimesAreNat DEF TypeOK, BlockLength
<1>7. TimelineOrdered'
  BY <1>4, Facts DEF TimelineOrdered, Ordered
<1>8. TimelineRunsInOrder'
  <2> SUFFICES ASSUME NEW m \in Timelines, NEW i \in DOMAIN lists[m]
               PROVE  lastRun'[m] <= lists[m][i].ti
    BY <1>4 DEF TimelineRunsInOrder
  <2>1. CASE m = l /\ ~touched
    <3>1. i \in DOMAIN list /\ Ordered(list) /\ list[i].ti \in Nat /\ i \in Nat /\ 1 <= i
      BY <2>1, <1>1, Facts DEF TimelineOrdered
    <3>2. list[1].ti <= list[i].ti
      BY <3>1, <1>1, <1>2 DEF Ordered
    <3> QED BY <2>1, <3>2, <1>5
  <2>2. CASE m # l \/ touched
    BY <2>2, <1>4, <1>5, Facts DEF TimelineRunsInOrder
  <2> QED BY <2>1, <2>2
<1>9. NothingRunsEarly'
  <2>1. \A m \in Timelines : lastRun'[m] <= total
    BY <1>3, <1>5, Facts DEF NothingRunsEarly
  <2> QED BY <2>1, <1>3, <1>4 DEF NothingRunsEarly
<1>10. HeadIsRunning'
  BY <1>1, <1>4 DEF HeadIsRunning
<1> QED BY <1>6, <1>7, <1>8, <1>9, <1>10 DEF IInv

\* A call that finds the line locked.
LEMMA RefuseInv == ASSUME IInv, Refuse PROVE IInv'
<1>1. /\ lists' = lists /\ lastRun' = lastRun /\ pc' = "idle" /\ line' = GS /\ read' = 0
      /\ UNCHANGED <<total, lockout, soe, prev, prevErr, errs, pkt, ok, dep, lastFail, stopped>>
      /\ touched' = FALSE
  BY DEF Refuse, cdisVars
<1>2. lists' \in [Lines -> Seq(Packet)] /\ TimelineOrdered' /\ TimelineRunsInOrder'
  BY <1>1, Facts, LastRunKept, ListsUnchanged
<1>3. TypeOK'
  BY <1>1, <1>2, Facts, TimesAreNat DEF TypeOK, Lines
<1>4. NothingRunsEarly' /\ HeadIsRunning'
  BY <1>1, Facts DEF NothingRunsEarly, HeadIsRunning
<1> QED BY <1>2, <1>3, <1>4 DEF IInv

\* The call of a dispatcher preserves the invariant, for every kind of line.
LEMMA DispatchInv == ASSUME IInv, (\E l \in Lines : Dispatch(l)) \/ Call PROVE IInv'
BY CheckInv, BeginInv, RefuseInv DEF Dispatch, Call, Lines

-----------------------------------------------------------------------------
\* The head of the running line stays when the command touches another line, or keeps the
\* head of its own; otherwise the step says it touched it.
LEMMA HeadKept ==
  ASSUME IInv, pc \in Running, line' = line, pkt' = pkt,
         NEW on \in Lines, NEW new, lists' = [lists EXCEPT ![on] = new],
         ~touched' => /\ ~touched
                      /\ on = line => new # <<>> /\ Head(new) = Head(lists[line])
  PROVE  HeadIsRunning'
<1>1. lists \in [Lines -> Seq(Packet)] /\ line \in Lines
  BY Facts
<1> SUFFICES ASSUME ~touched' PROVE lists'[line] # <<>> /\ Head(lists'[line]) = pkt
  BY DEF HeadIsRunning
<1>2. lists[line] # <<>> /\ Head(lists[line]) = pkt
  BY Facts DEF HeadIsRunning
<1>3. CASE on = line
  BY <1>1, <1>2, <1>3
<1>4. CASE on # line
  BY <1>1, <1>2, <1>4
<1> QED BY <1>3, <1>4

\* The commands that leave the lists and the clock alone.
LEMMA ExecSettingInv ==
  ASSUME IInv, ExecPlain \/ ExecClearErrLog \/ ExecSetSoe \/ ExecSetLockout \/ ExecDeployInactive
  PROVE  IInv'
<1>1. /\ pc = "exec" /\ pc' = "finish" /\ lists' = lists /\ total' = total /\ lastRun' = lastRun
      /\ line' = line /\ pkt' = pkt /\ touched' = touched /\ prev' = prev
      /\ read' = read /\ stopped' \subseteq stopped
  BY DEF ExecPlain, ExecClearErrLog, ExecSetSoe, ExecSetLockout, ExecDeployInactive,
         Executes, Returns, cdisVars, soeVars
<1>2. lists' \in [Lines -> Seq(Packet)] /\ TimelineOrdered' /\ TimelineRunsInOrder'
  BY <1>1, Facts, LastRunKept, ListsUnchanged
<1>3. NothingRunsEarly' /\ HeadIsRunning'
  BY <1>1, Facts DEF NothingRunsEarly, HeadIsRunning
<1>4. pkt.cmd \in Commands /\ pkt \in Packet
  BY <1>1, Facts
<1>5. /\ lockout' \in [Lines -> BOOLEAN] /\ soe' \in [Lines -> BOOLEAN] /\ ok' \in BOOLEAN
      /\ prevErr' \in [Lines -> Commands \cup {None}] /\ errs' \in [Lines -> 0..(ErrMod - 1)]
      /\ lastFail' \in [Lines -> Commands \cup {None}] /\ dep' \in Deployment
  <2>1. /\ lockout \in [Lines -> BOOLEAN] /\ soe \in [Lines -> BOOLEAN]
        /\ prevErr \in [Lines -> Commands \cup {None}] /\ errs \in [Lines -> 0..(ErrMod - 1)]
        /\ lastFail \in [Lines -> Commands \cup {None}] /\ dep \in Deployment
    BY Facts DEF TypeOK
  <2>2. CASE ExecPlain
    BY <2>1, <2>2, <1>4, CommandFields DEF ExecPlain, Executes, Returns, cdisVars
  <2>3. CASE ExecClearErrLog
    BY <2>1, <2>3, <1>4, CommandFields DEF ExecClearErrLog, Executes, Returns
  <2>4. CASE ExecSetSoe
    BY <2>1, <2>4, <1>4, CommandFields DEF ExecSetSoe, Executes, Returns, Lines
  <2>5. CASE ExecSetLockout
    BY <2>1, <2>5, <1>4, CommandFields DEF ExecSetLockout, Executes, Returns, Lines
  <2>6. CASE ExecDeployInactive
    <3>1. [NoDeploy EXCEPT !.ack = "PL_BC_INACTIVE_BLOCK"] \in Deployment
      BY NoDeployTyped DEF Deployment, PL_ACKS
    <3> QED BY <2>1, <2>6, <3>1 DEF ExecDeployInactive, cdisVars
  <2> QED BY <2>2, <2>3, <2>4, <2>5, <2>6
<1>6. TypeOK'
  BY <1>1, <1>2, <1>4, <1>5, Facts DEF TypeOK
<1> QED BY <1>2, <1>3, <1>6 DEF IInv

\* The commands that empty a list.
LEMMA ExecClearAllInv == ASSUME IInv, ExecClearAll PROVE IInv'
<1>1. /\ pc = "exec" /\ pc' = "finish" /\ total' = total /\ lastRun' = lastRun
      /\ lists' = [lists EXCEPT ![pkt.cmd.on] = <<>>] /\ ok' = TRUE
      /\ UNCHANGED <<line, pkt, dep, lockout, soe, prev, prevErr, errs, lastFail, stopped, read>>
  BY DEF ExecClearAll, Executes, Returns, cdisVars, soeVars
<1>2. pkt \in Packet /\ pkt.cmd.on \in Lines
  BY <1>1, Facts, CommandFields DEF ExecClearAll, Executes
<1>3. ~touched' => ~touched /\ pkt.cmd.on # line
  BY DEF ExecClearAll
<1>4. touched' \in BOOLEAN
  BY DEF ExecClearAll
<1>5. lists' \in [Lines -> Seq(Packet)] /\ TimelineOrdered' /\ TimelineRunsInOrder'
  BY <1>1, <1>2, Facts, LastRunKept, ListCleared
<1>6. HeadIsRunning'
  BY <1>1, <1>2, <1>3, HeadKept
<1>7. NothingRunsEarly'
  BY <1>1, Facts DEF NothingRunsEarly
<1>8. TypeOK'
  BY <1>1, <1>2, <1>4, <1>5, Facts DEF TypeOK
<1> QED BY <1>5, <1>6, <1>7, <1>8 DEF IInv

\* CDIS_init preserves the invariant, also when it empties the line that is running.
LEMMA ExecAppInitInv == ASSUME IInv, ExecAppInit PROVE IInv'
<1>1. /\ pc = "exec" /\ pc' = "finish" /\ total' = total /\ lastRun' = lastRun
      /\ lists' = [lists EXCEPT ![pkt.cmd.on] = <<>>] /\ ok' = TRUE
      /\ UNCHANGED <<line, pkt, dep, read>> /\ stopped' \subseteq stopped
  BY DEF ExecAppInit, Executes, Returns
<1>2. pkt \in Packet /\ pkt.cmd.on \in Lines
  BY <1>1, Facts, CommandFields DEF ExecAppInit, Executes
<1>3. ~touched' => ~touched /\ pkt.cmd.on # line
  BY DEF ExecAppInit
<1>4. touched' \in BOOLEAN
  BY DEF ExecAppInit
<1>5. lists' \in [Lines -> Seq(Packet)] /\ TimelineOrdered' /\ TimelineRunsInOrder'
  BY <1>1, <1>2, Facts, LastRunKept, ListCleared
<1>6. HeadIsRunning'
  BY <1>1, <1>2, <1>3, HeadKept
<1>7. NothingRunsEarly'
  BY <1>1, Facts DEF NothingRunsEarly
<1>8. /\ lockout' \in [Lines -> BOOLEAN] /\ soe' \in [Lines -> BOOLEAN]
      /\ prev' \in [Lines -> Commands \cup {None}] /\ prevErr' \in [Lines -> Commands \cup {None}]
      /\ errs' \in [Lines -> 0..(ErrMod - 1)] /\ lastFail' \in [Lines -> Commands \cup {None}]
  <2>1. /\ lockout' = [lockout EXCEPT ![pkt.cmd.on] = FALSE]
        /\ soe' = [soe EXCEPT ![pkt.cmd.on] = FALSE]
        /\ prev' = [prev EXCEPT ![pkt.cmd.on] = None]
        /\ prevErr' = [prevErr EXCEPT ![pkt.cmd.on] = None]
        /\ errs' = [errs EXCEPT ![pkt.cmd.on] = 0]
        /\ lastFail' = [lastFail EXCEPT ![pkt.cmd.on] = None]
    BY DEF ExecAppInit
  <2>2. /\ lockout \in [Lines -> BOOLEAN] /\ soe \in [Lines -> BOOLEAN]
        /\ prev \in [Lines -> Commands \cup {None}] /\ prevErr \in [Lines -> Commands \cup {None}]
        /\ errs \in [Lines -> 0..(ErrMod - 1)] /\ lastFail \in [Lines -> Commands \cup {None}]
    BY Facts DEF TypeOK
  <2>3. 0 \in 0..(ErrMod - 1)
    OBVIOUS
  <2> QED BY <2>1, <2>2, <2>3
<1>9. TypeOK'
  BY <1>1, <1>2, <1>4, <1>5, <1>8, Facts DEF TypeOK
<1> QED BY <1>5, <1>6, <1>7, <1>9 DEF IInv

\* Dropping one command: the running one is not touched unless it is the one at that time.
LEMMA ExecClearAtInv == ASSUME IInv, ExecClearAt PROVE IInv'
<1> DEFINE on == pkt.cmd.on
           at == pkt.cmd.at
           new == DropAt(lists[on], at)
<1>1. /\ pc = "exec" /\ pc' = "finish" /\ total' = total /\ lastRun' = lastRun
      /\ lists' = [lists EXCEPT ![on] = new] /\ ok' = (PlannedAt(lists[on], at) # {})
      /\ UNCHANGED <<line, pkt, dep, lockout, soe, prev, prevErr, errs, lastFail, stopped, read>>
  BY DEF ExecClearAt, Executes, Returns, cdisVars, soeVars
<1>2. pkt \in Packet /\ on \in Timelines /\ on \in Lines /\ lists[on] \in Seq(Packet)
  BY <1>1, Facts, CommandFields DEF ExecClearAt, Executes
<1>3. ~touched' => ~touched /\ (on = line => at # pkt.ti)
  BY DEF ExecClearAt
<1>4. touched' \in BOOLEAN /\ ok' \in BOOLEAN
  BY <1>1 DEF ExecClearAt
<1>5. /\ new \in Seq(Packet)
      /\ Ordered(lists[on]) => Ordered(new)
      /\ \A i \in DOMAIN new : \E j \in DOMAIN lists[on] : new[i] = lists[on][j]
      /\ lists[on] # <<>> /\ lists[on][1].ti # at => new # <<>> /\ new[1] = lists[on][1]
  <2>1. \A p \in Packet : p.ti \in Nat
    BY TimesAreNat
  <2> QED BY <2>1, <1>2, DropAtProperties
<1> HIDE DEF new
<1>6. \A i \in DOMAIN new : lastRun[on] <= new[i].ti
  BY <1>2, <1>5, Facts DEF TimelineRunsInOrder
<1>7. lists' \in [Lines -> Seq(Packet)] /\ TimelineOrdered' /\ TimelineRunsInOrder'
  <2>1. Ordered(new)
    BY <1>2, <1>5, Facts DEF TimelineOrdered
  <2> QED BY <2>1, <1>1, <1>2, <1>5, <1>6, Facts, LastRunKept, ListReplaced
<1>8. HeadIsRunning'
  <2>1. on = line /\ ~touched' => new # <<>> /\ Head(new) = Head(lists[line])
    <3> SUFFICES ASSUME on = line, ~touched' PROVE new # <<>> /\ Head(new) = Head(lists[line])
      OBVIOUS
    <3>1. lists[on] # <<>> /\ lists[on][1] = pkt /\ Head(lists[on]) = lists[on][1]
      BY <1>1, <1>2, <1>3, Facts DEF HeadIsRunning
    <3>2. new # <<>> /\ new[1] = lists[on][1]
      BY <3>1, <1>3, <1>5
    <3> QED BY <3>1, <3>2, <1>5
  <2> QED BY <2>1, <1>1, <1>2, <1>3, HeadKept
<1>9. NothingRunsEarly'
  BY <1>1, Facts DEF NothingRunsEarly
<1>10. TypeOK'
  BY <1>1, <1>2, <1>4, <1>7, Facts DEF TypeOK
<1> QED BY <1>7, <1>8, <1>9, <1>10 DEF IInv

\* Cmd_TMGR_SET_TIME preserves the invariant, forwards and backwards.
LEMMA ExecSetTimeInv == ASSUME IInv, ExecSetTime PROVE IInv'
<1>1. /\ pc = "exec" /\ pc' = "finish" /\ lists' = lists /\ total' = pkt.cmd.to /\ ok' = TRUE
      /\ UNCHANGED <<line, pkt, dep, lockout, soe, prev, prevErr, errs, lastFail, stopped, read>>
  BY DEF ExecSetTime, Executes, Returns, cdisVars, soeVars
<1>2. pkt \in Packet /\ total' \in 0..(MaxCycle - 1) /\ total' \in Nat
  <2>1. pkt \in Packet /\ pkt.cmd \in Commands /\ pkt.cmd.op = "SET_TIME"
    BY <1>1, Facts DEF ExecSetTime, Executes
  <2>2. pkt.cmd.to \in 0..(MaxCycle - 1)
    BY <2>1, CommandFields
  <2> QED BY <1>1, <2>1, <2>2
<1>3. touched' \in BOOLEAN
  BY DEF ExecSetTime
<1>4. \/ total <= total' /\ lastRun' = [l \in Lines |-> lastRun[l]] /\ (~touched' => ~touched)
      \/ lastRun' = [l \in Lines |-> 0] /\ touched' = TRUE
  <2>1. CASE total' < total
    BY <2>1 DEF ExecSetTime
  <2>2. CASE ~(total' < total)
    <3>1. lastRun' = [l \in Lines |-> lastRun[l]] /\ (~touched' => ~touched)
      BY <2>2 DEF ExecSetTime
    <3>2. total <= total'
      BY <2>2, <1>2, Facts
    <3> QED BY <3>1, <3>2
  <2> QED BY <2>1, <2>2
<1>5. lastRun' = lastRun \/ lastRun' = [l \in Lines |-> 0]
  BY <1>4, Facts
<1>6. lastRun' \in [Lines -> Times] /\ \A l \in Lines : lastRun'[l] <= lastRun[l]
  BY <1>5, Facts, LastRunKept
<1>7. lists' \in [Lines -> Seq(Packet)] /\ TimelineOrdered' /\ TimelineRunsInOrder'
  BY <1>1, <1>6, Facts, ListsUnchanged
<1>8. NothingRunsEarly'
  <2>1. CASE total <= total' /\ lastRun' = [l \in Lines |-> lastRun[l]]
    <3>1. \A l \in Timelines : lastRun[l] <= total /\ l \in Lines /\ lastRun[l] \in Nat
      BY Facts DEF NothingRunsEarly
    <3>2. \A l \in Timelines : lastRun'[l] <= total'
      BY <3>1, <2>1, <1>2, Facts
    <3> QED BY <3>2, <1>1 DEF NothingRunsEarly
  <2>2. CASE lastRun' = [l \in Lines |-> 0]
    <3>1. \A l \in Timelines : lastRun'[l] <= total'
      BY <2>2, <1>2, Facts
    <3> QED BY <3>1, <1>1 DEF NothingRunsEarly
  <2> QED BY <2>1, <2>2, <1>4
<1>9. HeadIsRunning'
  <2>1. ~touched' => ~touched
    BY <1>4
  <2> QED BY <2>1, <1>1, Facts DEF HeadIsRunning
<1>10. TypeOK'
  BY <1>1, <1>2, <1>3, <1>6, <1>7, Facts DEF TypeOK
<1> QED BY <1>7, <1>8, <1>9, <1>10 DEF IInv

-----------------------------------------------------------------------------
\* The start of a deployment: the line is kept, or emptied.
LEMMA ExecDeployInv == ASSUME IInv, ExecDeploy PROVE IInv'
<1> DEFINE on == pkt.cmd.on
           noRoom == NoRoom(lists[on], Capacity[on], Len(BlockCmds[pkt.cmd.block]))
           kept == IF noRoom THEN <<>> ELSE lists[on]
<1>1. /\ pc = "exec" /\ pc' = "deploy" /\ total' = total /\ lastRun' = lastRun
      /\ lists' = [lists EXCEPT ![on] = kept]
      /\ dep' = [NoDeploy EXCEPT !.on = on, !.block = pkt.cmd.block, !.start = total,
                                 !.cleared = noRoom, !.before = ToSet(kept)]
      /\ UNCHANGED <<line, pkt, ok, lockout, soe, prev, prevErr, errs, lastFail, stopped, read>>
  BY DEF ExecDeploy, Executes, cdisVars, soeVars
<1>2. /\ pkt \in Packet /\ on \in Timelines /\ on \in Lines /\ pkt.cmd.block \in Blocks
      /\ lists[on] \in Seq(Packet)
  BY <1>1, Facts, CommandFields DEF ExecDeploy, Executes
<1>3. touched' \in BOOLEAN /\ (~touched' => ~touched /\ (on = line => ~noRoom))
  BY DEF ExecDeploy
<1>4. noRoom \in BOOLEAN
  BY DEF NoRoom
<1> HIDE DEF noRoom
<1>5. kept \in Seq(Packet) /\ ToSet(kept) \in SUBSET Packet
  <2>1. kept \in Seq(Packet)
    BY <1>2
  <2> QED BY <2>1, ElementOfSeq DEF ToSet
<1>6. lists' \in [Lines -> Seq(Packet)] /\ TimelineOrdered' /\ TimelineRunsInOrder'
  <2>1. CASE noRoom
    BY <2>1, <1>1, <1>2, Facts, LastRunKept, ListCleared
  <2>2. CASE ~noRoom
    <3>1. lists' = lists
      BY <2>2, <1>1, <1>2, Facts
    <3> QED BY <3>1, <1>1, Facts, LastRunKept, ListsUnchanged
  <2> QED BY <2>1, <2>2
<1>7. HeadIsRunning'
  <2>1. on = line /\ ~touched' => kept # <<>> /\ Head(kept) = Head(lists[line])
    BY <1>1, <1>3, Facts DEF HeadIsRunning
  <2> HIDE DEF kept
  <2> QED BY <2>1, <1>1, <1>2, <1>3, HeadKept
<1>8. dep' \in Deployment /\ dep'.on = on /\ dep'.block = pkt.cmd.block /\ dep'.i = 0
      /\ dep'.placed = <<>> /\ dep'.start = total
  <2> HIDE DEF kept
  <2>1. NoDeploy \in Deployment
    BY NoDeployTyped
  <2>2. total \in Times
    BY Facts
  <2>3. dep' \in Deployment
    BY <1>1, <1>2, <1>4, <1>5, <2>1, <2>2 DEF Deployment
  <2> QED BY <2>3, <1>1 DEF NoDeploy
<1>9. NothingRunsEarly'
  BY <1>1, <1>3, <1>8, Facts DEF NothingRunsEarly
<1>10. BlockLength' \in Nat
  BY <1>2, <1>8, BlockAssumption DEF BlockLength
<1>11. TypeOK'
  <2>1. dep'.i <= BlockLength' /\ Len(dep'.placed) = dep'.i
    BY <1>8, <1>10
  <2> QED BY <2>1, <1>1, <1>2, <1>3, <1>6, <1>8, Facts DEF TypeOK
<1> QED BY <1>6, <1>7, <1>9, <1>11 DEF IInv

\* What a deployment has found before it inserts: a free time not before its start.
LEMMA PlacedProperties ==
  ASSUME IInv, pc = "deploy", dep.i < BlockLength
  PROVE  /\ dep.on \in Timelines /\ dep.block \in Blocks /\ BlockLength \in Nat
         /\ Placed \in Packet /\ Moved \in Nat /\ PlaceAck \in PL_ACKS
         /\ PlaceAck = "PL_SUCCESS" =>
               /\ dep.start <= Placed.ti /\ ~Occupied(lists[dep.on], Placed.ti)
               /\ Len(lists[dep.on]) < Capacity[dep.on]
<1>1. /\ dep \in Deployment /\ dep.on \in Timelines /\ dep.on \in Lines /\ dep.block \in Blocks
      /\ lists[dep.on] \in Seq(Packet) /\ Capacity[dep.on] \in Nat
  BY Facts DEF TypeOK
<1>2. dep.i \in Nat /\ dep.adj \in Nat /\ dep.start \in Nat
  BY <1>1, Facts DEF Deployment
<1>3. BlockLength \in Nat /\ BlockCmds[dep.block][dep.i + 1] \in Packet
  <2>1. BlockCmds[dep.block] \in Seq(Packet)
    BY <1>1, BlockAssumption
  <2>2. BlockLength \in Nat /\ dep.i + 1 \in 1..Len(BlockCmds[dep.block])
    BY <2>1, <1>2 DEF BlockLength
  <2> QED BY <2>1, <2>2, ElementOfSeq
<1>4. Planned \in Times /\ Planned \in Nat
  <2>1. BlockCmds[dep.block][dep.i + 1].ti \in Nat
    BY <1>3, TimesAreNat
  <2>2. dep.start + dep.adj + BlockCmds[dep.block][dep.i + 1].ti \in Nat
    BY <2>1, <1>2
  <2>3. Planned \in Times
    BY <2>2, TimesAreNat DEF Planned
  <2> QED BY <2>3, TimesAreNat
<1>5. Moved \in Nat
  <2>1. Moved \in 0..(Len(lists[dep.on]) + 1)
    BY <1>1, ShiftProperties DEF Moved
  <2>2. Len(lists[dep.on]) \in Nat
    BY <1>1
  <2> QED BY <2>1, <2>2
<1>6. Placed \in Packet /\ Placed.ti \in Nat
  <2>1. (Planned + Moved) % CycleMod \in Times
    BY <1>4, <1>5, TimesAreNat
  <2>2. Placed \in Packet
    BY <2>1, <1>3, TimesAreNat DEF Placed, Packet
  <2> QED BY <2>2, TimesAreNat
<1>7. PlaceAck \in PL_ACKS
  BY DEF PlaceAck, PL_ACKS, InsertAck
<1>8. ASSUME PlaceAck = "PL_SUCCESS"
      PROVE  /\ dep.start <= Placed.ti /\ ~Occupied(lists[dep.on], Placed.ti)
             /\ Len(lists[dep.on]) < Capacity[dep.on]
  <2>1. InsertAck(lists[dep.on], Capacity[dep.on], Placed.ti, dep.start) = "PL_SUCCESS"
    BY <1>8 DEF PlaceAck
  <2> QED BY <2>1, <1>1, <1>2, <1>6, AcceptedIsFree
<1> QED BY <1>1, <1>3, <1>5, <1>6, <1>7, <1>8

\* One command of a block is placed behind the running command and behind all that began.
LEMMA DeployPlaceInv == ASSUME IInv, DeployPlace PROVE IInv'
<1> DEFINE on == dep.on
           new == Inserted(lists[on], Placed)
<1>1. /\ pc = "deploy" /\ dep.i < BlockLength /\ PlaceAck = "PL_SUCCESS"
      /\ lists' = [lists EXCEPT ![on] = new]
      /\ dep' = [dep EXCEPT !.i = dep.i + 1, !.adj = dep.adj + Moved,
                            !.placed = Append(dep.placed, Placed.ti)]
      /\ pc' = pc /\ total' = total /\ lastRun' = lastRun /\ line' = line /\ pkt' = pkt
      /\ ok' = ok /\ touched' = touched /\ lastFail' = lastFail
      /\ UNCHANGED <<lockout, soe, prev, prevErr, errs, stopped, read>>
  BY DEF DeployPlace, cdisVars, soeVars
<1>2. /\ on \in Timelines /\ on \in Lines /\ dep.block \in Blocks /\ BlockLength \in Nat
      /\ Placed \in Packet /\ Placed.ti \in Times /\ Placed.ti \in Nat /\ Moved \in Nat
      /\ dep.start <= Placed.ti /\ ~Occupied(lists[on], Placed.ti)
      /\ lists[on] \in Seq(Packet) /\ Ordered(lists[on])
  BY <1>1, PlacedProperties, Facts, TimesAreNat DEF TimelineOrdered
<1>3. /\ new \in Seq(Packet) /\ Ordered(new)
      /\ \A i \in DOMAIN new : new[i] = Placed \/ \E j \in DOMAIN lists[on] : new[i] = lists[on][j]
      /\ lists[on] # <<>> /\ lists[on][1].ti <= Placed.ti => new[1] = lists[on][1]
      /\ Len(new) = Len(lists[on]) + 1
  <2>1. \A p \in Packet : p.ti \in Nat
    BY TimesAreNat
  <2>2. lists[on] \in Seq(Packet) /\ Placed \in Packet /\ ~Occupied(lists[on], Placed.ti)
        /\ Ordered(lists[on])
    BY <1>2
  <2> DEFINE list == lists[on]
             packet == Placed
  <2> SUFFICES
        /\ Inserted(list, packet) \in Seq(Packet) /\ Ordered(Inserted(list, packet))
        /\ \A i \in DOMAIN Inserted(list, packet) :
              Inserted(list, packet)[i] = packet \/ \E j \in DOMAIN list : Inserted(list, packet)[i] = list[j]
        /\ list # <<>> /\ list[1].ti <= packet.ti => Inserted(list, packet)[1] = list[1]
        /\ Len(Inserted(list, packet)) = Len(list) + 1
    OBVIOUS
  <2>3. list \in Seq(Packet) /\ packet \in Packet /\ ~Occupied(list, packet.ti) /\ Ordered(list)
    BY <2>2
  <2> HIDE DEF list, packet
  <2> HIDE <1>1, <1>2
  <2> QED BY <2>1, <2>3, InsertedProperties
<1> HIDE DEF new
<1>4. \A i \in DOMAIN new : lastRun[on] <= new[i].ti
  <2>1. lastRun[on] \in Nat /\ lastRun[on] <= dep.start /\ dep.start \in Nat
    BY <1>1, <1>2, Facts DEF NothingRunsEarly
  <2>2. lastRun[on] <= Placed.ti
    BY <2>1, <1>2
  <2>3. \A j \in DOMAIN lists[on] : lastRun[on] <= lists[on][j].ti
    BY <1>2, Facts DEF TimelineRunsInOrder
  <2> QED BY <2>2, <2>3, <1>3
<1>5. lists' \in [Lines -> Seq(Packet)] /\ TimelineOrdered' /\ TimelineRunsInOrder'
  BY <1>1, <1>2, <1>3, <1>4, Facts, LastRunKept, ListReplaced
<1>6. HeadIsRunning'
  <2>1. on = line /\ ~touched' => new # <<>> /\ Head(new) = Head(lists[line])
    <3> SUFFICES ASSUME on = line, ~touched' PROVE new # <<>> /\ Head(new) = Head(lists[line])
      OBVIOUS
    <3>1. lists[on] # <<>> /\ Head(lists[on]) = pkt /\ lists[on][1] = pkt
      BY <1>1, <1>2, Facts DEF HeadIsRunning
    <3>2. pkt.ti <= dep.start /\ pkt.ti \in Nat /\ dep.start \in Nat
      BY <1>1, <1>2, Facts DEF NothingRunsEarly
    <3>3. lists[on][1].ti <= Placed.ti
      BY <3>1, <3>2, <1>2
    <3>4. new[1] = pkt
      BY <3>1, <3>3, <1>3
    <3>5. new # <<>> /\ Head(new) = new[1]
      BY <1>2, <1>3
    <3> QED BY <3>1, <3>4, <3>5
  <2> QED BY <2>1, <1>1, <1>2, HeadKept
<1>7. /\ dep' \in Deployment /\ dep'.on = on /\ dep'.block = dep.block /\ dep'.start = dep.start
      /\ dep'.i = dep.i + 1 /\ dep'.placed = Append(dep.placed, Placed.ti)
      /\ Len(dep'.placed) = dep.i + 1 /\ dep.i \in Nat
  <2>1. dep \in Deployment /\ Len(dep.placed) = dep.i
    BY <1>1, Facts DEF TypeOK
  <2>2. dep.i \in Nat /\ dep.adj \in Nat /\ dep.placed \in Seq(Times)
    BY <2>1 DEF Deployment
  <2>3. Append(dep.placed, Placed.ti) \in Seq(Times) /\ Len(Append(dep.placed, Placed.ti)) = dep.i + 1
    BY <2>1, <2>2, <1>2, AppendProperties
  <2>4. dep.i + 1 \in Nat /\ dep.adj + Moved \in Nat
    BY <2>2, <1>2
  <2> DEFINE placed == Append(dep.placed, Placed.ti)
             adj == dep.adj + Moved
             next == dep.i + 1
  <2> HIDE DEF placed, adj, next
  <2>5. dep' = [dep EXCEPT !.i = next, !.adj = adj, !.placed = placed]
    BY <1>1 DEF placed, adj, next
  <2>6. next \in Nat /\ adj \in Nat /\ placed \in Seq(Times)
    BY <2>3, <2>4 DEF placed, adj, next
  <2>7. dep' \in Deployment /\ dep'.on = on /\ dep'.block = dep.block /\ dep'.start = dep.start
        /\ dep'.i = next /\ dep'.placed = placed
    BY <2>1, <2>5, <2>6 DEF Deployment
  <2> QED BY <2>2, <2>3, <2>7 DEF placed, next
<1>8. NothingRunsEarly'
  BY <1>1, <1>7, Facts DEF NothingRunsEarly
<1>9. TypeOK'
  <2>1. BlockLength' = BlockLength /\ dep'.i <= BlockLength'
    BY <1>1, <1>2, <1>7 DEF BlockLength
  <2> QED BY <2>1, <1>1, <1>2, <1>5, <1>7, Facts DEF TypeOK
<1> QED BY <1>5, <1>6, <1>8, <1>9 DEF IInv

\* The end of a deployment.
LEMMA DeployEndInv == ASSUME IInv, DeployAbort \/ DeployDone PROVE IInv'
<1>0. ok' \in BOOLEAN
  <2>1. \A ack : DeployOk(ack) \in BOOLEAN
    BY DEF DeployOk
  <2> QED BY <2>1 DEF DeployAbort, DeployDone
<1>1. /\ pc = "deploy" /\ pc' = "finish"
      /\ UNCHANGED <<total, lists, lockout, soe, prev, prevErr, errs, line, pkt,
                     lastRun, lastFail, touched, stopped, read>>
  BY DEF DeployAbort, DeployDone, cdisVars, soeVars
<1>2. dep' \in Deployment
  <2>1. dep \in Deployment
    BY Facts DEF TypeOK
  <2>2. CASE DeployAbort
    <3>1. PlaceAck \in PL_ACKS /\ dep' = [dep EXCEPT !.ack = PlaceAck]
      BY <2>2, PlacedProperties DEF DeployAbort
    <3> QED BY <2>1, <3>1 DEF Deployment
  <2>3. CASE DeployDone
    <3>1. DeployResult \in PL_ACKS /\ dep' = [dep EXCEPT !.ack = DeployResult]
      BY <2>3 DEF DeployDone, DeployResult, PL_ACKS
    <3> QED BY <2>1, <3>1 DEF Deployment
  <2> QED BY <2>2, <2>3
<1>3. lists' \in [Lines -> Seq(Packet)] /\ TimelineOrdered' /\ TimelineRunsInOrder'
  BY <1>1, Facts, LastRunKept, ListsUnchanged
<1>4. NothingRunsEarly' /\ HeadIsRunning'
  BY <1>1, Facts DEF NothingRunsEarly, HeadIsRunning
<1>5. TypeOK'
  BY <1>0, <1>1, <1>2, <1>3, Facts DEF TypeOK
<1> QED BY <1>3, <1>4, <1>5 DEF IInv

-----------------------------------------------------------------------------
\* The end of a dispatch: whatever is at the head of the list is dropped.
LEMMA FinishInv == ASSUME IInv, Finish PROVE IInv'
<1> DEFINE new == DropExecuted(lists[line])
<1>1. /\ pc = "finish" /\ pc' = "idle" /\ lists' = [lists EXCEPT ![line] = new]
      /\ total' = total /\ lastRun' = lastRun /\ soe' = soe /\ prevErr' = prevErr
      /\ line' = GS /\ pkt' = NoPacket /\ ok' = TRUE /\ dep' = NoDeploy /\ touched' = FALSE
      /\ read' = read /\ stopped' \subseteq stopped \cup {line}
  BY DEF Finish
<1>2. line \in Lines /\ lists[line] \in Seq(Packet) /\ pkt.cmd \in Commands
  BY <1>1, Facts
<1>3. /\ new \in Seq(Packet)
      /\ Ordered(lists[line]) => Ordered(new)
      /\ \A i \in DOMAIN new : \E j \in DOMAIN lists[line] : new[i] = lists[line][j]
  <2>1. \A p \in Packet : p.ti \in Nat
    BY TimesAreNat
  <2>2. CASE lists[line] = <<>>
    BY <2>2, <1>2 DEF DropExecuted
  <2>3. CASE lists[line] # <<>>
    BY <2>1, <2>3, <1>2, TailKeepsOrder DEF DropExecuted
  <2> QED BY <2>2, <2>3
<1> HIDE DEF new
<1>4. lists' \in [Lines -> Seq(Packet)] /\ TimelineOrdered' /\ TimelineRunsInOrder'
  <2>1. line \in Timelines => Ordered(new)
    BY <1>3, Facts DEF TimelineOrdered
  <2>2. line \in Timelines => \A i \in DOMAIN new : lastRun[line] <= new[i].ti
    BY <1>3, Facts DEF TimelineRunsInOrder
  <2> QED BY <2>1, <2>2, <1>1, <1>2, <1>3, Facts, LastRunKept, ListReplaced
<1>5. /\ prev' \in [Lines -> Commands \cup {None}] /\ errs' \in [Lines -> 0..(ErrMod - 1)]
      /\ lockout' \in [Lines -> BOOLEAN] /\ lastFail' \in [Lines -> Commands \cup {None}]
  <2>1. /\ prev \in [Lines -> Commands \cup {None}] /\ errs \in [Lines -> 0..(ErrMod - 1)]
        /\ lockout \in [Lines -> BOOLEAN] /\ lastFail \in [Lines -> Commands \cup {None}]
        /\ soe \in [Lines -> BOOLEAN]
    BY Facts DEF TypeOK
  <2>2. CASE ok
    BY <2>1, <2>2, <1>2 DEF Finish
  <2>3. CASE ~ok
    <3>1. /\ prev' = [prev EXCEPT ![line] = pkt.cmd]
          /\ errs' = [errs EXCEPT ![line] = (errs[line] + 1) % ErrMod]
          /\ lockout' = [lockout EXCEPT ![line] = lockout[line] \/ soe[line]]
          /\ lastFail' = [lastFail EXCEPT ![line] = pkt.cmd]
      BY <2>3 DEF Finish
    <3>2. (errs[line] + 1) % ErrMod \in 0..(ErrMod - 1)
      BY <2>1, <1>2
    <3> QED BY <2>1, <3>1, <3>2, <1>2
  <2> QED BY <2>2, <2>3
<1>6. NothingRunsEarly' /\ HeadIsRunning'
  BY <1>1, Facts DEF NothingRunsEarly, HeadIsRunning, Lines
<1>7. TypeOK'
  BY <1>1, <1>4, <1>5, Facts, NoDeployTyped DEF TypeOK, Lines
<1> QED BY <1>4, <1>6, <1>7 DEF IInv

-----------------------------------------------------------------------------
\* The invariant is inductive.
THEOREM Invariance == Spec => []IInv
<1>1. Init => IInv
  BY InitInv
<1>2. IInv /\ [Next]_vars => IInv'
  <2> SUFFICES ASSUME IInv, [Next]_vars PROVE IInv'
    OBVIOUS
  <2>1. CASE Tick
    BY <2>1, TickInv
  <2>2. CASE Receive
    BY <2>2, ReceiveRealtimeInv, ReceiveTimelineInv DEF Receive
  <2>3. CASE (\E l \in Lines : Dispatch(l)) \/ Call
    BY <2>3, DispatchInv
  <2>4. CASE Execute
    BY <2>4, ExecSettingInv, ExecClearAllInv, ExecClearAtInv, ExecAppInitInv, ExecSetTimeInv,
       ExecDeployInv, DeployPlaceInv, DeployEndInv DEF Execute
  <2>5. CASE Finish
    BY <2>5, FinishInv
  <2>6. CASE UNCHANGED vars
    <3>1. /\ lists' = lists /\ total' = total /\ pc' = pc /\ line' = line /\ pkt' = pkt /\ ok' = ok
          /\ dep' = dep /\ lastRun' = lastRun /\ touched' = touched /\ lastFail' = lastFail
          /\ UNCHANGED <<lockout, soe, prev, prevErr, errs, stopped, read>>
      BY <2>6 DEF vars
    <3>2. lists' \in [Lines -> Seq(Packet)] /\ TimelineOrdered' /\ TimelineRunsInOrder'
      BY <3>1, Facts, LastRunKept, ListsUnchanged
    <3>3. TypeOK' /\ NothingRunsEarly' /\ HeadIsRunning'
      BY <3>1, Facts DEF TypeOK, NothingRunsEarly, HeadIsRunning, BlockLength
    <3> QED BY <3>2, <3>3 DEF IInv
  <2> QED BY <2>1, <2>2, <2>3, <2>4, <2>5, <2>6 DEF Next
<1> QED BY <1>1, <1>2, PTL DEF Spec

\* Every variable keeps its type, the clock its range, and a deployment its bounds
\* (obc_time.c, command_dispatcher.c, packet_list.c).
THEOREM TypeCorrect == Spec => []TypeOK
<1>1. IInv => TypeOK
  BY DEF IInv
<1> QED BY <1>1, Invariance, PTL

\* The timelines stay strictly ordered by time (PL_insert_tl_cmd), whatever is received,
\* deployed, cleared and executed.
THEOREM TimelinesOrdered == Spec => []TimelineOrdered
<1>1. IInv => TimelineOrdered
  BY DEF IInv
<1> QED BY <1>1, Invariance, PTL

\* Between two moments at which the clock goes back, the commands of a timeline begin in
\* the order of their times (PL_insert_tl_cmd refuses the past, PL_check_tl_cmd takes the
\* head).
THEOREM TimelinesRunInOrder == Spec => []TimelineRunsInOrder
<1>1. IInv => TimelineRunsInOrder
  BY DEF IInv
<1> QED BY <1>1, Invariance, PTL

\* No timeline command begins before its time (TLCD_tlc_dispatcher_).
THEOREM NothingIsEarly == Spec => []NothingRunsEarly
<1>1. IInv => NothingRunsEarly
  BY DEF IInv
<1> QED BY <1>1, Invariance, PTL

\* What CDIS_dispatch_command drops is what it executed, unless the command changed the
\* head of its own line or the clock went back meanwhile.
THEOREM DropsWhatRan == Spec => []HeadIsRunning
<1>1. IInv => HeadIsRunning
  BY DEF IInv
<1> QED BY <1>1, Invariance, PTL

-----------------------------------------------------------------------------
(***************************************************************************)
(* The last failure of a line.  Between the begin and the end of a         *)
(* dispatch prev_err has it already, so that prev may be overwritten; and   *)
(* a prev left behind by CLEAR_ERR_LOG stands for no failure.              *)
(***************************************************************************)
FailureInv ==
    /\ LastFailureKept
    /\ \A l \in Lines : prev[l] # None => lastFail[l] \in {prev[l], None}
    /\ pc \in Running /\ lastFail[line] # None => prevErr[line] = lastFail[line]

\* The steps that leave the error records alone.
LEMMA ErrorsUntouched ==
  ASSUME FailureInv, prev' = prev, prevErr' = prevErr, lastFail' = lastFail,
         pc' \in Running => pc \in Running /\ line' = line
  PROVE  FailureInv'
BY DEF FailureInv, LastFailureKept

\* Every step keeps the last failure in prev or in prev_err.
LEMMA FailureStep == ASSUME IInv, FailureInv, [Next]_vars PROVE FailureInv'
<1>0. /\ prev \in [Lines -> Commands \cup {None}] /\ prevErr \in [Lines -> Commands \cup {None}]
      /\ lastFail \in [Lines -> Commands \cup {None}] /\ line \in Lines
  BY Facts DEF TypeOK
<1>1. CASE Tick
  BY <1>1, ErrorsUntouched DEF Tick, cdisVars, runVars
<1>2. CASE Receive
  <2>1. \E l, packet : Enqueued(l, packet)
    BY <1>2 DEF Receive, ReceiveRealtime, ReceiveTimeline, ReceiveAsap
  <2> QED BY <2>1, ErrorsUntouched DEF Enqueued, cdisVars, runVars
<1>3. ASSUME (\E l \in Lines : CheckTimeline(l)) \/ Refuse PROVE FailureInv'
  BY <1>3, ErrorsUntouched DEF CheckTimeline, Refuse, cdisVars
<1>4. ASSUME NEW l \in Lines, Begin(l) PROVE FailureInv'
  <2>1. /\ prev' = prev /\ lastFail' = lastFail /\ line' = l
        /\ prevErr'[l] = (IF prev[l] = None THEN prevErr[l] ELSE prev[l])
        /\ \A m \in Lines \ {l} : prevErr'[m] = prevErr[m]
    BY <1>0, <1>4 DEF Begin, SavedError
  <2>2. lastFail[l] # None => prevErr'[l] = lastFail[l]
    BY <2>1 DEF FailureInv, LastFailureKept
  <2> QED BY <2>1, <2>2 DEF FailureInv, LastFailureKept
<1>5. CASE (\E l \in Lines : Dispatch(l)) \/ Call
  BY <1>3, <1>4, <1>5 DEF Dispatch, Call, Lines
<1>6. CASE Execute
  <2>1. CASE ExecClearErrLog
    <3>1. pkt.cmd.on \in Lines /\ pc \in Running
      BY <2>1, Facts, CommandFields DEF ExecClearErrLog, Executes
    <3>2. /\ prev' = prev /\ line' = line
          /\ lastFail' = [lastFail EXCEPT ![pkt.cmd.on] = None]
          /\ prevErr' = [prevErr EXCEPT ![pkt.cmd.on] = None]
      BY <2>1 DEF ExecClearErrLog, Returns
    <3> QED BY <1>0, <3>1, <3>2 DEF FailureInv, LastFailureKept
  <2>2. CASE ExecAppInit
    <3>1. pkt.cmd.on \in Lines /\ pc \in Running
      BY <2>2, Facts, CommandFields DEF ExecAppInit, Executes
    <3>2. /\ line' = line
          /\ prev' = [prev EXCEPT ![pkt.cmd.on] = None]
          /\ prevErr' = [prevErr EXCEPT ![pkt.cmd.on] = None]
          /\ lastFail' = [lastFail EXCEPT ![pkt.cmd.on] = None]
      BY <2>2 DEF ExecAppInit, Returns
    <3> QED BY <1>0, <3>1, <3>2 DEF FailureInv, LastFailureKept
  <2>3. CASE \/ ExecPlain \/ ExecClearAll \/ ExecClearAt \/ ExecSetSoe \/ ExecSetLockout
             \/ ExecSetTime
    BY <2>3, ErrorsUntouched DEF ExecPlain, ExecClearAll, ExecClearAt, ExecSetSoe,
       ExecSetLockout, ExecSetTime, Executes, Returns, cdisVars
  <2>4. CASE ExecDeployInactive \/ ExecDeploy \/ DeployPlace \/ DeployAbort \/ DeployDone
    BY <2>4, ErrorsUntouched DEF ExecDeployInactive, ExecDeploy, DeployPlace, DeployAbort,
       DeployDone, Executes, cdisVars
  <2> QED BY <1>6, <2>1, <2>2, <2>3, <2>4 DEF Execute
<1>7. CASE Finish
  <2>1. pc = "finish" /\ pc' = "idle" /\ prevErr' = prevErr /\ pkt.cmd \in Commands
    BY <1>7, Facts DEF Finish
  <2>2. CASE ok
    <3>1. prev' = [prev EXCEPT ![line] = None] /\ lastFail' = lastFail
      BY <1>7, <2>2 DEF Finish
    <3> QED BY <1>0, <2>1, <3>1 DEF FailureInv, LastFailureKept
  <2>3. CASE ~ok
    <3>1. prev' = [prev EXCEPT ![line] = pkt.cmd] /\ lastFail' = [lastFail EXCEPT ![line] = pkt.cmd]
      BY <1>7, <2>3 DEF Finish
    <3> QED BY <1>0, <2>1, <3>1 DEF FailureInv, LastFailureKept
  <2> QED BY <2>2, <2>3
<1>8. CASE UNCHANGED vars
  BY <1>8, ErrorsUntouched DEF vars
<1> QED BY <1>1, <1>2, <1>5, <1>6, <1>7, <1>8 DEF Next

\* The last failed command of a line stays readable until its error log is cleared
\* (CDIS_dispatch_command copies a failed prev before it is overwritten).
THEOREM FailureIsKept == Spec => []LastFailureKept
<1>1. Init => FailureInv
  BY DEF Init, FailureInv, LastFailureKept
<1>2. IInv /\ FailureInv /\ [Next]_vars => FailureInv'
  BY FailureStep
<1>3. FailureInv => LastFailureKept
  BY DEF FailureInv
<1> QED BY <1>1, <1>2, <1>3, Invariance, PTL DEF Spec

-----------------------------------------------------------------------------
(***************************************************************************)
(* stop_on_error.  A stopped line is locked, and while its dispatcher calls *)
(* CDIS_dispatch_command with the flag set and the line not locked, the     *)
(* head of the list is the one whose time it was at the check, however far  *)
(* the clock has gone since.                                               *)
(***************************************************************************)
SoeInv ==
    /\ \A l \in stopped : lockout[l]
    /\ pc = "call" /\ soe[line] /\ ~lockout[line] => Head(lists[line]).ti = read

\* The steps that set no flag and release no lockout.
LEMMA FlagsUntouched ==
  ASSUME SoeInv, lockout' = lockout, stopped' = stopped,
         pc' = "call" => pc = "call" /\ UNCHANGED <<soe, line, lists, read>>
  PROVE  SoeInv'
BY DEF SoeInv

\* Every step keeps stopped lines locked.
LEMMA SoeStep == ASSUME IInv, SoeInv, [Next]_vars PROVE SoeInv'
<1>0. lockout \in [Lines -> BOOLEAN] /\ soe \in [Lines -> BOOLEAN] /\ line \in Lines
      /\ stopped \subseteq Lines
  BY Facts DEF TypeOK
<1>1. CASE Tick
  BY <1>1, FlagsUntouched DEF Tick, cdisVars, runVars, soeVars
<1>2. CASE Receive
  <2>1. \E l, packet : Enqueued(l, packet)
    BY <1>2 DEF Receive, ReceiveRealtime, ReceiveTimeline, ReceiveAsap
  <2> QED BY <2>1, FlagsUntouched DEF Enqueued, cdisVars, runVars, soeVars
<1>3. ASSUME NEW l \in Timelines, CheckTimeline(l) PROVE SoeInv'
  <2>1. /\ l \in Lines /\ lists' = lists /\ soe' = soe /\ line' = l /\ read' = total
        /\ lockout' = [lockout EXCEPT ![l] = lockout[l] \/ StopsLate(l)]
        /\ stopped' = IF StopsLate(l) THEN stopped \cup {l} ELSE stopped
    BY <1>3 DEF CheckTimeline, Lines
  <2>2. \A k \in stopped' : lockout'[k]
    BY <2>1, <1>0 DEF SoeInv
  <2>3. soe[l] /\ ~lockout'[l] => Head(lists[l]).ti = total
    <3>1. lockout'[l] = (lockout[l] \/ StopsLate(l))
      BY <2>1, <1>0
    <3>2. CheckTl(lists[l], total) # "PL_TLC_PAST_TIME" => Head(lists[l]).ti = total
      BY <1>3, CheckedHead DEF CheckTimeline
    <3> QED BY <3>1, <3>2 DEF StopsLate
  <2> QED BY <2>1, <2>2, <2>3 DEF SoeInv
<1>4. CASE (\E l \in Lines : Begin(l)) \/ Refuse
  BY <1>4, FlagsUntouched DEF Begin, Refuse, cdisVars
<1>5. CASE Execute
  <2>1. CASE ExecSetLockout
    <3>1. pkt.cmd.on \in Lines /\ pkt.cmd.flag \in BOOLEAN /\ pc' = "finish"
      BY <2>1, Facts, CommandFields DEF ExecSetLockout, Executes, Returns, Lines
    <3>2. /\ lockout' = [lockout EXCEPT ![pkt.cmd.on] = pkt.cmd.flag]
          /\ stopped' = IF pkt.cmd.flag THEN stopped ELSE stopped \ {pkt.cmd.on}
      BY <2>1 DEF ExecSetLockout
    <3> QED BY <1>0, <3>1, <3>2 DEF SoeInv
  <2>2. CASE ExecAppInit
    <3>1. pkt.cmd.on \in Lines /\ pc' = "finish"
      BY <2>2, Facts, CommandFields DEF ExecAppInit, Executes, Returns
    <3>2. lockout' = [lockout EXCEPT ![pkt.cmd.on] = FALSE] /\ stopped' = stopped \ {pkt.cmd.on}
      BY <2>2 DEF ExecAppInit
    <3> QED BY <1>0, <3>1, <3>2 DEF SoeInv
  <2>3. CASE \/ ExecPlain \/ ExecClearAll \/ ExecClearAt \/ ExecClearErrLog \/ ExecSetSoe
             \/ ExecSetTime
    BY <2>3, FlagsUntouched DEF ExecPlain, ExecClearAll, ExecClearAt, ExecClearErrLog, ExecSetSoe,
       ExecSetTime, Executes, Returns, cdisVars, soeVars
  <2>4. CASE ExecDeployInactive \/ ExecDeploy \/ DeployPlace \/ DeployAbort \/ DeployDone
    BY <2>4, FlagsUntouched DEF ExecDeployInactive, ExecDeploy, DeployPlace, DeployAbort,
       DeployDone, Executes, cdisVars, soeVars
  <2> QED BY <1>5, <2>1, <2>2, <2>3, <2>4 DEF Execute
<1>6. CASE Finish
  <2>1. pc' = "idle"
    BY <1>6 DEF Finish
  <2>2. CASE ok
    BY <1>6, <2>1, <2>2 DEF Finish, SoeInv
  <2>3. CASE ~ok
    <3>1. /\ lockout' = [lockout EXCEPT ![line] = lockout[line] \/ soe[line]]
          /\ stopped' = IF soe[line] THEN stopped \cup {line} ELSE stopped
      BY <1>6, <2>3 DEF Finish
    <3> QED BY <1>0, <2>1, <3>1 DEF SoeInv
  <2> QED BY <2>2, <2>3
<1>7. CASE UNCHANGED vars
  BY <1>7, FlagsUntouched DEF vars
<1> QED BY <1>1, <1>2, <1>3, <1>4, <1>5, <1>6, <1>7 DEF Next, Dispatch, Call, Lines

\* A line that an error or a late command has stopped under stop_on_error begins nothing
\* before it is released, and a command that begins with the flag set is on time by the clock
\* the dispatcher has read (TLCD_tlc_dispatcher_, CDIS_dispatch_command), wherever the
\* interrupt falls between that and the call.
THEOREM SoeStops == Spec => SoeStopsTheLine
<1> DEFINE Stops == \A l \in Timelines : (pc = "call" /\ pc' = "exec" /\ line' = l) =>
                       l \notin stopped /\ (soe[l] => pkt'.ti = read)
<1>1. Init => SoeInv
  BY DEF Init, SoeInv
<1>2. IInv /\ SoeInv /\ [Next]_vars => SoeInv'
  BY SoeStep
<1>3. IInv /\ SoeInv /\ [Next]_vars => Stops
  <2> SUFFICES ASSUME IInv, SoeInv, [Next]_vars, NEW l \in Timelines,
                      pc = "call", pc' = "exec", line' = l
               PROVE  l \notin stopped /\ (soe[l] => pkt'.ti = read)
    OBVIOUS
  <2>1. PICK k \in Lines : Begin(k)
    <3>1. ~Tick /\ ~Receive
      BY DEF Tick, Receive, ReceiveRealtime, ReceiveTimeline, ReceiveAsap, Enqueued, runVars
    <3>2. ~Execute /\ ~Finish /\ ~(UNCHANGED vars) /\ ~Refuse
      BY DEF Execute, ExecPlain, ExecClearAll, ExecClearAt, ExecClearErrLog, ExecSetSoe,
             ExecSetLockout, ExecAppInit, ExecSetTime, ExecDeployInactive, ExecDeploy,
             DeployPlace, DeployAbort, DeployDone, Executes, Finish, Refuse, vars
    <3>3. \A k \in Lines : ~CheckTimeline(k)
      BY DEF CheckTimeline
    <3> QED BY <3>1, <3>2, <3>3 DEF Next, Dispatch, Call, Lines
  <2>2. k = l /\ line = l /\ ~lockout[l] /\ pkt' = Head(lists[l])
    BY <2>1 DEF Begin, Called
  <2> QED BY <2>2 DEF SoeInv
<1> QED BY <1>1, <1>2, <1>3, Invariance, PTL DEF Spec, SoeStopsTheLine
-----------------------------------------------------------------------------
(***************************************************************************)
(* Deployments.  The loop over the commands of a block only sees the list  *)
(* and the sum of the delays so far; what it has done to the commands      *)
(* before is in Delayed, that there is room for the rest in Room, and both *)
(* are kept because nothing but the interrupt comes between two commands.  *)
(***************************************************************************)
\* The cycles by which each command placed so far was moved: no later command by less than an
\* earlier one, the last one by adj, and the first one that was moved at all by less than a
\* round of the clock.
Delayed ==
    \E late \in [1..dep.i -> 0..dep.adj] :
        /\ \A i, j \in 1..dep.i : i < j => late[i] <= late[j]
        /\ \A i \in 1..dep.i :
             dep.placed[i] = (dep.start + late[i] + BlockCmds[dep.block][i].ti) % CycleMod
        /\ dep.adj # 0 => \E i \in 1..dep.i : 0 < late[i] /\ late[i] < CycleMod

\* The running deployment has room for the rest of its block.
Room == Len(lists[dep.on]) + (BlockLength - dep.i) <= Capacity[dep.on]

\* What a deployment that is over reports.
Reported ==
    /\ dep.ack = "PL_SUCCESS" => ~dep.cleared /\ dep.adj = 0 /\ dep.i = BlockLength
    /\ dep.ack = "PL_BC_TIME_ADJUSTED" => ~dep.cleared /\ dep.adj # 0 /\ dep.i = BlockLength

\* The inductive invariant of deployments.
DeployInv ==
    /\ \A l \in Lines : Len(lists[l]) <= Capacity[l]
    /\ pc \in {"idle", "call", "exec"} => dep = NoDeploy
    /\ dep.ack \notin {"PL_LIST_FULL", "PL_TLC_ALREADY_EXISTS"}
    /\ dep.i = Len(dep.placed)
    /\ dep.i > 0 => dep.block \in Blocks /\ dep.i <= BlockLength
    /\ \A i, j \in 1..dep.i : i < j => dep.placed[i] # dep.placed[j]
    /\ Delayed
    /\ pc = "deploy" => Room /\ DeployIsExact
    /\ pc = "finish" /\ dep.on # None => dep.block \in Blocks /\ Reported

USE FitAssumption

\* Nothing is deployed after C2A_core_init.
LEMMA NothingDeployed ==
  ASSUME dep = NoDeploy
  PROVE  /\ dep.i = 0 /\ Len(dep.placed) = 0 /\ dep.ack = "PL_SUCCESS" /\ dep.on = None
         /\ Delayed
<1>1. /\ dep.i = 0 /\ dep.placed = <<>> /\ dep.ack = "PL_SUCCESS" /\ dep.on = None
      /\ dep.adj = 0
  BY DEF NoDeploy
<1>2. Delayed
  <2> DEFINE late == [i \in 1..0 |-> 0]
  <2>1. late \in [1..0 -> 0..0] /\ \A i \in 1..0 : FALSE
    OBVIOUS
  <2> HIDE DEF late
  <2> QED BY <2>1, <1>1 DEF Delayed
<1> QED BY <1>1, <1>2

\* Nothing is deployed, and every list fits.
NothingToDeploy ==
    dep = NoDeploy /\ pc # "deploy" /\ \A l \in Lines : Len(lists[l]) <= Capacity[l]

\* That is enough for the invariant of deployments.
LEMMA IdleDeployInv == NothingToDeploy => DeployInv
<1> SUFFICES ASSUME NothingToDeploy PROVE DeployInv
  OBVIOUS
<1>0. dep = NoDeploy /\ pc # "deploy" /\ \A l \in Lines : Len(lists[l]) <= Capacity[l]
  BY DEF NothingToDeploy
<1>1. /\ dep.i = 0 /\ Len(dep.placed) = 0 /\ dep.ack = "PL_SUCCESS" /\ dep.on = None
      /\ Delayed
  BY <1>0, NothingDeployed
<1>2. \A i \in 1..dep.i : FALSE
  BY <1>1
<1> QED BY <1>0, <1>1, <1>2 DEF DeployInv

\* No list of C2A_core_init is longer than its nodes.
LEMMA InitDeploys == Init => DeployInv
<1> SUFFICES ASSUME Init PROVE DeployInv
  OBVIOUS
<1>1. \A l \in Lines : Len(lists[l]) <= Capacity[l]
  BY DEF Init
<1>2. NothingToDeploy
  BY <1>1 DEF Init, NothingToDeploy
<1> QED BY <1>2, IdleDeployInv

\* One list is replaced by another that fits.
LEMMA LengthsKept ==
  ASSUME IInv, DeployInv, NEW l \in Lines, NEW new, lists' = [lists EXCEPT ![l] = new],
         Len(new) <= Capacity[l]
  PROVE  \A m \in Lines : Len(lists'[m]) <= Capacity[m]
BY Facts DEF DeployInv

\* A step that is not one of a deployment, and leaves the record of the last one alone.
LEMMA DeployRecordKept ==
  ASSUME IInv, DeployInv, dep' = dep,
         \A l \in Lines : Len(lists'[l]) <= Capacity[l],
         pc' \in {"idle", "call", "exec"} => pc \in {"idle", "call", "exec"},
         pc' = "finish" => pc \in {"exec", "finish"},
         pc' = "deploy" => pc = "deploy" /\ lists' = lists
  PROVE  DeployInv'
<1>1. Delayed' <=> Delayed
  BY DEF Delayed
<1>2. pc' = "deploy" => Room' /\ DeployIsExact'
  BY DEF DeployInv, Room, DeployIsExact, BlockLength
<1>3. pc' = "finish" /\ dep.on # None => dep.block \in Blocks /\ Reported'
  <2>1. pc = "exec" => dep.on = None
    BY NothingDeployed DEF DeployInv
  <2>2. Reported' <=> Reported
    BY DEF Reported, BlockLength
  <2> QED BY <2>1, <2>2 DEF DeployInv
<1>4. BlockLength' = BlockLength
  BY DEF BlockLength
<1> QED BY <1>1, <1>2, <1>3, <1>4 DEF DeployInv

\* The steps that add packets from outside, and those that take some away.
LEMMA OtherDeploys ==
  ASSUME IInv, DeployInv,
         \/ Tick \/ Receive \/ (\E l \in Lines : Dispatch(l)) \/ Call \/ ExecPlain
         \/ ExecClearAll \/ ExecClearAt \/ ExecClearErrLog \/ ExecSetSoe \/ ExecSetLockout \/ ExecAppInit
         \/ ExecSetTime \/ UNCHANGED vars
  PROVE  DeployInv'
<1>1. \A p \in Packet : p.ti \in Nat
  BY TimesAreNat
<1>2. /\ lists \in [Lines -> Seq(Packet)] /\ GS \in Lines /\ RT \in Lines
      /\ Timelines \subseteq Lines /\ \A l \in Lines : Capacity[l] \in Nat
  BY Facts DEF Lines
<1>3. \A l \in Lines : Len(lists[l]) <= Capacity[l]
  BY DEF DeployInv
<1>4. CASE Receive
  <2>1. pc = "idle" /\ pc' = pc /\ dep' = dep
    BY <1>4 DEF Receive, ReceiveRealtime, ReceiveTimeline, ReceiveAsap, Enqueued, runVars
  <2>2. ASSUME NEW l \in {GS, RT}, NEW cmd \in Uplink[l], ReceiveRealtime(l, cmd)
        PROVE  \A m \in Lines : Len(lists'[m]) <= Capacity[m]
    <3> DEFINE packet == [ti |-> 0, cmd |-> cmd]
               new == Append(lists[l], packet)
    <3>1. l \in Lines /\ l \notin Timelines /\ Len(lists[l]) < Capacity[l]
      BY <1>2, <2>2 DEF ReceiveRealtime, IsFull
    <3>2. lists' = [lists EXCEPT ![l] = new]
      BY <3>1, <2>2 DEF ReceiveRealtime, Enqueued
    <3>3. packet \in Packet
      BY TimesAreNat, CommandAssumption, <3>1 DEF Packet
    <3> HIDE DEF packet
    <3>4. Len(new) = Len(lists[l]) + 1
      BY <3>1, <3>3, <1>2, AppendProperties
    <3>5. Len(new) <= Capacity[l]
      BY <3>1, <3>4, <1>2
    <3> QED BY <3>1, <3>2, <3>5, LengthsKept
  <2>3. ASSUME NEW l \in Timelines, NEW packet \in Packet,
               InsertAck(lists[l], Capacity[l], packet.ti, total) = "PL_SUCCESS",
               Enqueued(l, packet)
        PROVE  \A m \in Lines : Len(lists'[m]) <= Capacity[m]
    <3> DEFINE new == Inserted(lists[l], packet)
    <3>1. l \in Lines /\ lists[l] \in Seq(Packet) /\ Capacity[l] \in Nat /\ total \in Nat
          /\ packet.ti \in Nat
      BY <1>1, <1>2, Facts
    <3>2. Len(lists[l]) < Capacity[l] /\ ~Occupied(lists[l], packet.ti)
      BY <3>1, <2>3, AcceptedIsFree
    <3>3. Len(new) = Len(lists[l]) + 1
      BY <1>1, <3>1, <3>2, InsertedProperties
    <3>4. lists' = [lists EXCEPT ![l] = new]
      BY <2>3 DEF Enqueued
    <3>5. Len(new) <= Capacity[l]
      BY <3>1, <3>2, <3>3
    <3> QED BY <3>1, <3>4, <3>5, LengthsKept
  <2>4. ASSUME NEW l \in Timelines, NEW cmd \in Uplink[l], NEW ti \in TiRange,
               ReceiveTimeline(l, cmd, ti) \/ ReceiveAsap(l, cmd, ti)
        PROVE  \A m \in Lines : Len(lists'[m]) <= Capacity[m]
    <3>1. \A at \in Times : [ti |-> at, cmd |-> cmd] \in Packet
      BY CommandAssumption, <1>2 DEF Packet
    <3>2. ti \in Times
      BY CommandAssumption
    <3>3. CASE ReceiveTimeline(l, cmd, ti)
      BY <3>1, <3>2, <3>3, <2>3 DEF ReceiveTimeline
    <3>4. CASE ReceiveAsap(l, cmd, ti)
      BY <3>1, <3>4, <2>3 DEF ReceiveAsap
    <3> QED BY <2>4, <3>3, <3>4
  <2>5. \A m \in Lines : Len(lists'[m]) <= Capacity[m]
    BY <1>4, <2>2, <2>4 DEF Receive
  <2> QED BY <2>1, <2>5, DeployRecordKept
<1>5. CASE ExecClearAll
  <2>1. /\ pkt.cmd.on \in Lines /\ lists' = [lists EXCEPT ![pkt.cmd.on] = <<>>]
        /\ pc = "exec" /\ pc' = "finish" /\ dep' = dep
    BY <1>5, Facts, CommandFields DEF ExecClearAll, Executes, Returns
  <2>2. Len(<<>>) <= Capacity[pkt.cmd.on]
    BY <2>1, <1>2
  <2>3. \A m \in Lines : Len(lists'[m]) <= Capacity[m]
    BY <2>1, <2>2, LengthsKept
  <2> QED BY <2>1, <2>3, DeployRecordKept
<1>6. CASE ExecAppInit
  <2>1. /\ pkt.cmd.on \in Lines /\ lists' = [lists EXCEPT ![pkt.cmd.on] = <<>>]
        /\ pc = "exec" /\ pc' = "finish" /\ dep' = dep
    BY <1>6, Facts, CommandFields DEF ExecAppInit, Executes, Returns
  <2>2. Len(<<>>) <= Capacity[pkt.cmd.on]
    BY <2>1, <1>2
  <2>3. \A m \in Lines : Len(lists'[m]) <= Capacity[m]
    BY <2>1, <2>2, LengthsKept
  <2> QED BY <2>1, <2>3, DeployRecordKept
<1>7. CASE ExecClearAt
  <2> DEFINE on == pkt.cmd.on
             new == DropAt(lists[on], pkt.cmd.at)
  <2>1. /\ on \in Lines /\ lists' = [lists EXCEPT ![on] = new]
        /\ pc = "exec" /\ pc' = "finish" /\ dep' = dep
    BY <1>7, <1>2, Facts, CommandFields DEF ExecClearAt, Executes, Returns
  <2>2. new \in Seq(Packet) /\ Len(new) <= Len(lists[on])
    BY <1>1, <1>2, <2>1, DropAtProperties
  <2> HIDE DEF new
  <2>3. Len(new) <= Capacity[on]
    BY <2>1, <2>2, <1>2, <1>3
  <2>4. \A m \in Lines : Len(lists'[m]) <= Capacity[m]
    BY <2>1, <2>3, LengthsKept
  <2> QED BY <2>1, <2>4, DeployRecordKept
<1>8. CASE (\E l \in Lines : Dispatch(l)) \/ Call
  <2>1. /\ pc \in {"idle", "call"} /\ pc' \in {"idle", "call", "exec"}
        /\ dep' = dep /\ lists' = lists
    BY <1>8 DEF Dispatch, Call, Begin, Called, CheckTimeline, Refuse
  <2> QED BY <2>1, <1>3, DeployRecordKept
<1>9. CASE ExecPlain \/ ExecClearErrLog \/ ExecSetSoe \/ ExecSetLockout \/ ExecSetTime
  <2>1. pc = "exec" /\ pc' = "finish" /\ dep' = dep /\ lists' = lists
    BY <1>9 DEF ExecPlain, ExecClearErrLog, ExecSetSoe, ExecSetLockout, ExecSetTime,
                Executes, Returns
  <2> QED BY <2>1, <1>3, DeployRecordKept
<1>10. CASE Tick \/ UNCHANGED vars
  <2>1. pc' = pc /\ dep' = dep /\ lists' = lists
    BY <1>10 DEF Tick, runVars, vars
  <2> QED BY <2>1, <1>3, DeployRecordKept
<1> QED BY <1>4, <1>5, <1>6, <1>7, <1>8, <1>9, <1>10

\* The end of a dispatch forgets the deployment.
LEMMA FinishDeploys == ASSUME IInv, DeployInv, Finish PROVE DeployInv'
<1> DEFINE new == DropExecuted(lists[line])
<1>1. line \in Lines /\ lists[line] \in Seq(Packet) /\ Capacity[line] \in Nat
      /\ Len(lists[line]) <= Capacity[line]
  BY Facts DEF DeployInv
<1>2. Len(new) <= Len(lists[line]) /\ Len(new) \in Nat
  <2>1. CASE lists[line] = <<>>
    BY <2>1, <1>1 DEF DropExecuted
  <2>2. CASE lists[line] # <<>>
    BY <2>2, <1>1, HeadTailProperties DEF DropExecuted
  <2> QED BY <2>1, <2>2
<1>3. lists' = [lists EXCEPT ![line] = new] /\ dep' = NoDeploy /\ pc' = "idle"
  BY DEF Finish
<1> HIDE DEF new
<1>4. Len(new) <= Capacity[line]
  BY <1>1, <1>2
<1>5. \A m \in Lines : Len(lists'[m]) <= Capacity[m]
  BY <1>1, <1>3, <1>4, LengthsKept
<1>6. NoDeploy' = NoDeploy
  BY DEF NoDeploy
<1>7. NothingToDeploy'
  BY <1>3, <1>5, <1>6 DEF NothingToDeploy
<1>8. NothingToDeploy' => DeployInv'
  BY IdleDeployInv, PTL
<1> QED BY <1>7, <1>8
\* A deployment begins: with room for the block, if need be in an emptied list.
LEMMA ExecDeployDeploys == ASSUME IInv, DeployInv, ExecDeploy \/ ExecDeployInactive PROVE DeployInv'
<1>1. CASE ExecDeployInactive
  <2>1. /\ pc = "exec" /\ pc' = "finish" /\ lists' = lists
        /\ dep' = [NoDeploy EXCEPT !.ack = "PL_BC_INACTIVE_BLOCK"]
    BY <1>1 DEF ExecDeployInactive, Executes
  <2>2. /\ dep'.i = 0 /\ dep'.placed = <<>> /\ dep'.ack = "PL_BC_INACTIVE_BLOCK"
        /\ dep'.on = None /\ dep'.adj = 0
    BY <2>1 DEF NoDeploy
  <2>3. Delayed'
    <3> DEFINE late == [i \in 1..0 |-> 0]
    <3>1. late \in [1..0 -> 0..0] /\ \A i \in 1..0 : FALSE
      OBVIOUS
    <3> HIDE DEF late
    <3> QED BY <2>2, <3>1 DEF Delayed
  <2>4. \A i \in 1..dep'.i : FALSE
    BY <2>2
  <2>5. Len(dep'.placed) = 0
    BY <2>2
  <2>6. \A l \in Lines : Len(lists'[l]) <= Capacity[l]
    BY <2>1 DEF DeployInv
  <2> QED BY <2>1, <2>2, <2>3, <2>4, <2>5, <2>6 DEF DeployInv
<1>2. CASE ExecDeploy
  <2> DEFINE on == pkt.cmd.on
             block == pkt.cmd.block
             noRoom == NoRoom(lists[on], Capacity[on], Len(BlockCmds[block]))
             kept == IF noRoom THEN <<>> ELSE lists[on]
  <2>1. /\ pc = "exec" /\ pc' = "deploy"
        /\ lists' = [lists EXCEPT ![on] = kept]
        /\ dep' = [NoDeploy EXCEPT !.on = on, !.block = block, !.start = total,
                                   !.cleared = noRoom, !.before = ToSet(kept)]
    BY <1>2 DEF ExecDeploy, Executes
  <2>2. /\ on \in Timelines /\ on \in Lines /\ block \in Blocks
        /\ lists \in [Lines -> Seq(Packet)] /\ lists[on] \in Seq(Packet) /\ Ordered(lists[on])
        /\ Capacity[on] \in Nat /\ \A p \in Packet : p.ti \in Nat
    BY <1>2, <2>1, Facts, CommandFields DEF ExecDeploy, Executes, TimelineOrdered
  <2>3. /\ BlockCmds[block] \in Seq(Packet) /\ Len(BlockCmds[block]) \in Nat
        /\ Len(BlockCmds[block]) <= Capacity[on]
    BY <2>2, BlockAssumption
  <2>4. /\ kept \in Seq(Packet) /\ Ordered(kept)
        /\ Len(kept) + Len(BlockCmds[block]) <= Capacity[on]
        /\ Len(kept) <= Capacity[on] /\ Len(kept) \in Nat
    <3>1. CASE noRoom
      <4>1. kept = <<>> /\ Len(<<>>) = 0 /\ Ordered(<<>>) /\ <<>> \in Seq(Packet)
        BY <3>1 DEF Ordered
      <4>2. \A b, c \in Nat : b <= c => 0 + b <= c /\ 0 <= c
        OBVIOUS
      <4> HIDE DEF kept, noRoom
      <4> QED BY <4>1, <4>2, <2>2, <2>3
    <3>2. CASE ~noRoom
      <4>1. kept = lists[on] /\ ~(Capacity[on] - Len(lists[on]) < Len(BlockCmds[block]))
        BY <3>2 DEF NoRoom
      <4>2. Len(lists[on]) <= Capacity[on] /\ Len(lists[on]) \in Nat
        BY <2>2 DEF DeployInv
      <4>3. \A n, b, c \in Nat : ~(c - n < b) => n + b <= c
        OBVIOUS
      <4> HIDE DEF kept, noRoom
      <4> QED BY <4>1, <4>2, <4>3, <2>2, <2>3
    <3> QED BY <3>1, <3>2
  <2> HIDE DEF kept, noRoom
  <2>5. /\ dep'.i = 0 /\ dep'.placed = <<>> /\ dep'.ack = "PL_SUCCESS" /\ dep'.adj = 0
        /\ dep'.on = on /\ dep'.block = block /\ dep'.before = ToSet(kept)
    BY <2>1 DEF NoDeploy
  <2>6. Delayed'
    <3> DEFINE late == [i \in 1..0 |-> 0]
    <3>1. late \in [1..0 -> 0..0] /\ \A i \in 1..0 : FALSE
      OBVIOUS
    <3> HIDE DEF late
    <3> QED BY <2>5, <3>1 DEF Delayed
  <2>7. \A l \in Lines : Len(lists'[l]) <= Capacity[l]
    BY <2>1, <2>2, <2>4, LengthsKept
  <2>8. lists'[on] = kept
    BY <2>1, <2>2
  <2>9. Room'
    <3>1. BlockLength' = Len(BlockCmds[block])
      BY <2>5 DEF BlockLength
    <3> QED BY <2>4, <2>5, <2>8, <3>1, <2>3 DEF Room
  <2>10. DeployIsExact'
    <3>1. Cardinality(ToSet(kept)) = Len(kept)
      BY <2>2, <2>4, OrderedCardinality
    <3>2. {[ti |-> dep'.placed[i], cmd |-> BlockCmds[dep'.block][i].cmd] : i \in 1..dep'.i} = {}
      BY <2>5
    <3>3. ToSet(lists'[dep'.on]) = dep'.before \cup {}
      BY <2>5, <2>8
    <3>4. Len(lists'[dep'.on]) = Cardinality(dep'.before) + dep'.i
      BY <3>1, <2>4, <2>5, <2>8
    <3> QED BY <3>2, <3>3, <3>4 DEF DeployIsExact
  <2>11. \A i \in 1..dep'.i : FALSE
    BY <2>5
  <2>12. Len(dep'.placed) = 0
    BY <2>5
  <2> QED BY <2>1, <2>5, <2>6, <2>7, <2>9, <2>10, <2>11, <2>12 DEF DeployInv
<1> QED BY <1>1, <1>2

\* The next command of a block finds a time and a node.
LEMMA PlaceFound ==
  ASSUME IInv, DeployInv, pc = "deploy", dep.i < BlockLength
  PROVE  /\ Len(lists[dep.on]) < Capacity[dep.on]
         /\ Moved <= Len(lists[dep.on])
         /\ PlaceAck \notin {"PL_LIST_FULL", "PL_TLC_ALREADY_EXISTS"}
<1>1. /\ dep \in Deployment /\ dep.on \in Timelines /\ dep.on \in Lines /\ dep.block \in Blocks
      /\ lists[dep.on] \in Seq(Packet) /\ Capacity[dep.on] \in Nat /\ BlockLength \in Nat
      /\ Moved \in Nat /\ \A p \in Packet : p.ti \in Nat
  BY Facts, PlacedProperties DEF TypeOK
<1>2. dep.i \in Nat /\ dep.adj \in Nat /\ dep.start \in Nat /\ Len(lists[dep.on]) \in Nat
  BY <1>1, Facts DEF Deployment
<1>3. Len(lists[dep.on]) < Capacity[dep.on]
  <2>1. Len(lists[dep.on]) + (BlockLength - dep.i) <= Capacity[dep.on]
    BY DEF DeployInv, Room
  <2>2. \A n, b, i, c \in Nat : i < b /\ n + (b - i) <= c => n < c
    OBVIOUS
  <2> QED BY <1>1, <1>2, <2>1, <2>2
<1>4. Len(lists[dep.on]) < CycleMod /\ CycleMod \in Nat \ {0}
  <2>1. Capacity[dep.on] <= CycleMod /\ CycleMod \in Nat
    BY <1>1
  <2> QED BY <1>1, <1>2, <1>3, <2>1
<1>5. Planned \in Nat
  <2>1. BlockCmds[dep.block] \in Seq(Packet) /\ dep.i + 1 \in 1..Len(BlockCmds[dep.block])
    BY <1>1, <1>2, BlockAssumption DEF BlockLength
  <2>2. BlockCmds[dep.block][dep.i + 1].ti \in Nat
    BY <2>1, <1>1, ElementOfSeq
  <2>3. dep.start + dep.adj + BlockCmds[dep.block][dep.i + 1].ti \in Nat
    BY <2>2, <1>2
  <2> QED BY <2>3, TimesAreNat DEF Planned
<1>6. Moved <= Len(lists[dep.on])
  BY <1>1, <1>4, <1>5, ShiftFindsTime DEF Moved
<1>7. InsertAck(lists[dep.on], Capacity[dep.on], Placed.ti, dep.start) # "PL_TLC_ALREADY_EXISTS"
  <2>1. InsertAck(lists[dep.on], Capacity[dep.on], (Planned + Moved) % CycleMod, dep.start)
          # "PL_TLC_ALREADY_EXISTS"
    BY <1>1, <1>6, ShiftProperties DEF Moved
  <2>2. Placed.ti = (Planned + Moved) % CycleMod
    BY DEF Placed
  <2> QED BY <2>1, <2>2
<1>8. InsertAck(lists[dep.on], Capacity[dep.on], Placed.ti, dep.start) # "PL_LIST_FULL"
  <2>1. ~IsFull(lists[dep.on], Capacity[dep.on])
    BY <1>1, <1>2, <1>3 DEF IsFull
  <2> QED BY <2>1 DEF InsertAck
<1>9. PlaceAck = InsertAck(lists[dep.on], Capacity[dep.on], Placed.ti, dep.start)
  BY <1>1, <1>2, <1>6 DEF PlaceAck
<1> QED BY <1>3, <1>6, <1>7, <1>8, <1>9

\* The time a command gets: its own, later by the delays so far and by its own.
LEMMA PlacedTime ==
  ASSUME IInv, pc = "deploy", dep.i < BlockLength
  PROVE  /\ BlockCmds[dep.block][dep.i + 1].ti \in Nat
         /\ Placed.ti = (dep.start + (dep.adj + Moved) + BlockCmds[dep.block][dep.i + 1].ti) % CycleMod
         /\ Placed.cmd = BlockCmds[dep.block][dep.i + 1].cmd
<1> DEFINE b == BlockCmds[dep.block][dep.i + 1].ti
<1>1. /\ dep \in Deployment /\ dep.block \in Blocks /\ BlockLength \in Nat /\ Moved \in Nat
      /\ \A p \in Packet : p.ti \in Nat
  BY Facts, PlacedProperties DEF TypeOK
<1>2. dep.i \in Nat /\ dep.adj \in Nat /\ dep.start \in Nat
  BY <1>1, Facts DEF Deployment
<1>3. b \in Nat
  <2>1. BlockCmds[dep.block] \in Seq(Packet) /\ dep.i + 1 \in 1..Len(BlockCmds[dep.block])
    BY <1>1, <1>2, BlockAssumption DEF BlockLength
  <2> QED BY <2>1, <1>1, ElementOfSeq
<1> DEFINE a == dep.start + dep.adj + b
<1>4. a \in Nat /\ a + Moved = dep.start + (dep.adj + Moved) + b
  <2>1. \A s, d, t, m \in Nat : s + d + t \in Nat /\ (s + d + t) + m = s + (d + m) + t
    OBVIOUS
  <2> HIDE DEF b
  <2> QED BY <1>1, <1>2, <1>3, <2>1
<1>5. Placed.ti = ((a % CycleMod) + Moved) % CycleMod
  BY DEF Placed, Planned
<1> HIDE DEF a
<1>6. ((a % CycleMod) + Moved) % CycleMod = (a + Moved) % CycleMod
  <2>1. CycleMod \in Nat \ {0}
    OBVIOUS
  <2> QED BY <2>1, <1>1, <1>4, AddToRemainder
<1>7. Placed.cmd = BlockCmds[dep.block][dep.i + 1].cmd
  BY DEF Placed
<1> QED BY <1>3, <1>4, <1>5, <1>6, <1>7
\* One command of a block is placed: the list holds it besides what it held, it shares its time
\* with no command placed before, and its delay is the sum of theirs and its own.
LEMMA DeployPlaceDeploys == ASSUME IInv, DeployInv, DeployPlace PROVE DeployInv'
<1> DEFINE on == dep.on
           block == BlockCmds[dep.block]
           n == dep.i
           new == Inserted(lists[on], Placed)
<1>1. /\ pc = "deploy" /\ n < BlockLength /\ PlaceAck = "PL_SUCCESS" /\ pc' = "deploy"
      /\ lists' = [lists EXCEPT ![on] = new]
      /\ dep' = [dep EXCEPT !.i = n + 1, !.adj = dep.adj + Moved,
                            !.placed = Append(dep.placed, Placed.ti)]
  BY DEF DeployPlace
<1>2. /\ dep \in Deployment /\ on \in Timelines /\ on \in Lines /\ dep.block \in Blocks
      /\ lists \in [Lines -> Seq(Packet)] /\ lists[on] \in Seq(Packet) /\ Capacity[on] \in Nat
      /\ BlockLength \in Nat /\ Placed \in Packet /\ Placed.ti \in Times /\ Placed.ti \in Nat
      /\ Moved \in Nat /\ ~Occupied(lists[on], Placed.ti) /\ Len(lists[on]) \in Nat
      /\ \A p \in Packet : p.ti \in Nat
  <2>1. /\ dep \in Deployment /\ on \in Timelines /\ dep.block \in Blocks
        /\ lists \in [Lines -> Seq(Packet)]
    BY <1>1, Facts DEF TypeOK
  <2>2. on \in Lines
    BY <2>1 DEF Lines
  <2>3. lists[on] \in Seq(Packet) /\ Len(lists[on]) \in Nat
    BY <2>1, <2>2
  <2>4. Capacity[on] \in Nat
    BY <2>2
  <2>5. BlockLength \in Nat
    BY <2>1, BlockAssumption DEF BlockLength
  <2>6. /\ Placed \in Packet /\ Placed.ti \in Times /\ Moved \in Nat
        /\ ~Occupied(lists[on], Placed.ti)
    <3>1. dep.i < BlockLength
      BY <1>1
    <3>2. Placed \in Packet /\ Moved \in Nat /\ ~Occupied(lists[on], Placed.ti)
      BY <1>1, <3>1, PlacedProperties
    <3> QED BY <3>2, TimesAreNat DEF Packet
  <2> QED BY <2>1, <2>2, <2>3, <2>4, <2>5, <2>6, TimesAreNat
<1>3. n \in Nat /\ dep.adj \in Nat /\ dep.start \in Nat /\ dep.placed \in Seq(Times)
      /\ Len(dep.placed) = n
  <2>1. dep \in Deployment
    BY <1>2
  <2>2. dep.i \in Nat /\ dep.adj \in Nat /\ dep.start \in Times /\ dep.placed \in Seq(Times)
    BY <2>1 DEF Deployment
  <2>3. dep.i = Len(dep.placed)
    BY DEF DeployInv
  <2> QED BY <2>2, <2>3, TimesAreNat
<1>4. /\ new \in Seq(Packet) /\ Len(new) = Len(lists[on]) + 1
      /\ ToSet(new) = ToSet(lists[on]) \cup {Placed}
  BY <1>2, InsertedProperties, InsertedSet
<1>5. /\ dep'.i = n + 1 /\ dep'.adj = dep.adj + Moved /\ dep'.on = on /\ dep'.start = dep.start
      /\ dep'.block = dep.block /\ dep'.before = dep.before /\ dep'.ack = dep.ack
      /\ dep'.placed = Append(dep.placed, Placed.ti)
  <2> DEFINE placed == Append(dep.placed, Placed.ti)
             adj == dep.adj + Moved
             next == n + 1
  <2> HIDE DEF placed, adj, next
  <2>1. dep' = [dep EXCEPT !.i = next, !.adj = adj, !.placed = placed]
    BY <1>1 DEF placed, adj, next
  <2>2. /\ dep'.i = next /\ dep'.adj = adj /\ dep'.on = dep.on /\ dep'.start = dep.start
        /\ dep'.block = dep.block /\ dep'.before = dep.before /\ dep'.ack = dep.ack
        /\ dep'.placed = placed
    BY <2>1, <1>2 DEF Deployment
  <2> QED BY <2>2 DEF placed, adj, next
<1> HIDE DEF new
<1>6. /\ \A i \in 1..n : dep'.placed[i] = dep.placed[i]
      /\ dep'.placed[n + 1] = Placed.ti /\ Len(dep'.placed) = n + 1
  BY <1>2, <1>3, <1>5, AppendProperties
<1>7. /\ Len(lists[on]) < Capacity[on] /\ Moved <= Len(lists[on]) /\ Capacity[on] <= CycleMod
  BY <1>1, <1>2, PlaceFound
<1>8. \A l \in Lines : Len(lists'[l]) <= Capacity[l]
  <2>1. Len(new) <= Capacity[on]
    BY <1>2, <1>4, <1>7
  <2> QED BY <2>1, <1>1, <1>2, LengthsKept
<1>9. BlockLength' = BlockLength /\ lists'[on] = new
  BY <1>1, <1>2, <1>5 DEF BlockLength
<1>10. Room'
  <2>1. Len(lists[on]) + (BlockLength - n) <= Capacity[on]
    BY <1>1 DEF DeployInv, Room
  <2>2. \A k, b, i, c \in Nat : k + (b - i) <= c => (k + 1) + (b - (i + 1)) <= c
    OBVIOUS
  <2>3. (Len(lists[on]) + 1) + (BlockLength - (n + 1)) <= Capacity[on]
    BY <2>1, <2>2, <1>2, <1>3
  <2> QED BY <2>3, <1>4, <1>5, <1>9 DEF Room
<1> DEFINE done == {[ti |-> dep.placed[i], cmd |-> block[i].cmd] : i \in 1..n}
<1>11. ToSet(lists[on]) = dep.before \cup done /\ Len(lists[on]) = Cardinality(dep.before) + n
  BY <1>1 DEF DeployInv, DeployIsExact
<1>12. DeployIsExact'
  <2> DEFINE all == {[ti |-> dep'.placed[i], cmd |-> block[i].cmd] : i \in 1..(n + 1)}
  <2>1. Placed = [ti |-> dep'.placed[n + 1], cmd |-> block[n + 1].cmd]
    BY <1>6 DEF Placed
  <2>2. all = done \cup {Placed}
    <3>1. \A i \in 1..(n + 1) : i \in 1..n \/ i = n + 1
      BY <1>3
    <3>2. \A i \in 1..n : i \in 1..(n + 1)
      BY <1>3
    <3>3. n + 1 \in 1..(n + 1)
      BY <1>3
    <3>4. \A x \in all : x \in done \cup {Placed}
      BY <3>1, <2>1, <1>6
    <3>5. \A x \in done : x \in all
      BY <3>2, <1>6
    <3>6. Placed \in all
      BY <3>3, <2>1
    <3> HIDE DEF all, done
    <3> QED BY <3>4, <3>5, <3>6
  <2>3. ToSet(lists'[on]) = dep.before \cup all
    <3> HIDE DEF all, done
    <3> QED BY <2>2, <1>4, <1>9, <1>11
  <2>4. Len(lists'[on]) = Cardinality(dep.before) + (n + 1)
    <3>1. Cardinality(dep.before) = Len(lists[on]) - n
      <4>1. dep.before \subseteq ToSet(lists[on])
        BY <1>11
      <4>2. IsFiniteSet(ToSet(lists[on]))
        BY <1>2, FiniteElements
      <4>3. Cardinality(dep.before) \in Nat
        BY <4>1, <4>2, FS_Subset, FS_CardinalityType
      <4> QED BY <4>3, <1>2, <1>3, <1>11
    <3>2. \A k, i \in Nat : k + 1 = (k - i) + (i + 1)
      OBVIOUS
    <3>3. Len(lists'[on]) = Len(lists[on]) + 1
      BY <1>4, <1>9
    <3>4. Len(lists[on]) \in Nat /\ n \in Nat
      BY <1>2, <1>3
    <3> QED BY <3>1, <3>2, <3>3, <3>4
  <2> HIDE DEF done
  <2> QED BY <2>3, <2>4, <1>5 DEF DeployIsExact
<1>13. \A i, j \in 1..dep'.i : i < j => dep'.placed[i] # dep'.placed[j]
  <2> SUFFICES ASSUME NEW i \in 1..(n + 1), NEW j \in 1..(n + 1), i < j
               PROVE  dep'.placed[i] # dep'.placed[j]
    BY <1>5
  <2>1. i \in 1..n
    BY <1>3
  <2>2. CASE j \in 1..n
    BY <2>1, <2>2, <1>6 DEF DeployInv
  <2>3. CASE j = n + 1
    <3>1. [ti |-> dep.placed[i], cmd |-> block[i].cmd] \in ToSet(lists[on])
      BY <2>1, <1>11
    <3>2. PICK k \in 1..Len(lists[on]) : lists[on][k].ti = dep.placed[i]
      <4>1. PICK k \in DOMAIN lists[on] :
              lists[on][k] = [ti |-> dep.placed[i], cmd |-> block[i].cmd]
        BY <3>1 DEF ToSet
      <4>2. DOMAIN lists[on] = 1..Len(lists[on])
        BY <1>2
      <4>3. lists[on][k].ti = dep.placed[i]
        BY <4>1
      <4> QED BY <4>2, <4>3
    <3>3. lists[on][k].ti # Placed.ti
      BY <1>2, Facts, TimeIsFree DEF TimelineOrdered
    <3> QED BY <2>1, <2>3, <3>2, <3>3, <1>6
  <2>4. j \in 1..n \/ j = n + 1
    BY <1>3
  <2> QED BY <2>2, <2>3, <2>4
<1>14. Delayed'
  <2>1. PICK late \in [1..n -> 0..dep.adj] :
          /\ \A i, j \in 1..n : i < j => late[i] <= late[j]
          /\ \A i \in 1..n : dep.placed[i] = (dep.start + late[i] + block[i].ti) % CycleMod
          /\ dep.adj # 0 => \E i \in 1..n : 0 < late[i] /\ late[i] < CycleMod
    BY DEF DeployInv, Delayed
  <2> DEFINE adj == dep.adj + Moved
             next == [i \in 1..(n + 1) |-> IF i = n + 1 THEN adj ELSE late[i]]
  <2>2. /\ adj \in Nat /\ dep.adj <= adj
        /\ \A k \in 0..dep.adj : k \in Nat /\ k \in 0..adj /\ k <= adj
    BY <1>2, <1>3
  <2>3. /\ next[n + 1] = adj /\ n + 1 \in 1..(n + 1)
        /\ \A i \in 1..n : i \in 1..(n + 1) /\ i # n + 1 /\ next[i] = late[i]
    BY <1>3
  <2>4. \A i \in 1..(n + 1) : i \in 1..n \/ i = n + 1
    BY <1>3
  <2>5. next \in [1..(n + 1) -> 0..adj]
    <3>1. \A i \in 1..(n + 1) : next[i] \in 0..adj
      <4> HIDE DEF next
      <4>1. \A i \in 1..n : late[i] \in 0..dep.adj
        BY <2>1
      <4>2. adj \in 0..adj
        BY <2>2
      <4> QED BY <4>1, <4>2, <2>2, <2>3, <2>4
    <3> QED BY <3>1
  <2> HIDE DEF adj, next
  <2>6. \A i, j \in 1..(n + 1) : i < j => next[i] <= next[j]
    <3> SUFFICES ASSUME NEW i \in 1..(n + 1), NEW j \in 1..(n + 1), i < j
                 PROVE  next[i] <= next[j]
      OBVIOUS
    <3>1. i \in 1..n /\ late[i] \in 0..dep.adj
      <4>1. i \in 1..n
        BY <1>3
      <4> QED BY <4>1, <2>1
    <3>2. CASE j \in 1..n
      BY <3>1, <3>2, <2>1, <2>3
    <3>3. CASE j = n + 1
      BY <3>1, <3>3, <2>2, <2>3
    <3> QED BY <3>2, <3>3, <2>4
  <2>7. \A i \in 1..(n + 1) : dep'.placed[i] = (dep.start + next[i] + block[i].ti) % CycleMod
    <3>1. dep'.placed[n + 1] = (dep.start + next[n + 1] + block[n + 1].ti) % CycleMod
      BY <1>1, <1>6, <2>3, PlacedTime DEF adj
    <3>2. \A i \in 1..n : dep'.placed[i] = (dep.start + next[i] + block[i].ti) % CycleMod
      BY <1>6, <2>1, <2>3
    <3> QED BY <3>1, <3>2, <2>4
  <2>8. adj # 0 => \E i \in 1..(n + 1) : 0 < next[i] /\ next[i] < CycleMod
    <3>1. CASE dep.adj # 0
      BY <3>1, <2>1, <2>3
    <3>2. CASE dep.adj = 0
      <4>1. adj = Moved /\ Moved < CycleMod /\ CycleMod \in Nat
        BY <3>2, <1>2, <1>7 DEF adj
      <4>2. adj # 0 => 0 < adj
        BY <2>2
      <4> QED BY <4>1, <4>2, <2>3
    <3> QED BY <3>1, <3>2
  <2>9. dep'.i = n + 1 /\ dep'.adj = adj /\ dep'.start = dep.start /\ dep'.block = dep.block
    BY <1>5 DEF adj
  <2> QED BY <2>5, <2>6, <2>7, <2>8, <2>9 DEF Delayed
<1>15. dep'.i <= BlockLength'
  BY <1>1, <1>2, <1>3, <1>5, <1>9
<1>16. dep'.ack \notin {"PL_LIST_FULL", "PL_TLC_ALREADY_EXISTS"}
  BY <1>5 DEF DeployInv
<1> QED BY <1>1, <1>2, <1>5, <1>6, <1>8, <1>10, <1>12, <1>13, <1>14, <1>15, <1>16 DEF DeployInv

\* The end of a deployment, and what it reports.
LEMMA DeployEndDeploys == ASSUME IInv, DeployInv, DeployAbort \/ DeployDone PROVE DeployInv'
<1>1. /\ pc = "deploy" /\ pc' = "finish" /\ lists' = lists
  BY DEF DeployAbort, DeployDone
<1>2. dep \in Deployment /\ dep.block \in Blocks
  BY <1>1, Facts DEF TypeOK
<1> DEFINE ack == dep'.ack
<1>3. /\ dep' = [dep EXCEPT !.ack = ack]
      /\ ack \notin {"PL_LIST_FULL", "PL_TLC_ALREADY_EXISTS"}
      /\ ack = "PL_SUCCESS" => ~dep.cleared /\ dep.adj = 0 /\ dep.i = BlockLength
      /\ ack = "PL_BC_TIME_ADJUSTED" => ~dep.cleared /\ dep.adj # 0 /\ dep.i = BlockLength
  <2>1. CASE DeployAbort
    <3>1. dep.i < BlockLength /\ PlaceAck # "PL_SUCCESS" /\ dep' = [dep EXCEPT !.ack = PlaceAck]
      BY <2>1 DEF DeployAbort
    <3>2. ack = PlaceAck
      BY <3>1, <1>2 DEF Deployment
    <3>3. PlaceAck # "PL_BC_TIME_ADJUSTED"
      BY DEF PlaceAck, InsertAck
    <3> HIDE DEF ack
    <3> QED BY <3>1, <3>2, <3>3, <1>1, PlaceFound
  <2>2. CASE DeployDone
    <3>1. dep.i = BlockLength /\ dep' = [dep EXCEPT !.ack = DeployResult]
      BY <2>2 DEF DeployDone
    <3>2. ack = DeployResult
      BY <3>1, <1>2 DEF Deployment
    <3>3. /\ DeployResult \in {"PL_SUCCESS", "PL_BC_TIME_ADJUSTED", "PL_BC_LIST_CLEARED"}
          /\ DeployResult = "PL_SUCCESS" => ~dep.cleared /\ dep.adj = 0
          /\ DeployResult = "PL_BC_TIME_ADJUSTED" => ~dep.cleared /\ dep.adj # 0
      BY DEF DeployResult
    <3> HIDE DEF ack
    <3> QED BY <3>1, <3>2, <3>3
  <2> QED BY <2>1, <2>2
<1> HIDE DEF ack
<1>4. /\ dep'.i = dep.i /\ dep'.adj = dep.adj /\ dep'.on = dep.on /\ dep'.start = dep.start
      /\ dep'.block = dep.block /\ dep'.placed = dep.placed /\ dep'.cleared = dep.cleared
      /\ dep'.ack = ack
  <2>1. dep' = [dep EXCEPT !.ack = ack]
    BY <1>3
  <2>2. dep \in Deployment
    BY <1>2
  <2>3. /\ dep'.i = dep.i /\ dep'.adj = dep.adj /\ dep'.on = dep.on /\ dep'.start = dep.start
        /\ dep'.block = dep.block /\ dep'.placed = dep.placed /\ dep'.cleared = dep.cleared
    BY <2>1, <2>2 DEF Deployment
  <2>4. dep'.ack = ack
    BY <2>1, <2>2 DEF Deployment
  <2> QED BY <2>3, <2>4
<1>5. Delayed'
  <2>1. Delayed
    BY DEF DeployInv
  <2> QED BY <2>1, <1>4 DEF Delayed
<1>6. BlockLength' = BlockLength
  BY <1>4 DEF BlockLength
<1>7. Reported'
  <2>1. ack = "PL_SUCCESS" => ~dep.cleared /\ dep.adj = 0 /\ dep.i = BlockLength
    BY <1>3
  <2>2. ack = "PL_BC_TIME_ADJUSTED" => ~dep.cleared /\ dep.adj # 0 /\ dep.i = BlockLength
    BY <1>3
  <2> QED BY <2>1, <2>2, <1>4, <1>6 DEF Reported
<1>8. dep'.ack \notin {"PL_LIST_FULL", "PL_TLC_ALREADY_EXISTS"}
  BY <1>3, <1>4
<1>9. /\ \A l \in Lines : Len(lists[l]) <= Capacity[l]
      /\ dep.i = Len(dep.placed)
      /\ dep.i > 0 => dep.block \in Blocks /\ dep.i <= BlockLength
      /\ \A i, j \in 1..dep.i : i < j => dep.placed[i] # dep.placed[j]
  BY DEF DeployInv
<1> QED BY <1>1, <1>2, <1>4, <1>5, <1>6, <1>7, <1>8, <1>9 DEF DeployInv

\* The invariant of deployments is inductive, relative to the one above.
LEMMA DeployStep == ASSUME IInv, DeployInv, [Next]_vars PROVE DeployInv'
BY OtherDeploys, FinishDeploys, ExecDeployDeploys, DeployPlaceDeploys, DeployEndDeploys
   DEF Next, Execute

\* It holds in every reachable state.
THEOREM DeploymentsAreBounded == Spec => []DeployInv
<1>1. IInv /\ DeployInv /\ [Next]_vars => DeployInv'
  BY DeployStep
<1> QED BY <1>1, InitDeploys, Invariance, PTL DEF Spec

\* Commands of a block keep their distances.
LEMMA SpacingKept == IInv /\ DeployInv => DeployKeepsSpacing
<1> SUFFICES ASSUME IInv, DeployInv, NEW i \in DOMAIN dep.placed, NEW j \in DOMAIN dep.placed,
                    i < j, dep.start + dep.adj + BlockCmds[dep.block][j].ti < CycleMod
             PROVE  /\ dep.placed[i] + BlockCmds[dep.block][j].ti
                          <= dep.placed[j] + BlockCmds[dep.block][i].ti
                    /\ dep.placed[i] # dep.placed[j]
  BY DEF DeployKeepsSpacing
<1> DEFINE block == BlockCmds[dep.block]
<1>1. /\ dep \in Deployment /\ dep.placed \in Seq(Times) /\ dep.i \in Nat /\ dep.adj \in Nat
      /\ dep.start \in Nat
  BY Facts DEF TypeOK, Deployment
<1>2. i \in 1..dep.i /\ j \in 1..dep.i /\ dep.i > 0
  BY <1>1 DEF DeployInv
<1>3. dep.block \in Blocks /\ dep.i <= Len(block) /\ block \in Seq(Packet)
  BY <1>2, BlockAssumption DEF DeployInv, BlockLength
<1>4. block[i].ti \in Nat /\ block[j].ti \in Nat
  <2>1. i \in 1..Len(block) /\ j \in 1..Len(block)
    BY <1>1, <1>2, <1>3
  <2> QED BY <2>1, <1>3, ElementOfSeq, TimesAreNat
<1>5. PICK late \in [1..dep.i -> 0..dep.adj] :
        /\ \A k, m \in 1..dep.i : k < m => late[k] <= late[m]
        /\ \A k \in 1..dep.i : dep.placed[k] = (dep.start + late[k] + block[k].ti) % CycleMod
  BY DEF DeployInv, Delayed
<1>6. late[i] \in Nat /\ late[j] \in Nat /\ late[i] <= late[j] /\ late[j] <= dep.adj
  <2>1. late[i] \in 0..dep.adj /\ late[j] \in 0..dep.adj
    BY <1>2, <1>5
  <2> QED BY <2>1, <1>1, <1>2, <1>5
<1> DEFINE a == dep.start + late[i] + block[i].ti
           b == dep.start + late[j] + block[j].ti
<1>7. a \in Nat /\ b \in Nat /\ b < CycleMod /\ a + block[j].ti <= b + block[i].ti
  <2>1. \A s, x, y, d, p, q, m \in Nat :
          x <= y /\ y <= d /\ s + d + q < m =>
            /\ s + x + p \in Nat /\ s + y + q \in Nat /\ s + y + q < m
            /\ (s + x + p) + q <= (s + y + q) + p
    OBVIOUS
  <2>2. /\ dep.start \in Nat /\ dep.adj \in Nat /\ CycleMod \in Nat
        /\ late[i] \in Nat /\ late[j] \in Nat /\ late[i] <= late[j] /\ late[j] <= dep.adj
        /\ block[i].ti \in Nat /\ block[j].ti \in Nat
        /\ dep.start + dep.adj + block[j].ti < CycleMod
    BY <1>1, <1>4, <1>6
  <2> HIDE DEF block
  <2> QED BY <2>1, <2>2
<1>8. dep.placed[i] = a % CycleMod /\ dep.placed[j] = b % CycleMod
  BY <1>2, <1>5
<1> HIDE DEF a, b
<1>9. /\ a % CycleMod \in Nat /\ a % CycleMod <= a /\ b % CycleMod = b
  <2>1. CycleMod \in Nat \ {0}
    OBVIOUS
  <2> QED BY <2>1, <1>7, RemainderBound
<1>10. dep.placed[i] + block[j].ti <= dep.placed[j] + block[i].ti
  <2>1. \A r, x, y, p, q \in Nat : r <= x /\ x + q <= y + p => r + q <= y + p
    OBVIOUS
  <2> HIDE DEF block
  <2> QED BY <2>1, <1>4, <1>7, <1>8, <1>9 DEF block
<1> QED BY <1>2, <1>10 DEF DeployInv

\* What a deployment leaves in the line is the block, at its distances, besides what was there,
\* and it is never refused a node or a time on the way (PL_deploy_block_cmd).
THEOREM DeploymentsAreWhole == Spec => []DeployIsWhole
<1>1. DeployInv => DeployNeverFull /\ DeployFindsTime
  BY DEF DeployInv, DeployNeverFull, DeployFindsTime
<1>2. DeployInv => DeployIsExact
  BY DEF DeployInv, DeployIsExact
<1>3. IInv /\ DeployInv => DeployIsWhole
  BY <1>1, <1>2, SpacingKept DEF DeployIsWhole
<1> QED BY <1>3, Invariance, DeploymentsAreBounded, PTL

\* The result of a complete deployment tells what it did (packet_list.c:404).
THEOREM ResultsAreTruthful == Spec => []ResultIsTruthful
<1>1. IInv /\ DeployInv => ResultIsTruthful
  <2> SUFFICES ASSUME IInv, DeployInv, pc = "finish", dep.on # None
               PROVE  LET block == BlockCmds[dep.block]
                          exact(i) == dep.placed[i] = (dep.start + block[i].ti) % CycleMod
                      IN  /\ dep.ack = "PL_SUCCESS" =>
                               /\ ~dep.cleared /\ Len(dep.placed) = Len(block)
                               /\ \A i \in DOMAIN block : exact(i)
                          /\ dep.ack = "PL_BC_TIME_ADJUSTED" =>
                               /\ ~dep.cleared /\ Len(dep.placed) = Len(block)
                               /\ \E i \in DOMAIN block : ~exact(i)
    BY DEF ResultIsTruthful
  <2> DEFINE block == BlockCmds[dep.block]
             exact(i) == dep.placed[i] = (dep.start + block[i].ti) % CycleMod
  <2>1. /\ dep.adj \in Nat /\ dep.start \in Nat /\ dep.i \in Nat /\ dep.placed \in Seq(Times)
        /\ CycleMod \in Nat \ {0}
    BY Facts DEF TypeOK, Deployment
  <2>2. dep.block \in Blocks /\ Reported /\ dep.i = Len(dep.placed) /\ Delayed
    BY DEF DeployInv
  <2>3. block \in Seq(Packet) /\ DOMAIN block = 1..Len(block)
        /\ \A i \in DOMAIN block : block[i].ti \in Nat
    <3>1. block \in Seq(Packet)
      BY <2>2, BlockAssumption
    <3>2. \A i \in 1..Len(block) : block[i] \in Packet
      BY <3>1, ElementOfSeq
    <3>3. DOMAIN block = 1..Len(block)
      BY <3>1
    <3>4. \A i \in 1..Len(block) : block[i].ti \in Nat
      BY <3>2, TimesAreNat
    <3> HIDE DEF block
    <3> QED BY <3>1, <3>3, <3>4
  <2>4. PICK late \in [1..dep.i -> 0..dep.adj] :
          /\ \A i \in 1..dep.i : dep.placed[i] = (dep.start + late[i] + block[i].ti) % CycleMod
          /\ dep.adj # 0 => \E i \in 1..dep.i : 0 < late[i] /\ late[i] < CycleMod
    BY <2>2 DEF Delayed
  <2>5. ASSUME dep.ack = "PL_SUCCESS"
        PROVE  ~dep.cleared /\ Len(dep.placed) = Len(block) /\ \A i \in DOMAIN block : exact(i)
    <3>1. ~dep.cleared /\ dep.adj = 0 /\ dep.i = Len(block)
      BY <2>2, <2>5 DEF Reported, BlockLength
    <3>2. ASSUME NEW i \in DOMAIN block PROVE exact(i)
      <4>1. i \in 1..dep.i /\ late[i] = 0
        BY <2>3, <3>1
      <4>2. dep.start + 0 + block[i].ti = dep.start + block[i].ti
        BY <2>1, <2>3
      <4> QED BY <4>1, <4>2, <2>4
    <3> QED BY <3>1, <3>2, <2>2
  <2>6. ASSUME dep.ack = "PL_BC_TIME_ADJUSTED"
        PROVE  ~dep.cleared /\ Len(dep.placed) = Len(block) /\ \E i \in DOMAIN block : ~exact(i)
    <3>1. ~dep.cleared /\ dep.adj # 0 /\ dep.i = Len(block)
      BY <2>2, <2>6 DEF Reported, BlockLength
    <3>2. PICK i \in 1..dep.i : 0 < late[i] /\ late[i] < CycleMod
      BY <2>4, <3>1
    <3>3. late[i] \in Nat /\ i \in DOMAIN block /\ block[i].ti \in Nat
      BY <2>1, <2>3, <3>1
    <3> DEFINE a == dep.start + late[i] + block[i].ti
               b == dep.start + block[i].ti
    <3>4. a \in Nat /\ b \in Nat /\ a - b < CycleMod /\ b - a < CycleMod /\ a # b
      <4>1. \A s, x, p, m \in Nat : 0 < x /\ x < m =>
              /\ s + x + p \in Nat /\ s + p \in Nat /\ s + x + p # s + p
              /\ (s + x + p) - (s + p) < m /\ (s + p) - (s + x + p) < m
        OBVIOUS
      <4> HIDE DEF block
      <4> QED BY <4>1, <3>2, <3>3, <2>1
    <3>5. dep.placed[i] = a % CycleMod
      BY <2>4
    <3> HIDE DEF a, b
    <3>6. a % CycleMod # b % CycleMod
      BY <3>4, <2>1, SameNumber
    <3>7. ~exact(i)
      BY <3>5, <3>6 DEF b
    <3> QED BY <3>1, <3>3, <3>7, <2>2
  <2> QED BY <2>5, <2>6
<1> QED BY <1>1, Invariance, DeploymentsAreBounded, PTL
=============================================================================
