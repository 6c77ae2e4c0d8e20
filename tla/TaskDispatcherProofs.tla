------------------------ MODULE TaskDispatcherProofs ------------------------
(***************************************************************************)
(* Theorems about TaskDispatcher, for all steps, cycles, blocks and tasks, *)
(* while the clock does not roll over.                                     *)
(*                                                                         *)
(* The properties of cycles are one argument.  Whenever the dispatcher has *)
(* passed the test "activated_at > total" it works on a list whose cycle   *)
(* has begun (Behind), and the interrupt only makes that truer, because it *)
(* can only advance the clock.  So at the redeployment the awaited cycle,  *)
(* total + 1, is later than the cycle of the old list, and not more than   *)
(* one cycle ahead.  That no task is before its step is the same argument  *)
(* about the step, and needs the types of the lists.                       *)
(***************************************************************************)
EXTENDS TaskDispatcher, CommonLemmas

\* The places at which the list is for the current cycle or for one that is over.
Begun == {"past", "check", "run", "deploy"}

\* The places at which it is known to be over.
Over == {"last", "overrun"}

ClockOK ==
    /\ total \in 0..(MaxCycle - 1) /\ step \in 0..(Steps - 1)
    /\ activated \in 0..(CycleMod - 1)
    /\ pc \in Places

Behind ==
    /\ pc \in Begun => activated <= total
    /\ pc \in Over => activated < total

Inv == ClockOK /\ NeverFarAhead /\ Behind /\ EmptyWhenDeployed

-----------------------------------------------------------------------------
\* The clock is advanced, one step at a time, and stops before it would roll over.
LEMMA TickAdvances ==
    ASSUME ~Rollover, ClockOK, Tick
    PROVE  /\ total' \in 0..(MaxCycle - 1) /\ step' \in 0..(Steps - 1)
           /\ total <= total'
<1>1. MaxCycle \in Nat /\ Steps \in Nat /\ total \in Nat /\ step \in Nat
  BY DispatcherAssumption DEF ClockOK
<1>2. CASE LastStep
  BY <1>1, <1>2, DispatcherAssumption DEF Tick, ClockOK
<1>3. CASE ~LastStep
  BY <1>1, <1>3, DispatcherAssumption DEF Tick, LastStep, ClockOK
<1> QED
  BY <1>2, <1>3

\* A redeployment awaits the cycle after the current one, whose number does not overflow.
LEMMA AwaitsTheNext ==
    ASSUME ClockOK
    PROVE  ActivatedNext = total + 1 /\ ActivatedNext \in 0..(CycleMod - 1)
<1>1. /\ MaxCycle \in Nat /\ CycleMod \in Nat /\ MaxCycle < CycleMod
      /\ total \in Nat /\ total + 1 <= MaxCycle
  BY DispatcherAssumption DEF ClockOK
<1>2. (total + 1) % CycleMod = total + 1
  BY <1>1
<1> QED
  BY <1>1, <1>2 DEF ActivatedNext

\* A time that is set is a time of the clock.
LEMMA TimesAreInRange ==
    ASSUME NEW effect \in Effect("SET_TIME")
    PROVE  effect.to \in 0..(MaxCycle - 1)
<1>1. effect \in EffectSpace /\ effect.op = "SET_TIME"
  BY DEF Effect
<1> QED
  BY <1>1 DEF EffectSpace

-----------------------------------------------------------------------------
\* A dispatcher that was just initialized expects the first cycle.
LEMMA Initially == Init => Inv
<1> SUFFICES ASSUME Init PROVE Inv
  OBVIOUS
<1>1. total = 0 /\ step = 0 /\ activated = 0 /\ pc = "idle"
  BY DEF Init
<1>2. ClockOK
  BY <1>1, DispatcherAssumption DEF ClockOK, Places
<1> QED
  BY <1>1, <1>2 DEF Inv, NeverFarAhead, Behind, Begun, Over, EmptyWhenDeployed

\* The interrupt leaves the dispatcher where it is.
LEMMA TickStep ==
    ASSUME ~Rollover, Inv, Tick
    PROVE  Inv'
<1>1. /\ total \in Nat /\ total' \in Nat /\ activated \in Nat /\ total <= total'
      /\ total' \in 0..(MaxCycle - 1) /\ step' \in 0..(Steps - 1)
  BY TickAdvances, DispatcherAssumption DEF Inv, ClockOK
<1>2. UNCHANGED <<activated, list, pc>>
  BY DEF Tick
<1>3. ClockOK'
  BY <1>1, <1>2 DEF Inv, ClockOK
<1>4. NeverFarAhead'
  <2>1. activated <= total + 1 /\ activated' = activated
    BY <1>2 DEF Inv, NeverFarAhead
  <2>2. total \in Nat /\ total' \in Nat /\ activated \in Nat /\ total <= total'
    BY <1>1
  <2>3. \A a, b, c \in Nat : a <= b + 1 /\ b <= c => a <= c + 1
    OBVIOUS
  <2>4. activated <= total' + 1
    BY <2>1, <2>2, <2>3
  <2> QED
    BY <2>1, <2>4 DEF NeverFarAhead
<1>5. Behind'
  <2>1. (pc \in Begun)' => activated <= total
    BY <1>2 DEF Inv, Behind, Begun
  <2>2. (pc \in Over)' => activated < total
    BY <1>2 DEF Inv, Behind, Over
  <2> QED
    BY <1>1, <1>2, <2>1, <2>2 DEF Behind
<1>6. EmptyWhenDeployed'
  BY <1>2 DEF Inv, EmptyWhenDeployed
<1> QED
  BY <1>3, <1>4, <1>5, <1>6 DEF Inv

\* A comparison moves the dispatcher to a place whose conditions it has established.
LEMMA GotoStep ==
    ASSUME Inv, NEW here, NEW there \in Places, Goto(here, there),
           there \in Begun => activated <= total,
           there \in Over => activated < total,
           there \in {"deploy", "place"} => list = <<>>
    PROVE  Inv'
<1>1. pc' = there /\ UNCHANGED <<total, step, activated, list>>
  BY DEF Goto, clock
<1>2. ClockOK' /\ NeverFarAhead'
  BY <1>1 DEF Inv, ClockOK, NeverFarAhead
<1>3. Behind' /\ EmptyWhenDeployed'
  BY <1>1 DEF Behind, EmptyWhenDeployed
<1> QED
  BY <1>2, <1>3 DEF Inv

\* The comparisons of the cycle of the list with the cycle of the clock.
LEMMA CompareStep ==
    ASSUME Inv, ThisCycle \/ NotThisCycle \/ NextCycle \/ NotNextCycle \/ CaughtUp \/ PastCycle \/ LastCycle
    PROVE  Inv'
<1> USE DEF Places, Begun, Over
<1>0. activated \in Nat /\ total \in Nat
  BY DispatcherAssumption DEF Inv, ClockOK
<1>1. CASE ThisCycle
  BY <1>0, <1>1, GotoStep DEF ThisCycle
<1>2. CASE NotThisCycle
  BY <1>2, GotoStep DEF NotThisCycle
<1>3. CASE NextCycle
  BY <1>3, GotoStep DEF NextCycle
<1>4. CASE NotNextCycle
  BY <1>4, GotoStep DEF NotNextCycle
<1>5. CASE CaughtUp
  BY <1>5, GotoStep DEF CaughtUp
<1>6. CASE PastCycle
  BY <1>6, GotoStep DEF PastCycle
<1>7. CASE LastCycle
  <2>1. pc = "last" /\ activated < total
    BY <1>7 DEF LastCycle, Goto, Inv, Behind
  <2> QED
    BY <1>7, <2>1, GotoStep DEF LastCycle
<1> QED
  BY <1>1, <1>2, <1>3, <1>4, <1>5, <1>6, <1>7

\* The head of the list against the step.
LEMMA CheckStep ==
    ASSUME Inv, CheckRun \/ CheckDeploy \/ CheckWait
    PROVE  Inv'
<1> USE DEF Places, Begun, Over
<1>1. pc = "check" /\ activated <= total
  BY DEF CheckRun, CheckDeploy, CheckWait, Goto, Inv, Behind
<1>2. CASE CheckRun
  BY <1>1, <1>2, GotoStep DEF CheckRun
<1>3. CASE CheckDeploy
  BY <1>1, <1>3, GotoStep DEF CheckDeploy
<1>4. CASE CheckWait
  BY <1>4, GotoStep DEF CheckWait
<1> QED
  BY <1>2, <1>3, <1>4

\* Throwing the rest of the list away, and the two steps of a redeployment.
LEMMA DeployStep ==
    ASSUME Inv, Overrun \/ Deploy \/ Place
    PROVE  Inv'
<1>0. activated \in Nat /\ total \in Nat
  BY DispatcherAssumption DEF Inv, ClockOK
<1>1. CASE Overrun
  <2>1. /\ pc = "overrun" /\ pc' = "deploy" /\ list' = <<>>
        /\ UNCHANGED <<total, step, activated>>
    BY <1>1 DEF Overrun, clock
  <2>2. activated < total
    BY <2>1 DEF Inv, Behind, Over
  <2>3. ClockOK' /\ NeverFarAhead'
    BY <2>1 DEF Inv, ClockOK, NeverFarAhead, Places
  <2>4. Behind' /\ EmptyWhenDeployed'
    BY <1>0, <2>1, <2>2 DEF Behind, Over, EmptyWhenDeployed
  <2> QED
    BY <2>3, <2>4 DEF Inv
<1>2. CASE Deploy
  <2>1. /\ pc = "deploy" /\ pc' = "place" /\ UNCHANGED <<total, step, list>>
        /\ activated' = total + 1 /\ activated' \in 0..(CycleMod - 1)
    BY <1>2, AwaitsTheNext DEF Deploy, clock, Inv
  <2>2. ClockOK' /\ NeverFarAhead'
    BY <1>0, <2>1 DEF Inv, ClockOK, NeverFarAhead, Places
  <2>3. Behind' /\ EmptyWhenDeployed'
    BY <2>1 DEF Inv, Behind, Begun, Over, EmptyWhenDeployed
  <2> QED
    BY <2>2, <2>3 DEF Inv
<1>3. CASE Place
  <2>1. pc' = "idle" /\ UNCHANGED <<total, step, activated>>
    BY <1>3 DEF Place, clock
  <2>2. ClockOK' /\ NeverFarAhead'
    BY <2>1 DEF Inv, ClockOK, NeverFarAhead, Places
  <2>3. Behind' /\ EmptyWhenDeployed'
    BY <2>1 DEF Behind, Begun, Over, EmptyWhenDeployed
  <2> QED
    BY <2>2, <2>3 DEF Inv
<1> QED
  BY <1>1, <1>2, <1>3

\* A task that sets the clock sets the awaited cycle with it; the others touch neither.
LEMMA RunStep ==
    ASSUME Inv, Run
    PROVE  Inv'
<1>1. pc' = "idle" /\ step' = step
  BY DEF Run, RunPlain, RunSetTime, RunSetTaskList, RunActivate, RunInactivate, RunClearBlock,
         Dropped, clock
<1>2. \/ UNCHANGED <<total, activated>>
      \/ \E to \in 0..(MaxCycle - 1) : total' = to /\ activated' = to
  BY TimesAreInRange DEF Run, RunPlain, RunSetTime, RunSetTaskList, RunActivate, RunInactivate,
                         RunClearBlock, clock
<1>3. ClockOK' /\ NeverFarAhead'
  BY <1>1, <1>2, DispatcherAssumption DEF Inv, ClockOK, NeverFarAhead, Places
<1>4. Behind' /\ EmptyWhenDeployed'
  BY <1>1 DEF Behind, Begun, Over, EmptyWhenDeployed
<1> QED
  BY <1>3, <1>4 DEF Inv

\* Every step keeps the invariant, as long as the cycle counter does not roll over.
LEMMA NextStep == ~Rollover /\ Inv /\ [Next]_vars => Inv'
<1> SUFFICES ASSUME ~Rollover, Inv, [Next]_vars PROVE Inv'
  OBVIOUS
<1>1. CASE Tick
  BY <1>1, TickStep
<1>2. CASE Dispatch
  BY <1>2, CompareStep, CheckStep, DeployStep DEF Dispatch
<1>3. CASE Run
  BY <1>3, RunStep
<1>4. CASE UNCHANGED vars
  BY <1>4 DEF vars, Inv, ClockOK, NeverFarAhead, Behind, EmptyWhenDeployed
<1> QED
  BY <1>1, <1>2, <1>3, <1>4 DEF Next

-----------------------------------------------------------------------------
\* The inductive invariant: what the dispatcher knows at each place stays true, although
\* the clock may advance between any two of its steps.
THEOREM Invariance ==
    ASSUME ~Rollover
    PROVE  Spec => []Inv
<1>1. Inv /\ [Next]_vars => Inv'
  BY NextStep
<1> QED
  BY <1>1, Initially, PTL DEF Spec

\* task_dispatcher.c:79, 184: the dispatcher never waits for more than the next cycle.
THEOREM NoLongWait ==
    ASSUME ~Rollover
    PROVE  Spec => []NeverFarAhead
<1>1. Inv => NeverFarAhead
  BY DEF Inv
<1> QED
  BY <1>1, Invariance, PTL

\* task_dispatcher.c:177: a new list is deployed onto an empty list only.
THEOREM DeploysOntoEmptyList ==
    ASSUME ~Rollover
    PROVE  Spec => []EmptyWhenDeployed
<1>1. Inv => EmptyWhenDeployed
  BY DEF Inv
<1> QED
  BY <1>1, Invariance, PTL

\* task_dispatcher.c:79, 177: the task list is that of one cycle, the running or the next one.
THEOREM OneCycle ==
    ASSUME ~Rollover
    PROVE  Spec => []OneCycleAtATime
<1>1. Inv => OneCycleAtATime
  BY DEF Inv, OneCycleAtATime
<1> QED
  BY <1>1, Invariance, PTL

\* task_dispatcher.c:79: each list is for a later cycle than the one before it.
THEOREM OncePerCycle ==
    ASSUME ~Rollover
    PROVE  Spec => NeverTwiceInACycle
<1>1. Inv /\ [Next]_vars => [pc = "deploy" /\ pc' = "place" => activated' > activated]_vars
  <2> SUFFICES ASSUME Inv, Next, pc = "deploy", pc' = "place" PROVE activated' > activated
    OBVIOUS
  <2>1. ~Tick /\ ~Run
    BY DEF Tick, Run, RunPlain, RunSetTime, RunSetTaskList, RunActivate, RunInactivate,
           RunClearBlock, Dropped
  <2>2. Deploy
    BY <2>1 DEF Next, Dispatch, ThisCycle, NotThisCycle, NextCycle, NotNextCycle, CaughtUp,
                PastCycle, LastCycle, Overrun, CheckRun, CheckDeploy, CheckWait, Goto, Place
  <2>3. activated' = total + 1 /\ activated <= total
    BY <2>2, AwaitsTheNext DEF Deploy, Inv, Behind, Begun
  <2> QED
    BY <2>3, DispatcherAssumption DEF Inv, ClockOK
<1> QED
  BY <1>1, Invariance, PTL DEF Spec, NeverTwiceInACycle
-----------------------------------------------------------------------------
(***************************************************************************)
(* The types, and the step a task begins in.  The list a deployment leaves *)
(* is well typed whatever the block holds (DeployedProperties).            *)
(***************************************************************************)
Packet == [ti : Nat, cmd : Tasks]

\* A deployment of any block onto a well-typed list leaves a well-typed list.
LEMMA DeployedIsTyped ==
    ASSUME NEW old \in Seq(Packet), NEW block \in Seq(Packet)
    PROVE  Deployed(old, Capacity, block, 0, CycleMod).list \in Seq(Packet)
<1>1. \A p \in Packet : p.ti \in Nat
  BY DEF Packet
<1>2. Capacity \in Nat /\ 0 \in Nat /\ CycleMod \in Nat \ {0}
  BY DispatcherAssumption
<1>3. IsBlock(block, Packet, CycleMod)
  <2>1. Len(block) \in Nat /\ \A i \in 1..Len(block) : block[i] \in Packet
    OBVIOUS
  <2>2. ASSUME NEW command \in Packet PROVE Placeable(command, Packet, CycleMod)
    <3>1. \A t \in 0..(CycleMod - 1) : t \in Nat
      BY <1>2
    <3> QED
      BY <3>1 DEF Placeable, Packet
  <2> QED
    BY <2>1, <2>2 DEF IsBlock
<1> QED
  BY <1>1, <1>2, <1>3, DeployedProperties

\* The part of the types that is not about the clock.
Typed ==
    /\ listId \in Blocks /\ blocks \in [Blocks -> BlockState]
    /\ list \in Seq(Packet) /\ source \in Seq(Packet)
    /\ pc = "run" => list # <<>>

\* A list deployed onto the empty one is well typed.
LEMMA FreshIsTyped ==
    ASSUME NEW id \in Blocks, blocks \in [Blocks -> BlockState]
    PROVE  FreshList(id) \in Seq(Packet)
<1>1. blocks[id].cmds \in Seq(Packet)
  BY DEF BlockState, Packet
<1>2. <<>> \in Seq(Packet)
  OBVIOUS
<1> QED
  BY <1>1, <1>2, DeployedIsTyped DEF FreshList

\* The list that C2A_core_init deploys is well typed.
LEMMA TypedInitially == Init => Typed
<1> SUFFICES ASSUME Init PROVE Typed
  OBVIOUS
<1>1. listId \in Blocks /\ pc # "run"
  BY DispatcherAssumption DEF Init
<1>2. blocks \in [Blocks -> BlockState]
  BY DispatcherAssumption DEF Init, BlockState
<1>3. FreshList(StartUp) \in Seq(Packet)
  BY <1>2, FreshIsTyped, DispatcherAssumption
<1> QED
  BY <1>1, <1>2, <1>3 DEF Init, Typed

\* A task may choose a list or change a block; it leaves the table of blocks well typed.
LEMMA TypedRun ==
    ASSUME Typed, Run
    PROVE  Typed'
<1>1. pc' = "idle" /\ list' = Tail(list) /\ source' = source /\ pc = "run"
  BY DEF Run, RunPlain, RunSetTime, RunSetTaskList, RunActivate, RunInactivate, RunClearBlock,
         Dropped
<1>2. list' \in Seq(Packet)
  BY <1>1 DEF Typed
<1>3. \A b \in Blocks : blocks[b].cmds \in Seq([ti : Nat, cmd : Tasks]) /\ blocks[b].active \in BOOLEAN
  BY DEF Typed, BlockState
<1>4. listId' \in Blocks
  <2>1. CASE RunSetTaskList
    <3>1. PICK effect \in Effect("SET_TASK_LIST") : listId' = effect.block \/ listId' = listId
      BY <2>1 DEF RunSetTaskList
    <3>2. effect.block \in Blocks
      BY DEF Effect, EffectSpace
    <3> QED
      BY <3>1, <3>2 DEF Typed
  <2>2. CASE ~RunSetTaskList
    BY <2>2 DEF Run, RunPlain, RunSetTime, RunActivate, RunInactivate, RunClearBlock, Typed
  <2> QED
    BY <2>1, <2>2
<1>5. blocks' \in [Blocks -> BlockState]
  <2>1. CASE RunActivate
    <3>1. PICK b \in Blocks : blocks' = [blocks EXCEPT ![b].active = TRUE]
      BY <2>1 DEF RunActivate, Effect, EffectSpace
    <3> QED
      BY <3>1, <1>3 DEF Typed, BlockState
  <2>2. CASE RunInactivate
    <3>1. PICK b \in Blocks : blocks' = [blocks EXCEPT ![b].active = FALSE]
      BY <2>2 DEF RunInactivate, Effect, EffectSpace
    <3> QED
      BY <3>1, <1>3 DEF Typed, BlockState
  <2>3. CASE RunClearBlock
    <3>1. PICK b \in Blocks : blocks' = [blocks EXCEPT ![b] = [cmds |-> <<>>, active |-> FALSE]]
      BY <2>3 DEF RunClearBlock, Effect, EffectSpace
    <3>2. [cmds |-> <<>>, active |-> FALSE] \in BlockState
      BY DEF BlockState
    <3> QED
      BY <3>1, <3>2 DEF Typed
  <2>4. CASE RunPlain \/ RunSetTime \/ RunSetTaskList
    BY <2>4 DEF RunPlain, RunSetTime, RunSetTaskList, Typed
  <2> QED
    BY <2>1, <2>2, <2>3, <2>4 DEF Run
<1> QED
  BY <1>1, <1>2, <1>4, <1>5 DEF Typed

\* Every step keeps the types; the interesting ones are Place and Run.
LEMMA TypedStep == Typed /\ [Next]_vars => Typed'
<1> SUFFICES ASSUME Typed, [Next]_vars PROVE Typed'
  OBVIOUS
<1>1. CASE Tick \/ UNCHANGED vars
  BY <1>1 DEF Tick, vars, Typed
<1>2. CASE Run
  BY <1>2, TypedRun
<1>3. CASE Place
  <2>1. list' \in Seq(Packet)
    <3>1. blocks[listId].cmds \in Seq(Packet) /\ list \in Seq(Packet)
      BY DEF Typed, BlockState, Packet
    <3>2. Deployed(list, Capacity, blocks[listId].cmds, 0, CycleMod).list \in Seq(Packet)
      BY <3>1, DeployedIsTyped
    <3> QED
      BY <1>3, <3>1, <3>2 DEF Place
  <2>2. source' \in Seq(Packet)
    BY <1>3, FreshIsTyped DEF Place, Typed
  <2> QED
    BY <1>3, <2>1, <2>2 DEF Place, Typed
<1>4. CASE Overrun \/ Deploy
  <2>1. UNCHANGED <<listId, blocks, source>> /\ pc' # "run" /\ (list' = <<>> \/ list' = list)
    BY <1>4 DEF Overrun, Deploy
  <2>2. list \in Seq(Packet) /\ <<>> \in Seq(Packet)
    BY DEF Typed
  <2>3. list' \in Seq(Packet)
    BY <2>1, <2>2
  <2> QED
    BY <2>1, <2>3 DEF Typed
<1>5. CASE CheckRun
  <2>1. list # <<>>
    BY <1>5 DEF CheckRun, Due, CheckTl
  <2> QED
    BY <1>5, <2>1 DEF CheckRun, Goto, Typed
<1>6. CASE \/ ThisCycle \/ NotThisCycle \/ NextCycle \/ NotNextCycle \/ CaughtUp \/ PastCycle
           \/ LastCycle \/ CheckDeploy \/ CheckWait
  <2>1. UNCHANGED <<listId, list, blocks, source>> /\ pc' # "run"
    BY <1>6 DEF ThisCycle, NotThisCycle, NextCycle, NotNextCycle, CaughtUp, PastCycle, LastCycle,
                CheckDeploy, CheckWait, Goto
  <2> QED
    BY <2>1 DEF Typed
<1> QED
  BY <1>1, <1>2, <1>3, <1>4, <1>5, <1>6 DEF Next, Dispatch

\* The interrupt lets the step fall back only when it advances the cycle.
LEMMA TickIsLater ==
    ASSUME ~Rollover, ClockOK, Tick
    PROVE  total < total' \/ (total' = total /\ step <= step')
<1>1. MaxCycle \in Nat /\ Steps \in Nat /\ total \in Nat /\ step \in Nat
  BY DispatcherAssumption DEF ClockOK
<1>2. CASE LastStep
  <2>1. total' = total + 1
    BY <1>1, <1>2 DEF Tick
  <2> QED
    BY <1>1, <2>1
<1>3. CASE ~LastStep
  BY <1>1, <1>3 DEF Tick
<1> QED
  BY <1>2, <1>3

\* The head of a list that is not empty is its first packet.
LEMMA HeadIsTyped ==
    ASSUME list \in Seq(Packet), list # <<>>
    PROVE  Head(list) = list[1] /\ list[1].ti \in Nat
<1>1. Head(list) = list[1] /\ list[1] \in Packet
  OBVIOUS
<1> QED
  BY <1>1 DEF Packet

\* A task that was found due is still due when it begins: the clock only goes on.
LEMMA DueStep ==
    ASSUME ~Rollover, Inv, Typed, NoTaskBeforeItsStep, [Next]_vars
    PROVE  NoTaskBeforeItsStep'
<1>0. /\ total \in Nat /\ activated \in Nat /\ step \in Nat /\ total' \in Nat /\ step' \in Nat
  <2>1. /\ total \in 0..(MaxCycle - 1) /\ activated \in 0..(CycleMod - 1) /\ step \in 0..(Steps - 1)
        /\ total' \in 0..(MaxCycle - 1) /\ step' \in 0..(Steps - 1)
    BY NextStep DEF Inv, ClockOK
  <2> QED
    BY <2>1
<1>1. CASE Tick
  <2> SUFFICES ASSUME pc = "run"
               PROVE  activated < total' \/ (activated = total' /\ Head(list).ti <= step')
    BY <1>1 DEF Tick, NoTaskBeforeItsStep
  <2>1. total < total' \/ (total' = total /\ step <= step')
    BY <1>1, TickIsLater DEF Inv
  <2>2. activated < total \/ (activated = total /\ Head(list).ti <= step)
    BY DEF NoTaskBeforeItsStep
  <2>3. Head(list).ti \in Nat
    BY HeadIsTyped DEF Typed
  <2> QED
    BY <1>0, <2>1, <2>2, <2>3
<1>2. CASE CheckRun
  <2>1. /\ pc = "check" /\ UNCHANGED <<total, step, activated, list>>
    BY <1>2 DEF CheckRun, Goto, clock
  <2>2. activated <= total
    BY <2>1 DEF Inv, Behind, Begun
  <2>3. list # <<>> /\ (list[1].ti = step \/ list[1].ti < step)
    BY <1>2 DEF CheckRun, Due, CheckTl
  <2>4. Head(list) = list[1] /\ list[1].ti \in Nat
    BY <2>3, HeadIsTyped DEF Typed
  <2>5. Head(list).ti <= step
    BY <1>0, <2>3, <2>4
  <2>6. activated < total \/ activated = total
    BY <1>0, <2>2
  <2> QED
    BY <2>1, <2>5, <2>6 DEF NoTaskBeforeItsStep
<1>3. CASE Run \/ Overrun \/ Deploy \/ Place
  <2>1. pc' # "run"
    BY <1>3 DEF Run, RunPlain, RunSetTime, RunSetTaskList, RunActivate, RunInactivate,
                RunClearBlock, Dropped, Overrun, Deploy, Place
  <2> QED
    BY <2>1 DEF NoTaskBeforeItsStep
<1>4. CASE \/ ThisCycle \/ NotThisCycle \/ NextCycle \/ NotNextCycle \/ CaughtUp \/ PastCycle
           \/ LastCycle \/ CheckDeploy \/ CheckWait
  <2>1. pc' # "run"
    BY <1>4 DEF ThisCycle, NotThisCycle, NextCycle, NotNextCycle, CaughtUp, PastCycle, LastCycle,
                CheckDeploy, CheckWait, Goto
  <2> QED
    BY <2>1 DEF NoTaskBeforeItsStep
<1>5. CASE UNCHANGED vars
  BY <1>5 DEF vars, NoTaskBeforeItsStep
<1> QED
  BY <1>1, <1>2, <1>3, <1>4, <1>5 DEF Next, Dispatch

\* The types of the dispatcher and of its clock, whatever the blocks hold and the tasks do.
THEOREM Types ==
    ASSUME ~Rollover
    PROVE  Spec => []TypeOK
<1>1. Inv /\ Typed => TypeOK
  BY DEF Inv, ClockOK, Typed, TypeOK, Packet
<1> QED
  BY <1>1, TypedInitially, TypedStep, Invariance, PTL DEF Spec

\* task_dispatcher.c:100-104: no task begins before its step of the cycle of its list,
\* although the cycle and the step are read one after the other.
THEOREM TasksBeginInTime ==
    ASSUME ~Rollover
    PROVE  Spec => []NoTaskBeforeItsStep
<1>1. Init => NoTaskBeforeItsStep
  BY DEF Init, NoTaskBeforeItsStep
<1>2. Inv /\ Typed /\ NoTaskBeforeItsStep /\ [Next]_vars => NoTaskBeforeItsStep'
  BY DueStep
<1> QED
  BY <1>1, <1>2, TypedInitially, TypedStep, Invariance, PTL DEF Spec
=============================================================================
