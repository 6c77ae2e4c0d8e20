---------------------------- MODULE EventHandler ----------------------------
(***************************************************************************)
(* The event handler (EH_execute of event_handler.c) above the event       *)
(* logger and the rule table.  It goes through the events that the logger  *)
(* has recorded since its last execution, the oldest first, and responds   *)
(* to those that match a rule by deploying a block.  A match is itself     *)
(* recorded as an event of level EH, which a higher rule may wait for: the *)
(* functions of the C code call each other recursively, which is a stack   *)
(* of frames here.                                                         *)
(*                                                                         *)
(* Events are not copied: a frame has the place of its event in the ring   *)
(* of the logger, and what EH_execute records meanwhile may overwrite it.  *)
(*                                                                         *)
(* Tasks are not preempted: while EH_execute runs (pc # "idle") only the   *)
(* clock goes on.                                                          *)
(***************************************************************************)
EXTENDS EventLogger, EventRules

CONSTANTS
    HandlerGroup,       \* EL_CORE_GROUP_EVENT_HANDLER
    HigherGroup,        \* EL_CORE_GROUP_EH_RESPOND_WITH_HIGHER_LEVEL_RULE
    MaxResponses,       \* what max_response_num is set to
    MaxChecks,          \* what max_check_event_num is set to
    LogMax              \* EH_LOG_MAX

ASSUME HandlerAssumption ==
    /\ {HandlerGroup, HigherGroup, MatchRule} \subseteq EventGroups
    /\ MaxResponses \subseteq Nat /\ MaxResponses # {} /\ MaxChecks \subseteq Nat /\ MaxChecks # {}
    /\ LogMax \in Nat \ {0}

VARIABLES
    eh,         \* el_event_counter, exec_settings and log_wp of event_handler_
    lastTime,   \* EH_Rule.last_event_time of each rule
    exec,       \* the execution: what EH_execute and the functions it calls have on the stack
    hist        \* history, for the properties

handlerVars == <<el, clock, eh, lastTime, exec, hist, ruleVars>>

Largest(S) == CHOOSE n \in S : \A m \in S : m <= n

\* EH_EL_LOCAL_ID
TotalCounterErr == 0
CounterErr == 1
TooManyEvent == 2
FailToRespond == 3
LogTableFull == 4
RecursionErr == 6
UnknownErr == 7

\* No execution.  A frame of the stack has the level and the slot of an event, the rules found
\* for it that are still to be checked, and the number of responses so far.
Idle == [pc |-> "idle", checked |-> 0, responded |-> 0, multiLevel |-> 0, stack |-> <<>>]

Top == Head(exec.stack)
Rule == Head(Top.ids)
TopEvent == el.ring[Top.level][Top.slot]

\* The top frame is done with its first rule, after n responses.
NextRule(n) == <<[Top EXCEPT !.ids = Tail(@), !.responded = @ + n]>> \o Tail(exec.stack)

RecordError(log, local, level) == Recorded(log, HandlerGroup, local, level, clock)

Delta(level) == el.count[level] - eh.seen[level]

\* EH_match_event_counter_to_el
Matched(log) == [eh EXCEPT !.seen = log.count, !.total = log.total]
-----------------------------------------------------------------------------
\* EH_check_el_event_counter_: the first disagreement that it finds.
Disagreement ==
    IF el.total < eh.total THEN TotalCounterErr
    ELSE IF \/ \E l \in Levels : Delta(l) < 0
            \/ el.total - eh.total # Sum([l \in Levels |-> Delta(l)])
         THEN CounterErr
    ELSE -1

\* EH_execute begins.
Execute ==
    /\ exec.pc = "idle" /\ Disagreement = -1
    /\ exec' = [Idle EXCEPT !.pc = "events"]
    /\ UNCHANGED <<el, clock, eh, lastTime, hist, ruleVars>>

\* EH_execute gives up: the counters are made to agree again.
ExecuteDisagrees ==
    /\ exec.pc = "idle" /\ Disagreement # -1
    /\ el' = RecordError(el, Disagreement, "HIGH")
    /\ eh' = Matched(el')
    /\ hist' = [hist EXCEPT !.disturbed = TRUE]
    /\ UNCHANGED <<clock, lastTime, exec, ruleVars>>
-----------------------------------------------------------------------------
\* EH_get_oldest_event_excluding_eh_error_level_: the levels are gone through in their order;
\* of the events of a level that has lost some, half a ring is kept.

\* BUG (mutant): the lost events are given up without a record.
LossUnrecorded(log) == log
LossRecorded(log) == RecordError(log, TooManyEvent, "HIGH")

\* BUG (mutant): the number of events that are left is taken for the distance of the oldest.
OldestSlotBefore(log, seen, level) == SlotFromLatest(log, level, log.count[level] - seen[level])
OldestSlot(log, seen, level) == SlotFromLatest(log, level, log.count[level] - seen[level] - 1)

\* BUG (mutant): the loop over the levels ends early.
CheckedLevelsShort == {"HIGH"}
CheckedLevels == Levels \ {"EH"}

GivenUp(s, level) ==
    LET delta == s.log.count[level] - s.seen[level]
        drop == delta - TLogCapacity[level] \div 2
    IN  IF delta <= TLogCapacity[level] THEN s
        ELSE [s EXCEPT !.log = LossRecorded(@), !.seen[level] = @ + drop, !.total = @ + drop]

WithOldestOf(s, level) ==
    LET slot == OldestSlot(s.log, s.seen, level)
        time == s.log.ring[level][slot].time
    IN  IF time < s.time THEN [s EXCEPT !.time = time, !.oldest = <<level, slot>>] ELSE s

Scanned(s, level) ==
    IF level \notin CheckedLevels \/ s.log.count[level] <= s.seen[level] THEN s
    ELSE WithOldestOf(GivenUp(s, level), level)

\* OBCT_get_max is later than any event.
ScanStart == [log |-> el, seen |-> eh.seen, total |-> eh.total, time |-> MaxTime + 1, oldest |-> <<>>]
Scan ==
    LET scan[i \in 0..Len(LevelOrder)] ==
            IF i = 0 THEN ScanStart ELSE Scanned(scan[i - 1], LevelOrder[i])
    IN  scan[Len(LevelOrder)]

\* The loop of EH_execute ends: enough events are checked, or none is left.
ExecuteEnds ==
    /\ exec.pc = "events"
    /\ exec.checked >= eh.maxCheck \/ Scan.oldest = <<>>
    /\ exec' = Idle
    /\ UNCHANGED <<el, clock, eh, lastTime, hist, ruleVars>>

\* EH_get_event_to_check_rule_, and the beginning of EH_check_event_and_respond_
NextEvent ==
    /\ exec.pc = "events" /\ exec.checked < eh.maxCheck
    /\ \E found \in {Scan} :
          /\ found.oldest # <<>>
          /\ el' = found.log
          /\ \E event \in {found.log.ring[found.oldest[1]][found.oldest[2]]} :
                /\ eh' = [eh EXCEPT !.seen = [found.seen EXCEPT ![event.level] = @ + 1],
                                   !.total = found.total + 1]
                /\ exec' = [exec EXCEPT !.pc = "rules", !.multiLevel = 0,
                                       !.stack = <<[level |-> found.oldest[1], slot |-> found.oldest[2],
                                                    ids |-> RulesFor(event), responded |-> 0]>>]
                /\ hist' = [hist EXCEPT !.done = Append(@, event.number), !.answers = {}]
    /\ UNCHANGED <<clock, lastTime, ruleVars>>
-----------------------------------------------------------------------------
\* EH_check_rule_and_respond_

Strange == ~SameEvent(setting[Rule], TopEvent)

\* "Impossible": the rule does not wait for the event.
RuleIsStrange ==
    /\ exec.pc = "rules" /\ Top.ids # <<>> /\ Strange
    /\ el' = RecordError(el, UnknownErr, "HIGH")
    /\ exec' = [exec EXCEPT !.stack = NextRule(0)]
    /\ hist' = [hist EXCEPT !.missed = TRUE]
    /\ UNCHANGED <<clock, eh, lastTime, ruleVars>>

\* EH_check_rule_: whether the rule looks at the event at all.
Applies == active[Rule] /\ (setting[Rule].match => setting[Rule].level = TopEvent.level)

\* EH_check_continuous_rule_: OBCT_diff is 0 for times that go back.
Gap == IF TopEvent.time < lastTime[Rule] THEN 0 ELSE TopEvent.time - lastTime[Rule]

\* EH_check_continuous_rule_, EH_check_cumulative_rule_: the counter with this event, a uint16_t.
CountedNow ==
    LET late == setting[Rule].type = "CONTINUOUS" /\ Gap > setting[Rule].window
    IN  ((IF late THEN 0 ELSE counter[Rule]) + 1) % 65536

\* EH_check_single_rule_ and the others: the rule matches.
\* BUG (mutant): the event that reaches the threshold does not match yet.
MatchesLate == setting[Rule].type = "SINGLE" \/ CountedNow > setting[Rule].threshold
Matches == setting[Rule].type = "SINGLE" \/ CountedNow >= setting[Rule].threshold

RuleIsSkipped ==
    /\ exec.pc = "rules" /\ Top.ids # <<>> /\ ~Strange /\ ~Applies
    /\ exec' = [exec EXCEPT !.stack = NextRule(0)]
    /\ hist' = [hist EXCEPT !.missed = @ \/ ~active[Rule]]
    /\ UNCHANGED <<el, clock, eh, lastTime, ruleVars>>

RuleCounts ==
    /\ exec.pc = "rules" /\ Top.ids # <<>> /\ ~Strange /\ Applies /\ ~Matches
    /\ counter' = [counter EXCEPT ![Rule] = CountedNow]
    /\ lastTime' = [lastTime EXCEPT ![Rule] = TopEvent.time]
    /\ exec' = [exec EXCEPT !.stack = NextRule(0)]
    /\ UNCHANGED <<el, clock, eh, hist, setting, active, sorted, maxLevels, undef>>

CounterAfterMatch(id) == IF setting[id].type = "SINGLE" THEN counter[id] ELSE 0

RuleMatches ==
    /\ exec.pc = "rules" /\ Top.ids # <<>> /\ ~Strange /\ Applies /\ Matches
    /\ counter' = [counter EXCEPT ![Rule] = CounterAfterMatch(Rule)]
    /\ lastTime' = [lastTime EXCEPT ![Rule] = TopEvent.time]
    /\ el' = Recorded(el, MatchRule, Rule, "EH", clock)
    /\ exec' = [exec EXCEPT !.pc = "higher"]
    /\ UNCHANGED <<clock, eh, hist, setting, active, sorted, maxLevels, undef>>
-----------------------------------------------------------------------------
\* EH_check_higher_level_rule_and_respond_

LatestEH == SlotFromLatest(el, "EH", 0)
TooDeep == exec.multiLevel + 1 >= maxLevels
NotMyMatch == Delta("EH") < 1 \/ ~SameEvent(el.ring["EH"][LatestEH], [group |-> MatchRule, local |-> Rule])

\* No higher rule is asked: too many have been, or ("impossible") the match is not there.
HigherIsRefused ==
    /\ exec.pc = "higher" /\ (TooDeep \/ NotMyMatch)
    /\ el' = RecordError(el, IF TooDeep THEN RecursionErr ELSE UnknownErr, "HIGH")
    /\ exec' = [exec EXCEPT !.pc = "respond", !.multiLevel = @ + 1]
    /\ hist' = [hist EXCEPT !.missed = TRUE]
    /\ UNCHANGED <<clock, eh, lastTime, ruleVars>>

\* BUG (mutant): the total is advanced by the match alone.
HigherIsAskedByOne ==
    /\ exec.pc = "higher" /\ ~TooDeep /\ ~NotMyMatch
    /\ eh' = [eh EXCEPT !.seen["EH"] = @ + Delta("EH"), !.total = @ + 1]
    /\ exec' = [exec EXCEPT !.pc = "rules", !.multiLevel = @ + 1,
                            !.stack = <<[level |-> "EH", slot |-> LatestEH,
                                         ids |-> RulesFor(el.ring["EH"][LatestEH]), responded |-> 0]>> \o @]
    /\ UNCHANGED <<el, clock, lastTime, hist, ruleVars>>
HigherIsAsked ==
    /\ exec.pc = "higher" /\ ~TooDeep /\ ~NotMyMatch
    /\ eh' = [eh EXCEPT !.seen["EH"] = @ + Delta("EH"), !.total = @ + Delta("EH")]
    /\ exec' = [exec EXCEPT !.pc = "rules", !.multiLevel = @ + 1,
                            !.stack = <<[level |-> "EH", slot |-> LatestEH,
                                         ids |-> RulesFor(el.ring["EH"][LatestEH]), responded |-> 0]>> \o @]
    /\ UNCHANGED <<el, clock, lastTime, hist, ruleVars>>

\* The rules of a higher event are through: if one of them has responded, the rule below does
\* not.
Caller == exec.stack[2]
HigherResponded == Top.responded > 0

ReturnToLower ==
    /\ exec.pc = "rules" /\ Top.ids = <<>> /\ Len(exec.stack) > 1 /\ HigherResponded
    /\ el' = Recorded(el, HigherGroup, Head(Caller.ids), "EH", clock)
    /\ exec' = [exec EXCEPT !.stack =
                    <<[Caller EXCEPT !.ids = Tail(@), !.responded = @ + Top.responded]>> \o Tail(Tail(@))]
    /\ UNCHANGED <<clock, eh, lastTime, hist, ruleVars>>

ReturnToRespond ==
    /\ exec.pc = "rules" /\ Top.ids = <<>> /\ Len(exec.stack) > 1 /\ ~HigherResponded
    /\ exec' = [exec EXCEPT !.pc = "respond", !.stack = Tail(@)]
    /\ UNCHANGED <<el, clock, eh, lastTime, hist, ruleVars>>

\* The rules of an event of EH_execute's own loop are through.
ReturnToExecute ==
    /\ exec.pc = "rules" /\ Top.ids = <<>> /\ Len(exec.stack) = 1
    /\ exec' = IF exec.responded + Top.responded >= eh.maxResponse THEN Idle
               ELSE [exec EXCEPT !.pc = "events", !.checked = @ + 1, !.stack = <<>>,
                                 !.responded = @ + Top.responded]
    /\ UNCHANGED <<el, clock, eh, lastTime, hist, ruleVars>>
-----------------------------------------------------------------------------
\* EH_respond_: the block is deployed (in CommandPipeline), the rule and those below it become
\* inactive, and the response is logged.

DeployRecorded(log, outcome) ==
    IF outcome = "SUCCESS" THEN log
    ELSE RecordError(log, FailToRespond, IF outcome = "ADJUSTED" THEN "LOW" ELSE "HIGH")

\* BUG (mutant): the rule itself stays active.
ExhaustedBelow(id) == Chain(id) \ {id}
Exhausted(id) == Chain(id)

Respond(outcome) ==
    /\ exec.pc = "respond"
    /\ active' = [id \in RuleIds |-> active[id] /\ id \notin Exhausted(Rule)]
    /\ eh' = [eh EXCEPT !.logWp = (@ + 1) % LogMax]
    /\ LET log == DeployRecorded(el, outcome)
       IN  el' = IF eh'.logWp = 0 THEN RecordError(log, LogTableFull, "HIGH") ELSE log
    /\ exec' = [exec EXCEPT !.pc = "rules", !.stack = NextRule(1)]
    /\ hist' = [hist EXCEPT !.answers = @ \cup {Rule}, !.responses[Rule] = @ + 1]
    /\ UNCHANGED <<clock, lastTime, setting, counter, sorted, maxLevels, undef>>

HandlerStep ==
    \/ Execute \/ ExecuteDisagrees \/ ExecuteEnds \/ NextEvent
    \/ RuleIsStrange \/ RuleIsSkipped \/ RuleCounts \/ RuleMatches
    \/ HigherIsRefused \/ HigherIsAsked
    \/ ReturnToLower \/ ReturnToRespond \/ ReturnToExecute
    \/ \E outcome \in {"SUCCESS", "ADJUSTED", "FAILURE"} : Respond(outcome)
-----------------------------------------------------------------------------
\* What happens between two executions.

Between == exec.pc = "idle"

RulesUnchanged == UNCHANGED <<lastTime, ruleVars>>

RecordByUser(group, local, level) ==
    /\ Between /\ RecordEvent(group, local, level)
    /\ UNCHANGED <<eh, exec, hist>> /\ RulesUnchanged

ClockTick == Tick /\ UNCHANGED <<eh, exec, hist>> /\ RulesUnchanged

\* EL_initialize and EL_clear_statistics_ match the counters of the event handler.
ClearCounters ==
    /\ Between /\ ClearingCommand
    /\ eh' = Matched(el')
    /\ hist' = [hist EXCEPT !.disturbed = TRUE]
    /\ UNCHANGED exec /\ RulesUnchanged

CommandLogger(groups, levels) ==
    /\ Between /\ KeepingCommand(groups, levels)
    /\ hist' = [hist EXCEPT !.disturbed = TRUE]
    /\ UNCHANGED <<eh, exec>> /\ RulesUnchanged

\* Cmd_EH_MATCH_EVENT_COUNTER_TO_EL
MatchCounters ==
    /\ Between
    /\ eh' = Matched(el)
    /\ hist' = [hist EXCEPT !.disturbed = TRUE]
    /\ UNCHANGED <<el, clock, exec>> /\ RulesUnchanged

\* Cmd_EH_SET_MAX_RESPONSE_NUM, Cmd_EH_SET_MAX_CHECK_EVENT_NUM, Cmd_EH_CLEAR_LOG,
\* Cmd_EVENT_UTIL_{ENABLE,DISABLE}_EH_EXEC
Set ==
    /\ Between
    /\ \/ \E n \in MaxResponses : eh' = [eh EXCEPT !.maxResponse = n]
       \/ \E n \in MaxChecks : eh' = [eh EXCEPT !.maxCheck = n]
       \/ eh' = [eh EXCEPT !.logWp = 0]
       \/ \E flag \in BOOLEAN : eh' = [eh EXCEPT !.enabled = flag]
    /\ UNCHANGED <<el, clock, exec, hist>> /\ RulesUnchanged

\* The commands on rules; a response of a block is to activate its rules again.
NowActive(id) == ~active[id] /\ active'[id]
ActivationsSeen == [id \in RuleIds |-> hist.activations[id] + IF NowActive(id) THEN 1 ELSE 0]

CommandRule(op, id, multiLevel) ==
    /\ Between /\ OperateRule(op, id, multiLevel)
    /\ hist' = [hist EXCEPT !.activations = ActivationsSeen, !.recounted = @ \/ op = "INIT"]
    /\ UNCHANGED <<el, clock, eh, lastTime, exec>>

CommandCounter(id, n) ==
    /\ Between /\ SetRuleCounter(id, n)
    /\ hist' = [hist EXCEPT !.recounted = TRUE]
    /\ UNCHANGED <<el, clock, eh, lastTime, exec>>

CommandMaxLevels(n) ==
    /\ Between /\ SetMaxMultiLevelNum(n)
    /\ UNCHANGED <<el, clock, eh, lastTime, exec, hist>>

\* EH_register_rule, EH_delete_rule_table_, which clear the time of the last event
CommandTable ==
    /\ Between
    /\ \E id \in RuleIds :
          /\ \/ \E s \in Settings, isActive \in BOOLEAN : RegisterRule(id, s, isActive)
             \/ DeleteRule(id)
          /\ lastTime' = [lastTime EXCEPT ![id] = 0]
    /\ hist' = [hist EXCEPT !.activations = ActivationsSeen, !.recounted = TRUE]
    /\ UNCHANGED <<el, clock, eh, exec>>

\* Cmd_EH_CLEAR_ALL_RULE, and Cmd_EH_INIT with the counters matched and the defaults set
ClearTable ==
    /\ Between
    /\ \/ ClearAllRule /\ UNCHANGED eh
       \/ InitializeRules /\ eh' = [Matched(el) EXCEPT !.maxResponse = Largest(MaxResponses),
                                                       !.maxCheck = Largest(MaxChecks), !.logWp = 0]
    /\ lastTime' = [id \in RuleIds |-> 0]
    /\ hist' = [hist EXCEPT !.recounted = TRUE, !.disturbed = TRUE]
    /\ UNCHANGED <<el, clock, exec>>

HandlerCommand(groups, levels) ==
    \/ ClearCounters \/ CommandLogger(groups, levels) \/ MatchCounters \/ Set
    \/ \E op \in Ops, id \in RuleIds, multiLevel \in BOOLEAN : CommandRule(op, id, multiLevel)
    \/ \E id \in RuleIds, n \in CounterValues : CommandCounter(id, n)
    \/ \E n \in MultiLevels : CommandMaxLevels(n)
    \/ CommandTable \/ ClearTable

\* The handler and the logger with a table of rules.
HandlerStart ==
    /\ LoggerInit
    /\ eh = [seen |-> el.count, total |-> 0, maxResponse |-> Largest(MaxResponses),
             maxCheck |-> Largest(MaxChecks), logWp |-> 0, enabled |-> TRUE]
    /\ lastTime = [id \in RuleIds |-> 0]
    /\ exec = Idle
    /\ hist = [done |-> <<>>, answers |-> {}, responses |-> [id \in RuleIds |-> 0],
               activations |-> [id \in RuleIds |-> IF active[id] THEN 1 ELSE 0],
               missed |-> FALSE, recounted |-> FALSE, disturbed |-> FALSE]

HandlerInit == RulesInit /\ HandlerStart

HandlerNext ==
    \/ HandlerStep \/ ClockTick \/ HandlerCommand(EventGroups, Levels)
    \/ \E group \in EventGroups, local \in Locals, level \in Levels : RecordByUser(group, local, level)

HandlerSpec == HandlerInit /\ [][HandlerNext]_handlerVars
-----------------------------------------------------------------------------
\* While nobody cleared what the event handler counts on, EH_check_el_event_counter_ finds no
\* disagreement between two executions: all the ways to advance the counters agree with the logger.
CountersAgree == ~hist.disturbed /\ exec.pc = "idle" => Disagreement = -1

\* The events that a level has had, and those of them that are still to be checked.
Had(level) == {el.stored[level][k] : k \in 1..Len(el.stored[level])}
Waits(level) == {el.stored[level][k] : k \in (Len(el.stored[level]) - Delta(level) + 1)..Len(el.stored[level])}
Checkable == UNION {Had(level) : level \in Levels \ {"EH"}}
IsLoss(e) == Kind(e) = <<HandlerGroup, TooManyEvent>>
Numbered(n) == CHOOSE e \in Checkable : e.number = n

\* The events are checked in the order they were recorded within a level, in the order of their
\* times across levels, and none of them twice.  Only the record of a loss may be checked out of
\* turn: EH_get_oldest_event_excluding_eh_error_level_ may write it over the event it has found.
HandledInOrder ==
    ~hist.disturbed =>
        /\ \A i \in 1..Len(hist.done) : \E e \in Checkable : e.number = hist.done[i]
        /\ \A i, j \in 1..Len(hist.done) :
            LET e == Numbered(hist.done[i])
                f == Numbered(hist.done[j])
            IN  i < j /\ ~IsLoss(e) /\ ~IsLoss(f) =>
                    e.time <= f.time /\ (e.level = f.level => e.number < f.number)

\* An event that is neither checked nor waiting was given up, and there is a later record of the
\* loss (TOO_MANY_EVENT).
SkipsAreAnnounced ==
    ~hist.disturbed =>
        \A l \in Levels \ {"EH"} : \A e \in Had(l) \ Waits(l) :
            e.number \in ToSet(hist.done) \/ \E loss \in Had("HIGH") : IsLoss(loss) /\ loss.number > e.number

\* Where a higher rule responds, the rules below it do not respond to the same event
\* (event_handler.h: "when the higher rule is executed, the lower rule is not").
HigherTakesOver ==
    exec.pc \notin {"idle", "events"} =>
        \A upper, lower \in hist.answers : lower \in Chain(upper) => lower = upper

\* A rule responds once each time it is activated, however many events come before its block
\* activates it again, and whichever rule of its chain responded.
OneResponsePerActivation == \A id \in RuleIds : hist.responses[id] <= hist.activations[id]

\* The example of event_handler.h: a rule responds to those of its matches that its higher rule
\* does not match, and as long as the rules were active whenever events came, the higher rule
\* matches every count_threshold-th match of the lower one.
MatchCount(id) == Cardinality({e \in Had("EH") : Kind(e) = <<MatchRule, id>>})
MatchesAreShared ==
    ~hist.disturbed /\ ~hist.recounted /\ exec.pc \in {"idle", "events"} =>
        \A lower, upper \in RuleIds :
            /\ setting[upper].group = MatchRule /\ setting[upper].local = lower
            /\ \A other \in RuleIds : SameEvent(setting[other], setting[upper]) => other = upper
            => /\ hist.responses[lower] = MatchCount(lower) - MatchCount(upper)
               /\ ~hist.missed => MatchCount(upper) = MatchCount(lower) \div
                                      (IF setting[upper].type = "SINGLE" THEN 1 ELSE setting[upper].threshold)

\* A higher rule responds instead of the lower one: never both, and never neither.
HigherAnswersInstead == HigherTakesOver /\ MatchesAreShared

\* Every event is checked or given up in the end, also those that EH_execute records itself and
\* also after the counters were disturbed, as long as the event utility executes the handler.
Served == \A l \in Levels \ {"EH"} : Delta(l) = 0
EventsAreServed == <>[](eh.enabled /\ eh.maxCheck > 0) => []<>Served
=============================================================================
