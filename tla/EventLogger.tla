---------------------------- MODULE EventLogger ----------------------------
(***************************************************************************)
(* The event logger (event_logger.c).  Events are kept per error level in  *)
(* two logs: TLog, a ring of the latest events, and CLog, a table of the   *)
(* latest kinds of events with a count, ordered by an array of indices.    *)
(*                                                                         *)
(* Recording an event may record further events of the level EL, about a   *)
(* ring that has filled up or a kind of event that CLog had to drop.  No   *)
(* event of level EL causes another one, so the recursion of               *)
(* EL_record_event_ is one level deep.                                     *)
(*                                                                         *)
(* The logger is one record, as in the code, so that a handler that        *)
(* records several events composes them.                                   *)
(***************************************************************************)
EXTENDS Recency, Integers, Sequences, FiniteSets, SequencesExt

CONSTANTS
    Levels,         \* the error levels compiled in, of LevelOrder
    TLogCapacity,   \* EL_TLOG_LOG_SIZE_MAX_<level>
    CLogCapacity,   \* EL_CLOG_LOG_SIZE_MAX_<level>
    EnableClog,     \* EL_IS_ENABLE_CLOG
    EventGroups,    \* all groups of events: the following three and others
    LoggerGroup,    \* EL_CORE_GROUP_EVENT_LOGGER
    DropClog1, DropClog2,   \* EL_CORE_GROUP_EL_DROP_CLOG1, 2
    MaxRecords,     \* bound on the number of events recorded
    MaxTime         \* bound on the clock

\* EL_ERROR_LEVEL, in its order.
LevelOrder == <<"HIGH", "MIDDLE", "LOW", "EL", "EH">>

ASSUME LoggerAssumption ==
    /\ Levels \subseteq ToSet(LevelOrder) /\ {"HIGH", "LOW", "EH"} \subseteq Levels
    /\ TLogCapacity \in [Levels -> Nat \ {0, 1}] /\ CLogCapacity \in [Levels -> Nat \ {0}]
    /\ {LoggerGroup, DropClog1, DropClog2} \subseteq EventGroups
    /\ LoggerGroup \notin {DropClog1, DropClog2} /\ DropClog1 # DropClog2
    /\ EventGroups \subseteq Nat \ {0}
    /\ MaxRecords \in Nat /\ MaxTime \in Nat

VARIABLES
    el,     \* event_logger_
    clock   \* TMGR_get_master_clock

\* EL_Event; number is history: the how-manieth event of all.
Event(group, local, level, time, number) ==
    [group |-> group, local |-> local, level |-> level, time |-> time, number |-> number]
\* memset 0: the group EL_CORE_GROUP_NULL and the first error level.
NoEvent == Event(0, 0, "HIGH", 0, 0)

Kind(e) == <<e.group, e.local>>

Slots(level) == 0..(TLogCapacity[level] - 1)
EmptyRing(level) == [i \in Slots(level) |-> NoEvent]
EmptyLogs(level) == [i \in 1..CLogCapacity[level] |-> [event |-> NoEvent, count |-> 0]]
InOrder(level) == [i \in 1..CLogCapacity[level] |-> i]

\* EL_initialize; EL_load_default_settings is the user's.
Initialized ==
    [ring |-> [l \in Levels |-> EmptyRing(l)],          \* tlogs[].events
     wp |-> [l \in Levels |-> 0],                       \* tlogs[].log_wp
     overflow |-> [l \in Levels |-> FALSE],             \* tlogs[].is_table_overflow
     overwrite |-> [l \in Levels |-> TRUE],             \* tlogs[].is_enable_overwrite
     logs |-> [l \in Levels |-> EmptyLogs(l)],          \* clogs[].logs
     orders |-> [l \in Levels |-> InOrder(l)],          \* clogs[].log_orders
     latest |-> NoEvent,                                \* latest_event
     count |-> [l \in Levels |-> 0],                    \* statistics.record_counters
     total |-> 0,                                       \* statistics.record_counter_total
     enabled |-> EventGroups,                           \* is_logging_enable
     \* history: the number of events, the events put into each ring and into each CLog
     \* since it was cleared, and whether every event of the logger itself is on record
     number |-> 0,
     stored |-> [l \in Levels |-> <<>>],
     counted |-> [l \in Levels |-> <<>>],
     complete |-> TRUE]

\* An initialization on command does not forget what is history.
Reinitialized == [Initialized EXCEPT !.number = el.number, !.complete = FALSE]
-----------------------------------------------------------------------------
\* TLog.

CanStore(log, level) == log.overwrite[level] \/ ~log.overflow[level]

\* EL_record_event_to_tlog_
NextSlot(log, level) == (log.wp[level] + 1) % TLogCapacity[level]
RecordedToTlog(log, e) ==
    IF ~CanStore(log, e.level) THEN log
    ELSE [log EXCEPT !.ring[e.level][log.wp[e.level]] = e,
                     !.wp[e.level] = NextSlot(log, e.level),
                     !.overflow[e.level] = ~log.overwrite[e.level] /\ NextSlot(log, e.level) = 0,
                     !.stored[e.level] = Append(@, e)]

\* EL_clear_tlog_
ClearedTlog(log, level) ==
    [log EXCEPT !.ring[level] = EmptyRing(level), !.wp[level] = 0, !.overflow[level] = FALSE,
                !.stored[level] = <<>>]

\* EL_get_the_nth_tlog_from_the_latest: the slot of the n-th event before the latest one.
SlotFromLatest(log, level, n) ==
    IF n >= TLogCapacity[level] THEN 0
    ELSE (log.wp[level] - 1 - n + TLogCapacity[level]) % TLogCapacity[level]
NthFromLatest(log, level, n) == log.ring[level][SlotFromLatest(log, level, n)]
-----------------------------------------------------------------------------
\* CLog.

\* EL_search_clog_: the place of a kind in the order, 0 if it is not found before the first
\* unused log.
PlaceInClog(log, level, kind) ==
    LET kindAt(i) == Kind(log.logs[level][log.orders[level][i]].event)
        places == {i \in 1..CLogCapacity[level] :
                      /\ kindAt(i) = kind
                      /\ \A k \in 1..i : kindAt(k) # Kind(NoEvent)}
    IN  IF places = {} THEN 0 ELSE CHOOSE i \in places : \A k \in places : i <= k

\* BUG (mutant): the last log is not moved along.
ToFrontShort(order, i) == <<order[i]>> \o SubSeq(order, 2, Len(order))
\* The memmove of EL_move_to_front_in_clog_ and EL_create_clog_on_front_.
ToFront(order, i) == <<order[i]>> \o RemoveAt(order, i)

Oldest(log, level) == log.logs[level][log.orders[level][CLogCapacity[level]]]

\* EL_record_event_to_clog_ without the events that it records.
RecordedToClog(log, e) ==
    LET place == PlaceInClog(log, e.level, Kind(e))
        order == ToFront(log.orders[e.level], IF place = 0 THEN CLogCapacity[e.level] ELSE place)
        before == IF place = 0 THEN 0 ELSE log.logs[e.level][order[1]].count
    IN  IF ~EnableClog THEN log
        ELSE [log EXCEPT !.orders[e.level] = order,
                         !.logs[e.level][order[1]] = [event |-> e, count |-> before + 1],
                         !.counted[e.level] = Append(@, Kind(e))]

\* EL_clear_clog_
ClearedClog(log, level) ==
    [log EXCEPT !.logs[level] = EmptyLogs(level), !.orders[level] = InOrder(level),
                !.counted[level] = <<>>]
-----------------------------------------------------------------------------
\* EL_record_event_

Counted(log, e) ==
    [log EXCEPT !.latest = e, !.total = @ + 1, !.count[e.level] = @ + 1, !.number = @ + 1]

\* An event of the logger itself, of level EL.
RecordedEL(log, group, local, time) ==
    LET e == Event(group, local, "EL", time, log.number + 1)
    IN  IF "EL" \notin Levels \/ group \notin log.enabled THEN log
        ELSE RecordedToClog(RecordedToTlog(Counted(log, e), e), e)

\* BUG (mutant): the second event about a dropped kind is lost.
DropRecordedOnce(log, e) ==
    LET old == Oldest(log, e.level).event
        needed == EnableClog /\ e.level # "EL" /\ PlaceInClog(log, e.level, Kind(e)) = 0
                  /\ old.group # NoEvent.group
    IN  IF needed THEN RecordedEL(log, DropClog1, old.group, e.time) ELSE log
\* EL_create_clog_on_front_ drops the oldest kind and records what it was.
DropRecorded(log, e) ==
    LET old == Oldest(log, e.level).event
        needed == EnableClog /\ e.level # "EL" /\ PlaceInClog(log, e.level, Kind(e)) = 0
                  /\ old.group # NoEvent.group
    IN  IF needed
        THEN RecordedEL(RecordedEL(log, DropClog1, old.group, e.time), DropClog2, old.local, e.time)
        ELSE log

\* EL_check_tlog_wp_: EL_EVENT_LOCAL_TLOG_<level>_HALF_FULL and _FULL.
HalfFullLocal == [HIGH |-> 1, MIDDLE |-> 3, LOW |-> 5]
FullLocal == [HIGH |-> 2, MIDDLE |-> 4, LOW |-> 6]
WpChecked(log, e, stored) ==
    LET capacity == TLogCapacity[e.level]
        wp == log.wp[e.level]
    IN  IF ~stored \/ e.level \notin DOMAIN FullLocal THEN log
        ELSE IF wp = 0 THEN RecordedEL(log, LoggerGroup, FullLocal[e.level], e.time)
        ELSE IF wp = capacity \div 2 /\ capacity % 2 = 0
             THEN RecordedEL(log, LoggerGroup, HalfFullLocal[e.level], e.time)
        ELSE log

Recorded(log, group, local, level, time) ==
    LET e == Event(group, local, level, time, log.number + 1)
        inTlog == RecordedToTlog(Counted(log, e), e)
    IN  IF group \notin log.enabled THEN log
        ELSE WpChecked(RecordedToClog(DropRecorded(inTlog, e), e), e, CanStore(log, level))
-----------------------------------------------------------------------------
LoggerInit == el = Initialized /\ clock = 0

\* TMGR_count_up_master_clock, as far as the logger sees it.
Tick == clock < MaxTime /\ clock' = clock + 1 /\ UNCHANGED el

\* EL_record_event; a record of level EL by anyone else is refused.
RecordEvent(group, local, level) ==
    /\ level # "EL" /\ el.number < MaxRecords
    /\ el' = Recorded(el, group, local, level, clock)
    /\ UNCHANGED clock

\* The memset of EL_clear_statistics_.
ClearedStatistics(log) == [log EXCEPT !.count = [l \in Levels |-> 0], !.total = 0]

Incomplete(log) == [log EXCEPT !.complete = FALSE]

\* Cmd_EL_INIT
InitializeLogger == el' = Reinitialized /\ UNCHANGED clock

\* Cmd_EL_CLEAR_LOG_ALL
ClearLogAll ==
    /\ el' = [ClearedStatistics(el) EXCEPT
                  !.ring = Initialized.ring, !.wp = Initialized.wp, !.overflow = Initialized.overflow,
                  !.logs = IF EnableClog THEN Initialized.logs ELSE @,
                  !.orders = Initialized.orders, !.latest = NoEvent,
                  !.stored = Initialized.stored, !.counted = Initialized.counted, !.complete = FALSE]
    /\ UNCHANGED clock

\* Cmd_EL_CLEAR_LOG_BY_ERR_LEVEL
ClearLogByErrLevel(level) ==
    /\ el' = Incomplete(ClearedClog(ClearedTlog(el, level), level))
    /\ UNCHANGED clock
\* Cmd_EL_CLEAR_TLOG
ClearTlog(level) == el' = Incomplete(ClearedTlog(el, level)) /\ UNCHANGED clock
\* Cmd_EL_CLEAR_CLOG
ClearClog(level) == el' = Incomplete(ClearedClog(el, level)) /\ UNCHANGED clock
\* Cmd_EL_CLEAR_STATISTICS
ClearStatistics == el' = ClearedStatistics(el) /\ UNCHANGED clock

\* Cmd_EL_{ENABLE,DISABLE}_LOGGING and .._ALL
SetLogging(groups) ==
    /\ el' = [el EXCEPT !.enabled = groups, !.complete = FALSE]
    /\ UNCHANGED clock
LoggingCommand(groups) ==
    \/ \E group \in groups : SetLogging(el.enabled \cup {group}) \/ SetLogging(el.enabled \ {group})
    \/ SetLogging(EventGroups) \/ SetLogging({})

\* Cmd_EL_{ENABLE,DISABLE}_TLOG_OVERWRITE and .._ALL, which leave the level EH alone.
SetOverwrite(level, flag) == el' = [el EXCEPT !.overwrite[level] = flag] /\ UNCHANGED clock
SetOverwriteAll(flag) ==
    /\ el' = [el EXCEPT !.overwrite = [l \in Levels |-> IF l = "EH" THEN @[l] ELSE flag]]
    /\ UNCHANGED clock

\* The commands, with the groups and levels they are given: those that clear the counters, and
\* the others.
ClearingCommand == InitializeLogger \/ ClearLogAll \/ ClearStatistics
KeepingCommand(groups, levels) ==
    \/ \E level \in levels : ClearLogByErrLevel(level) \/ ClearTlog(level) \/ ClearClog(level)
    \/ LoggingCommand(groups)
    \/ \E flag \in BOOLEAN : SetOverwriteAll(flag) \/ \E level \in levels : SetOverwrite(level, flag)
LoggerCommand(groups, levels) == ClearingCommand \/ KeepingCommand(groups, levels)
-----------------------------------------------------------------------------
\* Type correctness: the write pointer is a slot, the order of CLog is a permutation, and the
\* total is the sum of the counters.
OfLevel(f, level) == IF level \in DOMAIN f THEN f[level] ELSE 0
Sum(f) == OfLevel(f, "HIGH") + OfLevel(f, "MIDDLE") + OfLevel(f, "LOW") + OfLevel(f, "EL") + OfLevel(f, "EH")
LoggerTypeOK ==
    /\ \A l \in Levels : /\ el.wp[l] \in Slots(l)
                         /\ ToSet(el.orders[l]) = 1..CLogCapacity[l]
                         /\ el.count[l] \in Nat
                         /\ el.overflow[l] \in BOOLEAN /\ el.overwrite[l] \in BOOLEAN
    /\ el.enabled \subseteq EventGroups
    /\ el.total = Sum(el.count)

\* The n-th event from the latest (EL_get_the_nth_tlog_from_the_latest) is the n-th last one that
\* was stored, however often the ring has gone round, and wherever it stopped when overwriting was
\* disabled; behind the oldest there is no event.
RingIsRecent ==
    \A l \in Levels : \A n \in Slots(l) :
        NthFromLatest(el, l, n) =
            IF n < Len(el.stored[l]) THEN el.stored[l][Len(el.stored[l]) - n] ELSE NoEvent

\* The log at a place of the order.
LogAt(level, i) == el.logs[level][el.orders[level][i]]
ClogKinds(level) == {Kind(LogAt(level, i).event) : i \in 1..CLogCapacity[level]}

\* CLog holds the most recent kinds of events, the latest first (the example in event_logger.h):
\* the i-th is the one after which i - 1 other kinds came, and only where there were less than i
\* kinds there is none.
ClogIsMostRecent ==
    \A l \in Levels : \A i \in 1..CLogCapacity[l] :
        LET h == el.counted[l]
            kind == Kind(LogAt(l, i).event)
        IN  IF i <= Cardinality(ToSet(h))
            THEN kind \in ToSet(h) /\ Cardinality(Newer(h, Len(h), kind)) = i - 1
            ELSE LogAt(l, i) = [event |-> NoEvent, count |-> 0]

\* The count of a log is the number of events of its kind since the log was made for it: reusing
\* logs and moving them in the order mixes up no counts (EL_move_to_front_in_clog_).
ClogCounts ==
    \A l \in Levels : \A i \in 1..CLogCapacity[l] :
        LogAt(l, i).count =
            Cardinality(CountedFor(el.counted[l], CLogCapacity[l], Kind(LogAt(l, i).event)))

\* While nothing was cleared and no logging disabled, every time a ring went round has been
\* announced once (EL_check_tlog_wp_), also those that stopped there.
FullIsAnnounced ==
    el.complete /\ EnableClog /\ "EL" \in Levels =>
        \A l \in DOMAIN FullLocal \cap Levels :
            Cardinality({k \in 1..Len(el.counted["EL"]) : el.counted["EL"][k] = <<LoggerGroup, FullLocal[l]>>})
                = Len(el.stored[l]) \div TLogCapacity[l]

\* A kind of event that CLog no longer has is on record: its group and its local id in two events,
\* one directly behind the other.
DropsAreOnRecord ==
    el.complete /\ "EL" \in Levels => \A l \in Levels \ {"EL"} : \A i \in 1..Len(el.counted[l]) :
        LET kind == el.counted[l][i]
            announced == el.counted["EL"]
        IN  kind \notin ClogKinds(l) =>
                \E k \in 1..(Len(announced) - 1) :
                    announced[k] = <<DropClog1, kind[1]>> /\ announced[k + 1] = <<DropClog2, kind[2]>>

\* The rings hold the events stored last and CLog the kinds recorded last, in order and with their
\* numbers, in any state of the rings.
LogsAreSound == LoggerTypeOK /\ RingIsRecent /\ ClogIsMostRecent /\ ClogCounts

\* Nothing is lost in silence, neither the events of a ring nor the kinds of CLog.
LossIsOnRecord == FullIsAnnounced /\ DropsAreOnRecord
=============================================================================
