--------------------------- MODULE DividedCommand ---------------------------
(***************************************************************************)
(* Commands that divide their work over several executions                 *)
(* (divided_cmd_utility.c).  Such a command checks in, does one part of    *)
(* its work and registers itself again as a real time command, until it    *)
(* reports that it has finished or failed.  How far each command has got   *)
(* is kept in a log of the latest LogMax commands; it is known by its      *)
(* command code only, so that two chains of executions of one command      *)
(* share their counter.                                                    *)
(*                                                                         *)
(* dcu is a record: log, the entries, the latest first (exec_logs in the   *)
(* order of exec_log_order), and rtc, the list of real time commands,      *)
(* which holds a command until its execution is over.                      *)
(***************************************************************************)
EXTENDS Naturals, Sequences, SequencesExt

CONSTANTS
    LogMax,     \* DCU_LOG_MAX
    RtcMax,     \* PH_RTC_LIST_MAX
    NoCode      \* Cmd_CODE_MAX

ASSUME DividedAssumption == LogMax \in Nat \ {0, 1} /\ RtcMax \in Nat \ {0}

Statuses == {"FINISHED", "PROGRESS", "ABORTED_BY_ERR", "ABORTED_BY_CMD"}

Entry(code, status, counter) == [code |-> code, status |-> status, counter |-> counter]

\* DCU_clear_log_element_
NewEntry(code) == Entry(code, "FINISHED", 0)

\* DCU_clear_log_
ClearedLog == [i \in 1..LogMax |-> NewEntry(NoCode)]

\* DCU_search_log_: the first place of a command, 0 if it has none.
PlaceInLog(log, code) == SelectInSeq(log, LAMBDA e : e.code = code)

\* DCU_move_to_front_in_log_ and DCU_create_log_on_front_, which drops the oldest entry.
\* The event about an entry in progress that is dropped is left out.
MovedToFront(log, code) ==
    LET place == PlaceInLog(log, code)
    IN  IF place = 0 THEN <<NewEntry(code)>> \o Front(log)
        ELSE <<log[place]>> \o RemoveAt(log, place)

\* The entry of a command, once it is at the front, with another status.
WithStatus(dcu, code, status) ==
    [dcu EXCEPT !.log = [MovedToFront(@, code) EXCEPT ![1].status = status]]

\* BUG (mutant): the counter stays.
CheckedInEntryStays(e) == IF e.status = "FINISHED" THEN NewEntry(e.code) ELSE e

CheckedInEntry(e) ==
    IF e.status = "FINISHED" THEN NewEntry(e.code)
    ELSE IF e.status = "PROGRESS" THEN [e EXCEPT !.counter = @ + 1]
    ELSE e

\* DCU_check_in; its result is the front entry.
CheckedIn(dcu, code) ==
    [dcu EXCEPT !.log = LET log == MovedToFront(@, code)
                        IN  [log EXCEPT ![1] = CheckedInEntry(log[1])]]
MayExecute(dcu) == dcu.log[1].status \in {"FINISHED", "PROGRESS"}

\* DCU_register_next, and DCU_report_err if the list of real time commands is full: every
\* command reacts in this way.
NextRegistered(dcu, code) ==
    LET progress == WithStatus(dcu, code, "PROGRESS")
    IN  IF Len(dcu.rtc) < RtcMax THEN [progress EXCEPT !.rtc = Append(@, code)]
        ELSE WithStatus(dcu, code, "ABORTED_BY_ERR")

\* DCU_report_finish
Finished(dcu, code) == WithStatus(dcu, code, "FINISHED")

\* DCU_abort_cmd
Aborted(dcu, code) == WithStatus(dcu, code, "ABORTED_BY_CMD")

\* DCU_donw_abort_flag
AbortFlagDown(dcu, code) ==
    [dcu EXCEPT !.log = [MovedToFront(@, code) EXCEPT ![1] = NewEntry(code)]]

InProgress(dcu, code) == \E e \in ToSet(dcu.log) : e.code = code /\ e.status = "PROGRESS"
=============================================================================
