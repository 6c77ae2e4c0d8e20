---------------------------- MODULE RuleRegistry ----------------------------
(***************************************************************************)
(* What the rule table of the event handler promises: for every event the  *)
(* list of the rules that wait for it, in the order they were registered,  *)
(* of bounded length, and no rule in two lists.                            *)
(***************************************************************************)
EXTENDS Naturals, Sequences, FiniteSetsExt, SequencesExt

CONSTANTS
    RuleIds,        \* the rules that may be registered
    Events,         \* what a rule may wait for
    MaxDuplicates   \* how many rules may wait for one event

VARIABLE waiting    \* the rules of each event

Known == UNION {ToSet(waiting[e]) : e \in Events}

RegInit == waiting = [e \in Events |-> <<>>]

RegRegister(id, e) ==
    /\ id \notin Known /\ Len(waiting[e]) < MaxDuplicates
    /\ waiting' = [waiting EXCEPT ![e] = Append(@, id)]

RegDelete(id) ==
    \E e \in Events : \E n \in 1..Len(waiting[e]) :
        waiting[e][n] = id /\ waiting' = [waiting EXCEPT ![e] = RemoveAt(@, n)]

RegClear == waiting' = [e \in Events |-> <<>>]

RegNext ==
    \/ \E id \in RuleIds : RegDelete(id) \/ \E e \in Events : RegRegister(id, e)
    \/ RegClear

RegistrySpec == RegInit /\ [][RegNext]_waiting
=============================================================================
