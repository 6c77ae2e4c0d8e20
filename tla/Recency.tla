------------------------------ MODULE Recency ------------------------------
(***************************************************************************)
(* What a table of the most recent kinds of events has to remember, said   *)
(* of the history of all kinds: the reference that the properties of CLog  *)
(* compare the table of EventLogger with.                                  *)
(***************************************************************************)
EXTENDS Integers, Sequences, FiniteSets

\* The kinds of the first n events of a history that came after the last event of a kind.
Newer(history, n, kind) == {history[k] : k \in {m \in 1..n : \A i \in m..n : history[i] # kind}}

\* The events of a kind since its log was made: at no time after them so many other kinds had come
\* that the log was dropped.
CountedFor(history, capacity, kind) ==
    {k \in 1..Len(history) :
        /\ history[k] = kind
        /\ \A n \in k..Len(history) : Cardinality(Newer(history, n, kind)) < capacity}
=============================================================================
