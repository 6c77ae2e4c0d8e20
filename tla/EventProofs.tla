----------------------------- MODULE EventProofs -----------------------------
(***************************************************************************)
(* Theorems about EventRules, EventLogger and EventHandler, for any number *)
(* of rules, events, duplicates and levels.                                *)
(*                                                                         *)
(* The index of the rules.  That neighbours in the index are in order is   *)
(* not inductive in a form that the provers can use, as the place of an    *)
(* insertion depends on entries that are far apart.  The invariant says it *)
(* of any two entries (Ascending), and that the duplicates of an event     *)
(* begin with number 0 (Grounded).                                         *)
(*                                                                         *)
(* The searches and the registry.  The entries of an event are a run of    *)
(* the index (RunOf), with entries of earlier events before it and of      *)
(* later ones behind it, so a binary search finds the first of them from   *)
(* any interval that holds it, by induction over the interval's length.    *)
(* The list of the rules that wait for an event is the one that puts each  *)
(* rule at the place its duplicate number says (Lists); insertion appends  *)
(* to one list, deletion with its renumbering takes one element out of it. *)
(*                                                                         *)
(* The execution of the handler.  That a rule responds once for each       *)
(* activation needs more than its own state: between its match and its     *)
(* response the rules above it are asked, and one of them may respond and  *)
(* make it inactive.  The invariant says of every frame below the top of   *)
(* the stack that its rule is still active unless a frame above it has     *)
(* responded (Callers); in that case the number of responses, which is     *)
(* handed down from frame to frame, keeps the rule from responding.        *)
(*                                                                         *)
(* The logs.  What a ring holds follows from its write pointer and from    *)
(* what was put into it (RingHolds); what CLog holds, from the kinds of    *)
(* all events recorded: a log is at the place that the number of kinds     *)
(* after its own says (Recent), and its count goes back to the last time   *)
(* that number reached the size of the table (Counts).  LogInv says so of  *)
(* all levels, and every way to record an event keeps it.  LossInv adds    *)
(* what the logger has recorded of its own losses: the write pointers go   *)
(* round as often as was announced, and a kind that was recorded once is   *)
(* still in CLog or on record with the two events about it.                *)
(*                                                                         *)
(* What the handler has seen.  SeenInv relates the counters of the handler *)
(* to the logs: they are behind those of the logger level by level, and    *)
(* every event behind them was checked, or a loss is on record with a      *)
(* higher number.  That recording only adds to the logs (Records) is what  *)
(* keeps it while the handler itself records, in the middle of its search. *)
(*                                                                         *)
(* Higher and lower rules.  One event calls for a tree of rules, which the *)
(* handler goes through with a stack.  The rules of the stack are the path *)
(* from its top down (StackPath), so what responds there makes inactive    *)
(* the very rules that wait on the stack.  Answered says what that leaves  *)
(* to do: no rule that is still to be looked at is below one that has      *)
(* responded, and one that waits on the stack is only if a frame above it  *)
(* has responded, which keeps it from responding.                          *)
(***************************************************************************)
EXTENDS EventHandler, CommonLemmas

IndexEntry == [group : Groups, local : Locals, dup : 0..(MaxDuplicates - 1), id : RuleIds]

Ascending(s) ==
    \A i, j \in 1..Len(s) : i < j =>
        \/ EventBefore(s[i], s[j])
        \/ SameEvent(s[i], s[j]) /\ s[j].dup = s[i].dup + (j - i)

Grounded(s) ==
    \A j \in 1..Len(s) : s[j].dup > 0 => j > 1 /\ SameEvent(s[j - 1], s[j])

\* RulesTypeOK without the counters, which the handler advances too.
TableTypeOK ==
    /\ setting \in [RuleIds -> Settings \cup {NoRule}]
    /\ active \in [RuleIds -> BOOLEAN]
    /\ sorted \in Seq(IndexEntry) /\ Len(sorted) <= RuleMax
    /\ maxLevels \in MultiLevels /\ undef \in BOOLEAN
CountersTyped == counter \in [RuleIds -> CounterValues]

RulesInv == TableTypeOK /\ IndexMatchesRules /\ Ascending(sorted) /\ Grounded(sorted)

IsEvent(e) == e.group \in Nat /\ e.local \in Nat

\* The fields of an entry of the index.
LEMMA EntryFields ==
  ASSUME NEW e \in IndexEntry
  PROVE  /\ e.group \in Nat /\ e.local \in Nat /\ e.dup \in Nat /\ e.dup < MaxDuplicates
         /\ e.group \in Groups /\ e.local \in Locals /\ e.group # NullGroup
         /\ e.id \in RuleIds
<1>1. /\ e.group \in Groups /\ e.local \in Locals /\ e.id \in RuleIds
      /\ e.dup \in 0..(MaxDuplicates - 1)
  BY DEF IndexEntry
<1>2. \A d \in 0..(MaxDuplicates - 1) : d \in Nat /\ d < MaxDuplicates
  BY RulesAssumption
<1>3. e.dup \in Nat /\ e.dup < MaxDuplicates
  BY <1>1, <1>2
<1>4. e.group \in Nat \ {NullGroup} /\ e.local \in Nat
  BY <1>1, RulesAssumption
<1> QED
  BY <1>1, <1>3, <1>4

\* The entries of a sequence of them.
LEMMA EntriesOf ==
  ASSUME NEW s \in Seq(IndexEntry)
  PROVE  /\ Len(s) \in Nat
         /\ \A i \in 1..Len(s) : /\ s[i] \in IndexEntry
                                 /\ IsEvent(s[i]) /\ s[i].dup \in Nat
<1>1. \A i \in 1..Len(s) : s[i] \in IndexEntry
  BY ElementOfSeq
<1> QED
  BY <1>1, EntryFields, LenProperties DEF IsEvent

\* Events are ordered like pairs of numbers.
LEMMA EventOrder ==
  ASSUME NEW e, IsEvent(e), NEW f, IsEvent(f)
  PROVE  /\ EventBefore(e, f) \/ SameEvent(e, f) \/ EventBefore(f, e)
         /\ ~(EventBefore(e, f) /\ SameEvent(e, f))
         /\ ~(EventBefore(e, f) /\ EventBefore(f, e))
         /\ SameEvent(e, f) => SameEvent(f, e)
<1>1. \A a, b, c, d \in Nat :
        /\ (a < c \/ (a = c /\ b < d)) \/ (a = c /\ b = d) \/ (c < a \/ (c = a /\ d < b))
        /\ ~((a < c \/ (a = c /\ b < d)) /\ (a = c /\ b = d))
        /\ ~((a < c \/ (a = c /\ b < d)) /\ (c < a \/ (c = a /\ d < b)))
  OBVIOUS
<1> QED
  BY <1>1 DEF IsEvent, EventBefore, SameEvent

\* The order of the events is transitive.
LEMMA EventTransitive ==
  ASSUME NEW e, IsEvent(e), NEW f, IsEvent(f), NEW g, IsEvent(g)
  PROVE  /\ EventBefore(e, f) /\ EventBefore(f, g) => EventBefore(e, g)
         /\ EventBefore(e, f) /\ SameEvent(f, g) => EventBefore(e, g)
         /\ SameEvent(e, f) /\ EventBefore(f, g) => EventBefore(e, g)
         /\ SameEvent(e, f) /\ SameEvent(f, g) => SameEvent(e, g)
<1>1. \A a, b, c, d, k, l \in Nat :
        (a < c \/ (a = c /\ b < d)) /\ (c < k \/ (c = k /\ d < l)) => (a < k \/ (a = k /\ b < l))
  OBVIOUS
<1>2. EventBefore(e, f) /\ EventBefore(f, g) => EventBefore(e, g)
  BY <1>1 DEF IsEvent, EventBefore
<1>3. /\ EventBefore(e, f) /\ SameEvent(f, g) => EventBefore(e, g)
      /\ SameEvent(e, f) /\ EventBefore(f, g) => EventBefore(e, g)
      /\ SameEvent(e, f) /\ SameEvent(f, g) => SameEvent(e, g)
  BY DEF EventBefore, SameEvent
<1> QED
  BY <1>2, <1>3

-----------------------------------------------------------------------------
\* The place of an event: all entries before it are of earlier events.
LEMMA FirstNotBeforeFacts ==
  ASSUME sorted \in Seq(IndexEntry), NEW f
  PROVE  /\ FirstNotBefore(f) \in 1..(Len(sorted) + 1)
         /\ FirstNotBefore(f) <= Len(sorted) => ~EventBefore(sorted[FirstNotBefore(f)], f)
         /\ \A k \in 1..(FirstNotBefore(f) - 1) : EventBefore(sorted[k], f)
<1> DEFINE P(i) == /\ i <= Len(sorted) => ~EventBefore(sorted[i], f)
                   /\ \A k \in 1..(i - 1) : EventBefore(sorted[k], f)
           S == {i \in 1..(Len(sorted) + 1) : i <= Len(sorted) => ~EventBefore(sorted[i], f)}
<1>1. Len(sorted) \in Nat
  BY LenProperties
<1>2. S \in SUBSET Nat /\ Len(sorted) + 1 \in S
  BY <1>1
<1>3. Min(S) \in S /\ \A x \in S : Min(S) <= x
  <2> HIDE DEF S
  <2> QED BY <1>2, MinOfNats
<1>4. P(Min(S))
  <2>1. Min(S) \in 1..(Len(sorted) + 1) /\ (Min(S) <= Len(sorted) => ~EventBefore(sorted[Min(S)], f))
    BY <1>3
  <2>2. ASSUME NEW k \in 1..(Min(S) - 1) PROVE EventBefore(sorted[k], f)
    <3>1. k \in 1..(Len(sorted) + 1) /\ ~(Min(S) <= k)
      BY <1>1, <2>1
    <3>2. k \notin S
      BY <1>3, <3>1
    <3> QED BY <3>1, <3>2
  <2> QED BY <2>1, <2>2
<1>5. \E i \in 1..(Len(sorted) + 1) : P(i)
  BY <1>3, <1>4
<1>6. FirstNotBefore(f) = CHOOSE i \in 1..(Len(sorted) + 1) : P(i)
  BY DEF FirstNotBefore
<1>7. FirstNotBefore(f) \in 1..(Len(sorted) + 1) /\ P(FirstNotBefore(f))
  <2> HIDE DEF P
  <2> QED BY <1>5, <1>6
<1> QED
  BY <1>7

\* The duplicates of an event follow one another from its place on.
LEMMA DuplicatesFacts ==
  ASSUME sorted \in Seq(IndexEntry), NEW f, Duplicates(f) < MaxDuplicates
  PROVE  /\ Duplicates(f) \in 0..(MaxDuplicates - 1)
         /\ \A k \in 0..(Duplicates(f) - 1) :
               /\ FirstNotBefore(f) + k <= Len(sorted)
               /\ SameEvent(sorted[FirstNotBefore(f) + k], f)
         /\ \/ FirstNotBefore(f) + Duplicates(f) > Len(sorted)
            \/ ~SameEvent(sorted[FirstNotBefore(f) + Duplicates(f)], f)
<1> DEFINE F == FirstNotBefore(f)
           M(k) == F + k <= Len(sorted) /\ SameEvent(sorted[F + k], f)
           P(n) == /\ \A k \in 0..(n - 1) : M(k)
                   /\ n < MaxDuplicates => \/ F + n > Len(sorted)
                                           \/ ~SameEvent(sorted[F + n], f)
           S == {n \in 0..MaxDuplicates : n < MaxDuplicates => ~M(n)}
<1>1. Len(sorted) \in Nat /\ F \in Nat /\ MaxDuplicates \in Nat
  BY LenProperties, FirstNotBeforeFacts, RulesAssumption
<1>2. S \in SUBSET Nat /\ MaxDuplicates \in S
  BY <1>1
<1>3. Min(S) \in S /\ \A x \in S : Min(S) <= x
  <2> HIDE DEF S
  <2> QED BY <1>2, MinOfNats
<1>4. P(Min(S))
  <2>1. Min(S) \in 0..MaxDuplicates /\ (Min(S) < MaxDuplicates => ~M(Min(S)))
    BY <1>3
  <2>2. ASSUME NEW k \in 0..(Min(S) - 1) PROVE M(k)
    <3>1. k \in 0..MaxDuplicates /\ ~(Min(S) <= k) /\ k < MaxDuplicates
      BY <1>1, <2>1
    <3>2. k \notin S
      BY <1>3, <3>1
    <3> QED BY <3>1, <3>2
  <2>3. Min(S) < MaxDuplicates => F + Min(S) > Len(sorted) \/ ~SameEvent(sorted[F + Min(S)], f)
    <3> HIDE DEF S, F
    <3> QED BY <1>1, <2>1
  <2> QED BY <2>2, <2>3
<1>5. \E n \in 0..MaxDuplicates : P(n)
  BY <1>3, <1>4
<1>6. Duplicates(f) = CHOOSE n \in 0..MaxDuplicates : P(n)
  BY DEF Duplicates
<1>7. Duplicates(f) \in 0..MaxDuplicates /\ P(Duplicates(f))
  <2> HIDE DEF P
  <2> QED BY <1>5, <1>6
<1> QED
  BY <1>1, <1>7

\* An entry inserted behind the duplicates of its event, with the next number.
InsertionPlace(s, e, F, D) ==
    /\ F \in 1..(Len(s) + 1) /\ D \in Nat /\ F + D <= Len(s) + 1
    /\ F <= Len(s) => ~EventBefore(s[F], e)
    /\ \A k \in 1..(F - 1) : EventBefore(s[k], e)
    /\ \A k \in 0..(D - 1) : SameEvent(s[F + k], e)
    /\ F + D > Len(s) \/ ~SameEvent(s[F + D], e)

\* What comes before the place of the insertion is smaller, or a duplicate with its own number.
LEMMA BeforeTheInsertion ==
  ASSUME NEW s \in Seq(IndexEntry), Ascending(s), Grounded(s), NEW e \in IndexEntry,
         NEW F, NEW D, InsertionPlace(s, e, F, D), NEW i \in 1..(F + D - 1)
  PROVE  EventBefore(s[i], e) \/ (SameEvent(s[i], e) /\ s[i].dup = i - F)
<1>1. /\ Len(s) \in Nat /\ IsEvent(e) /\ F \in Nat /\ D \in Nat /\ F > 0 /\ F + D <= Len(s) + 1
      /\ \A k \in 1..Len(s) : IsEvent(s[k]) /\ s[k].dup \in Nat
  BY EntriesOf, EntryFields DEF InsertionPlace, IsEvent
<1>2. CASE i < F
  <2>1. i \in 1..(F - 1)
    BY <1>1, <1>2
  <2> QED BY <2>1 DEF InsertionPlace
<1>3. CASE F <= i
  <2>1. i - F \in 0..(D - 1) /\ F + (i - F) = i /\ F \in 1..Len(s) /\ i \in 1..Len(s)
        /\ 0 \in 0..(D - 1) /\ F + 0 = F
    <3>1. \A f, d, n, k \in Nat :
            f <= k /\ k <= f + d - 1 /\ f > 0 /\ f + d <= n + 1 =>
              /\ k - f \in 0..(d - 1) /\ f + (k - f) = k /\ f \in 1..n /\ k \in 1..n
              /\ 0 \in 0..(d - 1) /\ f + 0 = f
      OBVIOUS
    <3>2. i \in Nat /\ i <= F + D - 1
      BY <1>1
    <3> QED BY <3>1, <3>2, <1>1, <1>3
  <2>2. SameEvent(s[i], e) /\ SameEvent(s[F], e)
    BY <2>1 DEF InsertionPlace
  <2>3. ~(s[F].dup > 0)
    <3> SUFFICES ASSUME s[F].dup > 0 PROVE FALSE
      OBVIOUS
    <3>1. F > 1 /\ SameEvent(s[F - 1], s[F])
      BY <2>1 DEF Grounded
    <3>2. F - 1 \in 1..(F - 1) /\ F - 1 \in 1..Len(s)
      BY <1>1, <2>1, <3>1
    <3>3. EventBefore(s[F - 1], e)
      BY <3>2 DEF InsertionPlace
    <3>4. IsEvent(s[F - 1]) /\ IsEvent(s[F])
      BY <1>1, <2>1, <3>2
    <3> QED
      BY <1>1, <2>2, <3>1, <3>3, <3>4, EventOrder, EventTransitive
  <2>4. s[F].dup = 0
    <3>1. s[F].dup \in Nat
      BY <1>1, <2>1
    <3> QED BY <3>1, <2>3
  <2>5. CASE i = F
    BY <1>1, <2>2, <2>4, <2>5
  <2>6. CASE F < i
    <3>1. \/ EventBefore(s[F], s[i])
          \/ SameEvent(s[F], s[i]) /\ s[i].dup = s[F].dup + (i - F)
      BY <2>1, <2>6 DEF Ascending
    <3>2. ~EventBefore(s[F], s[i])
      BY <1>1, <2>1, <2>2, EventOrder, EventTransitive
    <3> QED
      BY <1>1, <2>2, <2>4, <3>1, <3>2
  <2> QED BY <1>1, <1>3, <2>5, <2>6
<1> QED BY <1>1, <1>2, <1>3

\* What comes behind the place of the insertion is greater.
LEMMA BehindTheInsertion ==
  ASSUME NEW s \in Seq(IndexEntry), Ascending(s), NEW e \in IndexEntry,
         NEW F, NEW D, InsertionPlace(s, e, F, D), NEW j \in (F + D)..Len(s)
  PROVE  EventBefore(e, s[j])
<1> DEFINE p == F + D
<1>1. /\ Len(s) \in Nat /\ IsEvent(e) /\ F \in Nat /\ D \in Nat /\ F > 0 /\ p \in 1..Len(s)
      /\ \A k \in 1..Len(s) : IsEvent(s[k]) /\ s[k].dup \in Nat
      /\ j \in 1..Len(s) /\ p <= j /\ F \in 1..Len(s)
  BY EntriesOf, EntryFields DEF InsertionPlace, IsEvent
<1>2. ~SameEvent(s[p], e)
  BY <1>1 DEF InsertionPlace
<1>3. ~EventBefore(s[p], e)
  <2>1. CASE D = 0
    BY <1>1, <2>1 DEF InsertionPlace
  <2>2. CASE D > 0
    <3>1. 0 \in 0..(D - 1) /\ F + 0 = F /\ F < p
      BY <1>1, <2>2
    <3>2. SameEvent(s[F], e)
      BY <3>1 DEF InsertionPlace
    <3>3. EventBefore(s[F], s[p]) \/ SameEvent(s[F], s[p])
      BY <1>1, <3>1 DEF Ascending
    <3>4. IsEvent(s[F]) /\ IsEvent(s[p])
      BY <1>1
    <3> HIDE DEF p
    <3> QED
      BY <1>1, <3>2, <3>3, <3>4, EventOrder, EventTransitive
  <2> QED BY <1>1, <2>1, <2>2
<1>4. IsEvent(s[p]) /\ IsEvent(s[j])
  BY <1>1
<1>5. EventBefore(e, s[p])
  <2> HIDE DEF p
  <2> QED BY <1>1, <1>2, <1>3, <1>4, EventOrder
<1>6. j = p \/ EventBefore(s[p], s[j]) \/ SameEvent(s[p], s[j])
  BY <1>1 DEF Ascending
<1> HIDE DEF p
<1> QED
  BY <1>1, <1>4, <1>5, <1>6, EventTransitive

\* An insertion at its place keeps the order and the numbers of the duplicates.
LEMMA InsertionAscends ==
  ASSUME NEW s \in Seq(IndexEntry), Ascending(s), Grounded(s), NEW e \in IndexEntry,
         NEW F, NEW D, InsertionPlace(s, e, F, D), e.dup = D
  PROVE  Ascending(InsertAt(s, F + D, e)) /\ Grounded(InsertAt(s, F + D, e))
<1> DEFINE p == F + D
           t == InsertAt(s, p, e)
<1>1. /\ Len(s) \in Nat /\ p \in 1..(Len(s) + 1) /\ IsEvent(e) /\ F \in Nat /\ D \in Nat /\ F > 0
      /\ \A i \in 1..Len(s) : IsEvent(s[i]) /\ s[i].dup \in Nat
  BY EntriesOf, EntryFields DEF InsertionPlace, IsEvent
<1>2. /\ Len(t) = Len(s) + 1
      /\ \A i \in 1..(Len(s) + 1) : t[i] = IF i < p THEN s[i] ELSE IF i = p THEN e ELSE s[i - 1]
  <2>1. p \in 1..(Len(s) + 1)
    BY <1>1
  <2> HIDE DEF p
  <2> QED BY <2>1, InsertAtProperties
<1>3. \A i \in 1..(p - 1) : EventBefore(s[i], e) \/ (SameEvent(s[i], e) /\ s[i].dup = i - F)
  <2> SUFFICES ASSUME NEW i \in 1..(p - 1)
               PROVE  EventBefore(s[i], e) \/ (SameEvent(s[i], e) /\ s[i].dup = i - F)
    OBVIOUS
  <2>1. i \in 1..(F + D - 1)
    BY <1>1 DEF p
  <2> HIDE DEF p, t
  <2> QED BY <2>1, BeforeTheInsertion
<1>4. \A j \in p..Len(s) : EventBefore(e, s[j])
  BY BehindTheInsertion
<1>5. p = F + D /\ \A k \in 0..(D - 1) : SameEvent(s[F + k], e)
  BY DEF InsertionPlace
<1> HIDE DEF p, t
<1>6. Ascending(t)
  <2> SUFFICES ASSUME NEW i \in 1..(Len(s) + 1), NEW j \in 1..(Len(s) + 1), i < j
               PROVE  \/ EventBefore(t[i], t[j])
                      \/ SameEvent(t[i], t[j]) /\ t[j].dup = t[i].dup + (j - i)
    BY <1>2 DEF Ascending
  <2>1. CASE j < p
    <3>1. t[i] = s[i] /\ t[j] = s[j] /\ i \in 1..Len(s) /\ j \in 1..Len(s)
      BY <1>1, <1>2, <2>1
    <3> QED BY <3>1 DEF Ascending
  <2>2. CASE j = p
    <3>1. t[i] = s[i] /\ t[j] = e /\ i \in 1..(p - 1) /\ i \in 1..Len(s)
      BY <1>1, <1>2, <2>2
    <3>2. EventBefore(s[i], e) \/ (SameEvent(s[i], e) /\ s[i].dup = i - F)
      BY <1>3, <3>1
    <3>3. s[i].dup = i - F => e.dup = s[i].dup + (j - i)
      BY <1>1, <1>5, <2>2
    <3> QED BY <3>1, <3>2, <3>3
  <2>3. CASE i < p /\ p < j
    <3>1. t[i] = s[i] /\ t[j] = s[j - 1] /\ i \in 1..(p - 1) /\ j - 1 \in p..Len(s)
          /\ i \in 1..Len(s) /\ j - 1 \in 1..Len(s)
      BY <1>1, <1>2, <2>3
    <3>2. EventBefore(s[i], e) \/ SameEvent(s[i], e)
      BY <1>3, <3>1
    <3>3. EventBefore(e, s[j - 1])
      BY <1>4, <3>1
    <3>4. IsEvent(s[i]) /\ IsEvent(s[j - 1])
      BY <1>1, <3>1
    <3>5. EventBefore(s[i], s[j - 1])
      BY <1>1, <3>2, <3>3, <3>4, EventTransitive
    <3> QED BY <3>1, <3>5
  <2>4. CASE i = p
    <3>1. t[i] = e /\ t[j] = s[j - 1] /\ j - 1 \in p..Len(s)
      BY <1>1, <1>2, <2>4
    <3> QED BY <1>4, <3>1
  <2>5. CASE p < i
    <3>1. t[i] = s[i - 1] /\ t[j] = s[j - 1] /\ i - 1 \in 1..Len(s) /\ j - 1 \in 1..Len(s)
          /\ i - 1 < j - 1 /\ (j - 1) - (i - 1) = j - i
      <4>1. p < j /\ i \in Nat /\ j \in Nat /\ p \in Nat /\ p > 0
            /\ i <= Len(s) + 1 /\ j <= Len(s) + 1 /\ Len(s) \in Nat
        BY <1>1, <2>5
      <4>2. t[i] = s[i - 1] /\ t[j] = s[j - 1]
        BY <1>2, <2>5, <4>1
      <4>3. i - 1 \in 1..Len(s) /\ j - 1 \in 1..Len(s)
        BY <2>5, <4>1
      <4>4. i - 1 < j - 1 /\ (j - 1) - (i - 1) = j - i
        BY <4>1
      <4> QED BY <4>2, <4>3, <4>4
    <3> QED BY <3>1 DEF Ascending
  <2> QED
    BY <1>1, <2>1, <2>2, <2>3, <2>4, <2>5
<1>7. Grounded(t)
  <2> SUFFICES ASSUME NEW j \in 1..(Len(s) + 1), t[j].dup > 0
               PROVE  j > 1 /\ SameEvent(t[j - 1], t[j])
    BY <1>2 DEF Grounded
  <2>1. CASE j < p
    <3>1. t[j] = s[j] /\ j \in 1..Len(s)
      BY <1>1, <1>2, <2>1
    <3>2. j > 1 /\ SameEvent(s[j - 1], s[j])
      BY <3>1 DEF Grounded
    <3>3. t[j - 1] = s[j - 1]
      BY <1>1, <1>2, <2>1, <3>2
    <3> QED BY <3>1, <3>2, <3>3
  <2>2. CASE j = p
    <3>1. t[j] = e /\ D > 0
      BY <1>1, <1>2, <2>2
    <3>2. D - 1 \in 0..(D - 1) /\ F + (D - 1) = j - 1 /\ j > 1
      BY <1>1, <1>5, <2>2, <3>1
    <3>3. SameEvent(s[j - 1], e)
      BY <1>5, <3>2
    <3>4. t[j - 1] = s[j - 1]
      BY <1>1, <1>2, <2>2, <3>2
    <3> QED BY <3>1, <3>2, <3>3, <3>4
  <2>3. CASE p < j
    <3>1. t[j] = s[j - 1] /\ j - 1 \in 1..Len(s) /\ j - 1 \in p..Len(s) /\ j > 1
      BY <1>1, <1>2, <2>3
    <3>2. j - 1 > 1 /\ SameEvent(s[j - 2], s[j - 1])
      <4>1. j - 1 > 1 /\ SameEvent(s[(j - 1) - 1], s[j - 1])
        BY <3>1 DEF Grounded
      <4>2. (j - 1) - 1 = j - 2
        BY <3>1
      <4> QED BY <4>1, <4>2
    <3>3. CASE j = p + 1
      <4>1. j - 2 \in 1..(p - 1) /\ j - 2 \in 1..Len(s)
        BY <1>1, <3>1, <3>2, <3>3
      <4>2. EventBefore(s[j - 2], e) \/ SameEvent(s[j - 2], e)
        BY <1>3, <4>1
      <4>3. EventBefore(e, s[j - 1])
        BY <1>4, <3>1
      <4>4. IsEvent(s[j - 2]) /\ IsEvent(s[j - 1])
        BY <1>1, <3>1, <4>1
      <4> QED
        BY <1>1, <3>2, <4>2, <4>3, <4>4, EventOrder, EventTransitive
    <3>4. CASE j > p + 1
      <4>1. t[j - 1] = s[j - 2]
        <5>1. j - 1 \in 1..(Len(s) + 1) /\ ~(j - 1 < p) /\ j - 1 # p /\ (j - 1) - 1 = j - 2
          BY <1>1, <3>1, <3>4
        <5> QED BY <1>2, <5>1
      <4> QED BY <3>1, <3>2, <4>1
    <3> QED BY <1>1, <2>3, <3>3, <3>4
  <2> QED
    BY <1>1, <2>1, <2>2, <2>3
<1> QED
  BY <1>6, <1>7 DEF t, p
-----------------------------------------------------------------------------
\* The entries behind a deleted one that move down are those of its event.
LEMMA MovesDownMeaning ==
  ASSUME sorted \in Seq(IndexEntry), Ascending(sorted),
         NEW k \in 1..Len(sorted), NEW i \in 1..(Len(sorted) - 1)
  PROVE  /\ MovesDown(k, i) <=> i >= k /\ SameEvent(sorted[i + 1], sorted[k])
         /\ MovesDown(k, i) => sorted[i + 1].dup > 0
<1>1. /\ Len(sorted) \in Nat /\ k \in Nat /\ i \in Nat /\ i + 1 \in 1..Len(sorted)
      /\ \A m \in 1..Len(sorted) : IsEvent(sorted[m]) /\ sorted[m].dup \in Nat
                                   /\ sorted[m].dup < MaxDuplicates
  <2>1. Len(sorted) \in Nat /\ k \in Nat /\ i \in Nat /\ i + 1 \in 1..Len(sorted)
    BY LenProperties
  <2> QED BY <2>1, EntriesOf, EntryFields DEF IsEvent
<1>2. MovesDown(k, i) => i >= k /\ SameEvent(sorted[i + 1], sorted[k])
  BY <1>1 DEF MovesDown
<1>3. ASSUME i >= k, SameEvent(sorted[i + 1], sorted[k])
      PROVE  MovesDown(k, i) /\ sorted[i + 1].dup > 0
  <2>1. /\ k < i + 1 /\ IsEvent(sorted[k]) /\ IsEvent(sorted[i + 1])
        /\ SameEvent(sorted[k], sorted[i + 1])
    BY <1>1, <1>3, EventOrder
  <2>2. ~EventBefore(sorted[k], sorted[i + 1])
    BY <2>1, EventOrder
  <2>3. sorted[i + 1].dup = sorted[k].dup + ((i + 1) - k)
    BY <1>1, <2>1, <2>2 DEF Ascending
  <2>4. \A a, b, c, d \in Nat : a = b + ((c + 1) - d) /\ c >= d /\ a < MaxDuplicates
                                => c < d + MaxDuplicates - 1 /\ a > 0
    BY RulesAssumption
  <2>5. i < k + MaxDuplicates - 1 /\ sorted[i + 1].dup > 0
    BY <1>1, <1>3, <2>3, <2>4
  <2>6. ASSUME NEW m \in k..i PROVE SameEvent(sorted[m + 1], sorted[k])
    <3>1. m \in Nat /\ m + 1 \in 1..Len(sorted) /\ k < m + 1
      BY <1>1
    <3>2. EventBefore(sorted[k], sorted[m + 1]) \/ SameEvent(sorted[k], sorted[m + 1])
      BY <3>1 DEF Ascending
    <3>3. CASE m = i
      BY <1>3, <3>3
    <3>4. CASE m < i
      <4>1. m + 1 < i + 1
        BY <1>1, <3>1, <3>4
      <4>2. EventBefore(sorted[m + 1], sorted[i + 1]) \/ SameEvent(sorted[m + 1], sorted[i + 1])
        BY <1>1, <3>1, <4>1 DEF Ascending
      <4>3. IsEvent(sorted[m + 1])
        BY <1>1, <3>1
      <4> QED
        BY <2>1, <2>2, <3>2, <4>2, <4>3, EventOrder, EventTransitive
    <3> QED BY <1>1, <3>1, <3>3, <3>4
  <2> QED BY <1>3, <2>5, <2>6 DEF MovesDown
<1> QED
  BY <1>2, <1>3

\* What is left without the entry at position k.
LeftBehind(k, i) ==
    /\ i < k => Without(k)[i] = sorted[i]
    /\ i >= k /\ ~SameEvent(sorted[i + 1], sorted[k]) => Without(k)[i] = sorted[i + 1]
    /\ i >= k /\ SameEvent(sorted[i + 1], sorted[k]) =>
          /\ Without(k)[i] = Entry(sorted[i + 1].group, sorted[i + 1].local,
                                   sorted[i + 1].dup - 1, sorted[i + 1].id)
          /\ Without(k)[i].dup = sorted[i + 1].dup - 1
          /\ sorted[i + 1].dup > 0
    /\ i >= k => SameEvent(Without(k)[i], sorted[i + 1]) /\ Without(k)[i].id = sorted[i + 1].id

\* The index without its k-th entry: its type, its length and its entries.
LEMMA WithoutFacts ==
  ASSUME sorted \in Seq(IndexEntry), Ascending(sorted), NEW k \in 1..Len(sorted)
  PROVE  /\ Without(k) \in Seq(IndexEntry) /\ Len(Without(k)) = Len(sorted) - 1
         /\ \A i \in 1..(Len(sorted) - 1) : LeftBehind(k, i)
<1>1. /\ Len(sorted) \in Nat /\ k \in Nat /\ Len(sorted) - 1 \in Nat
      /\ \A m \in 1..Len(sorted) : sorted[m] \in IndexEntry
  <2>1. Len(sorted) \in Nat /\ k \in Nat /\ Len(sorted) - 1 \in Nat
    BY LenProperties
  <2> QED BY <2>1, EntriesOf
<1>2. ASSUME NEW i \in 1..(Len(sorted) - 1) PROVE LeftBehind(k, i) /\ Without(k)[i] \in IndexEntry
  <2>1. i \in Nat /\ i \in 1..Len(sorted) /\ i + 1 \in 1..Len(sorted)
    BY <1>1
  <2>2. /\ MovesDown(k, i) <=> i >= k /\ SameEvent(sorted[i + 1], sorted[k])
        /\ MovesDown(k, i) => sorted[i + 1].dup > 0
    BY MovesDownMeaning
  <2>3. CASE i < k
    <3>1. Without(k)[i] = sorted[i] /\ ~(i >= k)
      BY <1>1, <2>1, <2>2, <2>3 DEF Without
    <3> QED BY <1>1, <2>1, <2>3, <3>1 DEF LeftBehind
  <2>4. CASE i >= k /\ ~SameEvent(sorted[i + 1], sorted[k])
    <3>1. Without(k)[i] = sorted[i + 1] /\ ~(i < k)
      BY <1>1, <2>1, <2>2, <2>4 DEF Without
    <3> QED BY <1>1, <2>1, <2>4, <3>1 DEF LeftBehind, SameEvent
  <2>5. CASE i >= k /\ SameEvent(sorted[i + 1], sorted[k])
    <3> DEFINE e == sorted[i + 1]
    <3>1. Without(k)[i] = Entry(e.group, e.local, e.dup - 1, e.id) /\ ~(i < k)
      BY <1>1, <2>1, <2>2, <2>5 DEF Without
    <3>2. /\ e \in IndexEntry /\ e.dup > 0 /\ e.group \in Groups /\ e.local \in Locals /\ e.id \in RuleIds
          /\ e.dup \in Nat /\ e.dup < MaxDuplicates
      BY <1>1, <2>1, <2>2, <2>5, EntryFields
    <3>3. e.dup - 1 \in 0..(MaxDuplicates - 1)
      <4>1. \A d \in Nat : d > 0 /\ d < MaxDuplicates => d - 1 \in 0..(MaxDuplicates - 1)
        BY RulesAssumption
      <4> HIDE DEF e
      <4> QED BY <3>2, <4>1
    <3> HIDE DEF e
    <3>4. /\ Entry(e.group, e.local, e.dup - 1, e.id) \in IndexEntry
          /\ Entry(e.group, e.local, e.dup - 1, e.id).dup = e.dup - 1
          /\ Entry(e.group, e.local, e.dup - 1, e.id).id = e.id
          /\ SameEvent(Entry(e.group, e.local, e.dup - 1, e.id), e)
      BY <3>2, <3>3 DEF Entry, IndexEntry, SameEvent
    <3> QED BY <2>5, <3>1, <3>2, <3>4 DEF LeftBehind, e
  <2> QED BY <1>1, <2>1, <2>3, <2>4, <2>5
<1>3. Without(k) = [i \in 1..(Len(sorted) - 1) |-> Without(k)[i]]
  BY DEF Without
<1>4. Without(k) \in Seq(IndexEntry) /\ Len(Without(k)) = Len(sorted) - 1
  BY <1>1, <1>2, <1>3
<1> QED
  BY <1>2, <1>4

\* A deletion keeps the order and the numbers of the duplicates.
LEMMA DeletionAscends ==
  ASSUME sorted \in Seq(IndexEntry), Ascending(sorted), Grounded(sorted), NEW k \in 1..Len(sorted)
  PROVE  Ascending(Without(k)) /\ Grounded(Without(k))
<1> DEFINE t == Without(k)
           s == sorted
<1>1. /\ Len(s) \in Nat /\ k \in Nat
      /\ \A m \in 1..Len(s) : IsEvent(s[m]) /\ s[m].dup \in Nat
  <2>1. Len(s) \in Nat /\ k \in Nat
    BY LenProperties
  <2> QED BY <2>1, EntriesOf
<1>2. Len(t) = Len(s) - 1 /\ \A i \in 1..(Len(s) - 1) : LeftBehind(k, i)
  BY WithoutFacts
<1>3. /\ \A i \in 1..(Len(s) - 1) : i < k => t[i] = s[i]
      /\ \A i \in 1..(Len(s) - 1) : i >= k =>
            /\ SameEvent(t[i], s[i + 1])
            /\ ~SameEvent(s[i + 1], s[k]) => t[i].dup = s[i + 1].dup
            /\ SameEvent(s[i + 1], s[k]) => t[i].dup = s[i + 1].dup - 1
  BY <1>2 DEF LeftBehind
<1>4. \A m, n \in 1..Len(s) : m < n => \/ EventBefore(s[m], s[n])
                                       \/ SameEvent(s[m], s[n]) /\ s[n].dup = s[m].dup + (n - m)
  BY DEF Ascending
<1>5. \A m \in 1..Len(s) : s[m].dup > 0 => m > 1 /\ SameEvent(s[m - 1], s[m])
  BY DEF Grounded
<1> HIDE DEF t, s
<1>6. \A i \in 1..(Len(s) - 1) : i \in Nat /\ i \in 1..Len(s) /\ i + 1 \in 1..Len(s)
  BY <1>1
<1>7. \A i \in 1..(Len(s) - 1) : IsEvent(t[i])
  <2> SUFFICES ASSUME NEW i \in 1..(Len(s) - 1) PROVE IsEvent(t[i])
    OBVIOUS
  <2>1. t[i] = s[i] \/ SameEvent(t[i], s[i + 1])
    BY <1>1, <1>3, <1>6
  <2>2. IsEvent(s[i]) /\ IsEvent(s[i + 1])
    BY <1>1, <1>6
  <2> QED BY <2>1, <2>2 DEF IsEvent, SameEvent
<1>8. Ascending(t)
  <2> SUFFICES ASSUME NEW i \in 1..(Len(s) - 1), NEW j \in 1..(Len(s) - 1), i < j
               PROVE  \/ EventBefore(t[i], t[j])
                      \/ SameEvent(t[i], t[j]) /\ t[j].dup = t[i].dup + (j - i)
    BY <1>2 DEF Ascending
  <2>0. /\ i \in Nat /\ i \in 1..Len(s) /\ i + 1 \in 1..Len(s) /\ IsEvent(t[i])
        /\ j \in Nat /\ j \in 1..Len(s) /\ j + 1 \in 1..Len(s) /\ IsEvent(t[j])
        /\ IsEvent(s[i]) /\ IsEvent(s[i + 1]) /\ IsEvent(s[j]) /\ IsEvent(s[j + 1]) /\ IsEvent(s[k])
        /\ k \in 1..Len(s)
    BY <1>1, <1>6, <1>7 DEF s
  <2>1. CASE j < k
    <3>1. t[i] = s[i] /\ t[j] = s[j]
      BY <1>1, <1>3, <2>0, <2>1
    <3> QED BY <1>4, <2>0, <3>1
  <2>2. CASE i < k /\ j >= k
    <3>1. t[i] = s[i] /\ SameEvent(t[j], s[j + 1]) /\ SameEvent(s[j + 1], t[j])
      BY <1>3, <2>0, <2>2, EventOrder
    <3>2. CASE EventBefore(s[i], s[j + 1])
      BY <2>0, <3>1, <3>2, EventTransitive
    <3>3. CASE SameEvent(s[i], s[j + 1]) /\ ~EventBefore(s[i], s[j + 1])
      <4>0. i < j + 1
        BY <2>0
      <4>1. s[j + 1].dup = s[i].dup + ((j + 1) - i)
        BY <1>4, <2>0, <3>3, <4>0
      <4>2. /\ EventBefore(s[i], s[k]) \/ SameEvent(s[i], s[k])
            /\ EventBefore(s[k], s[j + 1]) \/ SameEvent(s[k], s[j + 1])
        BY <1>4, <2>0, <2>2
      <4>3. SameEvent(s[j + 1], s[k])
        BY <2>0, <3>3, <4>2, EventOrder, EventTransitive
      <4>4. t[j].dup = s[j + 1].dup - 1
        BY <1>3, <2>2, <4>3
      <4>5. t[j].dup = t[i].dup + (j - i)
        <5>1. \A a, b, x, y \in Nat : a = b + ((y + 1) - x) => a - 1 = b + (y - x)
          OBVIOUS
        <5>2. s[i].dup \in Nat /\ s[j + 1].dup \in Nat
          BY <1>1, <2>0
        <5>3. s[j + 1].dup - 1 = s[i].dup + (j - i)
          <6>1. i \in Nat /\ j \in Nat
            BY <2>0
          <6> DEFINE a == s[j + 1].dup
                     b == s[i].dup
          <6>2. a \in Nat /\ b \in Nat /\ a = b + ((j + 1) - i)
            BY <4>1, <5>2
          <6> HIDE DEF a, b
          <6>3. a - 1 = b + (j - i)
            BY <5>1, <6>1, <6>2
          <6> QED BY <6>3 DEF a, b
        <5> QED BY <3>1, <4>4, <5>3
      <4>6. SameEvent(t[i], t[j])
        BY <2>0, <3>1, <3>3, EventTransitive
      <4> QED BY <4>5, <4>6
    <3>4. i < j + 1
      BY <2>0
    <3> QED BY <1>4, <2>0, <3>2, <3>3, <3>4
  <2>3. CASE i >= k
    <3>1. j >= k /\ i + 1 < j + 1
      BY <2>0, <2>3
    <3>2. /\ SameEvent(t[i], s[i + 1]) /\ SameEvent(s[i + 1], t[i])
          /\ SameEvent(t[j], s[j + 1]) /\ SameEvent(s[j + 1], t[j])
      BY <1>3, <2>0, <2>3, <3>1, EventOrder
    <3>3. CASE EventBefore(s[i + 1], s[j + 1])
      BY <2>0, <3>2, <3>3, EventTransitive
    <3>4. CASE SameEvent(s[i + 1], s[j + 1]) /\ ~EventBefore(s[i + 1], s[j + 1])
      <4>1. s[j + 1].dup = s[i + 1].dup + ((j + 1) - (i + 1))
        BY <1>4, <2>0, <3>1, <3>4
      <4>2. SameEvent(s[i + 1], s[k]) <=> SameEvent(s[j + 1], s[k])
        BY <2>0, <3>4, EventOrder, EventTransitive
      <4>3. \A a, b, x, y \in Nat : a = b + ((y + 1) - (x + 1)) =>
                                      a = b + (y - x) /\ a - 1 = (b - 1) + (y - x)
        OBVIOUS
      <4>4. CASE SameEvent(s[i + 1], s[k])
        <5>1. t[i].dup = s[i + 1].dup - 1 /\ t[j].dup = s[j + 1].dup - 1
          BY <1>3, <2>3, <3>1, <4>2, <4>4
        <5>2. t[j].dup = t[i].dup + (j - i)
          BY <1>1, <2>0, <4>1, <4>3, <5>1
        <5> QED BY <2>0, <3>2, <3>4, <5>2, EventTransitive
      <4>5. CASE ~SameEvent(s[i + 1], s[k])
        <5>1. t[i].dup = s[i + 1].dup /\ t[j].dup = s[j + 1].dup
          BY <1>3, <2>3, <3>1, <4>2, <4>5
        <5>2. t[j].dup = t[i].dup + (j - i)
          BY <1>1, <2>0, <4>1, <4>3, <5>1
        <5> QED BY <2>0, <3>2, <3>4, <5>2, EventTransitive
      <4> QED BY <4>4, <4>5
    <3> QED BY <1>4, <2>0, <3>1, <3>3, <3>4
  <2> QED BY <1>1, <2>0, <2>1, <2>2, <2>3
<1>9. Grounded(t)
  <2> SUFFICES ASSUME NEW j \in 1..(Len(s) - 1), t[j].dup > 0
               PROVE  j > 1 /\ SameEvent(t[j - 1], t[j])
    BY <1>2 DEF Grounded
  <2>0. /\ j \in Nat /\ j \in 1..Len(s) /\ j + 1 \in 1..Len(s) /\ IsEvent(t[j]) /\ (j + 1) - 1 = j
        /\ IsEvent(s[j]) /\ IsEvent(s[j + 1]) /\ IsEvent(s[k]) /\ k \in 1..Len(s)
        /\ s[j].dup \in Nat /\ s[j + 1].dup \in Nat
    BY <1>1, <1>6, <1>7 DEF s
  <2>1. CASE j < k
    <3>1. t[j] = s[j]
      BY <1>3, <2>1
    <3>2. j > 1 /\ SameEvent(s[j - 1], s[j])
      BY <1>5, <2>0, <3>1
    <3>3. j - 1 \in 1..(Len(s) - 1) /\ j - 1 < k
      BY <1>1, <2>0, <2>1, <3>2
    <3>4. t[j - 1] = s[j - 1]
      BY <1>3, <3>3
    <3> QED BY <3>1, <3>2, <3>4
  <2>2. CASE j >= k
    <3>1. SameEvent(t[j], s[j + 1]) /\ SameEvent(s[j + 1], t[j])
      BY <1>3, <2>0, <2>2, EventOrder
    <3>2. s[j + 1].dup > 0
      <4>1. t[j].dup = s[j + 1].dup \/ t[j].dup = s[j + 1].dup - 1
        BY <1>3, <2>2
      <4>2. \A a \in Nat, b \in Int : (b = a \/ b = a - 1) /\ b > 0 => a > 0
        OBVIOUS
      <4> QED BY <2>0, <4>1, <4>2
    <3>3. SameEvent(s[j], s[j + 1])
      BY <1>5, <2>0, <3>2
    <3>4. CASE j > k
      <4>1. j - 1 \in 1..(Len(s) - 1) /\ j - 1 >= k /\ (j - 1) + 1 = j /\ j > 1
        BY <1>1, <2>0, <3>4
      <4>2. SameEvent(t[j - 1], s[j]) /\ IsEvent(t[j - 1])
        BY <1>3, <1>7, <4>1
      <4> QED BY <2>0, <3>1, <3>3, <4>1, <4>2, EventTransitive
    <3>5. CASE j = k
      <4>1. SameEvent(s[j + 1], s[k]) /\ j < j + 1
        BY <2>0, <3>3, <3>5, EventOrder
      <4>2. s[j + 1].dup = s[j].dup + ((j + 1) - j)
        BY <1>4, <2>0, <3>3, <4>1, EventOrder
      <4>3. t[j].dup = s[j + 1].dup - 1
        BY <1>3, <2>2, <4>1
      <4>4. s[j].dup > 0
        <5>1. \A a, b, x \in Nat : a = b + ((x + 1) - x) => a - 1 = b
          OBVIOUS
        <5>2. s[j + 1].dup - 1 = s[j].dup
          BY <2>0, <4>2, <5>1
        <5> QED BY <4>3, <5>2
      <4>5. j > 1 /\ SameEvent(s[j - 1], s[j])
        BY <1>5, <2>0, <4>4
      <4>6. j - 1 \in 1..(Len(s) - 1) /\ j - 1 < k
        BY <1>1, <2>0, <3>5, <4>5
      <4>7. t[j - 1] = s[j - 1] /\ IsEvent(t[j - 1])
        BY <1>3, <1>7, <4>6
      <4> QED BY <2>0, <3>1, <3>3, <4>5, <4>7, EventTransitive
    <3> QED BY <1>1, <2>0, <2>2, <3>4, <3>5
  <2> QED BY <1>1, <2>0, <2>1, <2>2
<1> QED
  BY <1>8, <1>9 DEF t
-----------------------------------------------------------------------------
\* What a step keeps that leaves the table and the index alone.
LEMMA SameTable ==
  ASSUME RulesInv, UNCHANGED <<setting, sorted>>, active' \in [RuleIds -> BOOLEAN],
         maxLevels' \in MultiLevels, undef' \in BOOLEAN
  PROVE  RulesInv'
<1>1. TableTypeOK'
  BY DEF RulesInv, TableTypeOK
<1>2. IndexMatchesRules'
  BY DEF RulesInv, IndexMatchesRules, Registered, SameEvent
<1>3. Ascending(sorted)' /\ Grounded(sorted)'
  BY DEF RulesInv
<1> QED
  BY <1>1, <1>2, <1>3 DEF RulesInv

\* What the invariant of the rules says of the index.
LEMMA RulesInvFacts ==
  ASSUME RulesInv
  PROVE  /\ sorted \in Seq(IndexEntry) /\ Len(sorted) \in Nat
         /\ \A i \in 1..Len(sorted) : sorted[i] \in IndexEntry
         /\ setting \in [RuleIds -> Settings \cup {NoRule}]
         /\ active \in [RuleIds -> BOOLEAN]
         /\ maxLevels \in MultiLevels /\ undef \in BOOLEAN /\ Len(sorted) <= RuleMax
<1>1. sorted \in Seq(IndexEntry)
  BY DEF RulesInv, TableTypeOK, IndexEntry
<1> QED
  BY <1>1, EntriesOf DEF RulesInv, TableTypeOK

\* A table without rules is sound.
LEMMA Empty ==
  ASSUME setting = [id \in RuleIds |-> NoRule], active = [id \in RuleIds |-> FALSE],
         sorted = <<>>, maxLevels \in MultiLevels, undef \in BOOLEAN
  PROVE  RulesInv
<1>1. sorted \in Seq(IndexEntry) /\ Len(sorted) = 0 /\ 0 <= RuleMax
  BY EmptySeq, RulesAssumption
<1>2. TableTypeOK
  BY <1>1, RulesAssumption DEF TableTypeOK, IndexEntry
<1>3. NoRule.group = NullGroup
  BY DEF NoRule
<1>4. IndexMatchesRules
  BY <1>1, <1>3 DEF IndexMatchesRules, Registered
<1>5. Ascending(sorted) /\ Grounded(sorted)
  BY <1>1 DEF Ascending, Grounded
<1> QED
  BY <1>2, <1>4, <1>5 DEF RulesInv

\* EH_init and EH_clear_rules_ leave a sound table.
LEMMA NoRulesStep ==
  ASSUME NoRules, maxLevels' \in MultiLevels, undef' \in BOOLEAN
  PROVE  RulesInv'
<1>1. setting' = [id \in RuleIds |-> NoRule] /\ active' = [id \in RuleIds |-> FALSE]
      /\ sorted' = <<>>
  BY DEF NoRules
<1>2. <<>> \in Seq(IndexEntry) /\ Len(sorted') = 0 /\ 0 <= RuleMax
  BY <1>1, EmptySeq, RulesAssumption
<1>3. TableTypeOK'
  BY <1>1, <1>2, RulesAssumption DEF TableTypeOK, IndexEntry
<1>4. NoRule.group = NullGroup
  BY DEF NoRule
<1>5. IndexMatchesRules'
  BY <1>1, <1>2, <1>4 DEF IndexMatchesRules, Registered
<1>6. Ascending(sorted)' /\ Grounded(sorted)'
  BY <1>2 DEF Ascending, Grounded
<1> QED
  BY <1>3, <1>5, <1>6 DEF RulesInv

RegisteredIn(table, id) == id \in RuleIds /\ table[id].group # NullGroup

\* EH_register_rule keeps the table sound.
LEMMA RegisterStep ==
  ASSUME RulesInv, NEW id \in RuleIds, NEW s \in Settings, NEW isActive \in BOOLEAN,
         RegisterRule(id, s, isActive)
  PROVE  RulesInv'
<1> DEFINE F == FirstNotBefore(s)
           D == Duplicates(s)
           e == Entry(s.group, s.local, D, id)
           p == F + D
<1>1. /\ ~Registered(id) /\ Len(sorted) < RuleMax /\ D < MaxDuplicates
      /\ setting' = [setting EXCEPT ![id] = s]
      /\ active' = [active EXCEPT ![id] = isActive]
      /\ sorted' = InsertAt(sorted, p, e) /\ UNCHANGED <<maxLevels, undef>>
  BY DEF RegisterRule, MayRegister, IndexWith
<1>2. sorted \in Seq(IndexEntry) /\ Len(sorted) \in Nat
  BY RulesInvFacts
<1>3. D \in 0..(MaxDuplicates - 1)
  BY <1>1, <1>2, DuplicatesFacts
<1>4. /\ e \in IndexEntry /\ e.dup = D /\ e.id = id /\ SameEvent(s, e)
      /\ \A x : (SameEvent(x, s) <=> SameEvent(x, e)) /\ (EventBefore(x, s) <=> EventBefore(x, e))
  <2>1. s.group \in Groups /\ s.local \in Locals
    BY RulesAssumption
  <2> HIDE DEF D
  <2> QED BY <1>3, <2>1 DEF Entry, IndexEntry, SameEvent, EventBefore
<1>5. InsertionPlace(sorted, e, F, D) /\ p \in 1..(Len(sorted) + 1)
  <2>1. /\ F \in 1..(Len(sorted) + 1)
        /\ F <= Len(sorted) => ~EventBefore(sorted[F], s)
        /\ \A k \in 1..(F - 1) : EventBefore(sorted[k], s)
    BY <1>2, FirstNotBeforeFacts
  <2>2. /\ \A k \in 0..(D - 1) : F + k <= Len(sorted) /\ SameEvent(sorted[F + k], s)
        /\ F + D > Len(sorted) \/ ~SameEvent(sorted[F + D], s)
    BY <1>1, <1>2, DuplicatesFacts
  <2> HIDE DEF F, D, e
  <2>3. F \in Nat /\ D \in Nat /\ F > 0
    BY <1>2, <1>3, <2>1, RulesAssumption
  <2>4. F + D <= Len(sorted) + 1
    <3>1. CASE D = 0
      BY <1>2, <2>1, <2>3, <3>1
    <3>2. CASE D > 0
      <4>1. D - 1 \in 0..(D - 1)
        BY <2>3, <3>2
      <4>2. F + (D - 1) <= Len(sorted)
        BY <2>2, <4>1
      <4> QED BY <1>2, <2>3, <4>2
    <3> QED BY <2>3, <3>1, <3>2
  <2>5. p \in 1..(Len(sorted) + 1)
    BY <1>2, <2>3, <2>4
  <2> QED BY <1>4, <2>1, <2>2, <2>3, <2>4, <2>5 DEF InsertionPlace
<1>6. Ascending(sorted') /\ Grounded(sorted')
  <2> HIDE DEF F, D, e
  <2> QED BY <1>1, <1>2, <1>4, <1>5, InsertionAscends DEF RulesInv
<1> HIDE DEF F, D, e, p
<1>7. /\ sorted' \in Seq(IndexEntry) /\ Len(sorted') = Len(sorted) + 1
      /\ \A i \in 1..(Len(sorted) + 1) :
            sorted'[i] = IF i < p THEN sorted[i] ELSE IF i = p THEN e ELSE sorted[i - 1]
  <2>1. sorted \in Seq(IndexEntry) /\ e \in IndexEntry /\ p \in 1..(Len(sorted) + 1)
        /\ sorted' = InsertAt(sorted, p, e)
    BY <1>1, <1>2, <1>4, <1>5
  <2> DEFINE S == IndexEntry
             list == sorted
  <2>2. e \in S /\ list \in Seq(S) /\ p \in 1..(Len(list) + 1)
    BY <2>1
  <2> HIDE DEF S, list
  <2> HIDE <1>1, <1>2, <1>4, <1>5
  <2>3. InsertAt(list, p, e) \in Seq(S) /\ Spliced(InsertAt(list, p, e), list, p, e)
    BY <2>2, InsertAtSplices
  <2>4. InsertAt(sorted, p, e) \in Seq(IndexEntry) /\ Spliced(InsertAt(sorted, p, e), sorted, p, e)
    BY <2>3 DEF S, list
  <2> QED BY <2>1, <2>4 DEF Spliced
<1>8. TableTypeOK'
  <2>1. /\ setting' \in [RuleIds -> Settings \cup {NoRule}]
        /\ active' \in [RuleIds -> BOOLEAN]
    BY <1>1, RulesInvFacts, RulesAssumption
  <2>2. Len(sorted') <= RuleMax
    BY <1>1, <1>2, <1>7, RulesAssumption
  <2>3. maxLevels' \in MultiLevels /\ undef' \in BOOLEAN
    BY <1>1, RulesInvFacts
  <2> QED BY <1>7, <2>1, <2>2, <2>3 DEF TableTypeOK, IndexEntry
<1>9. IndexMatchesRules'
  <2>1. /\ \A i, j \in 1..Len(sorted) : sorted[i].id = sorted[j].id => i = j
        /\ \A i \in 1..Len(sorted) : /\ Registered(sorted[i].id)
                                      /\ SameEvent(setting[sorted[i].id], sorted[i])
        /\ \A other \in RuleIds : Registered(other) => \E i \in 1..Len(sorted) : sorted[i].id = other
    BY DEF RulesInv, IndexMatchesRules
  <2>2. /\ setting'[id] = s /\ s.group # NullGroup
        /\ \A other \in RuleIds : other # id => setting'[other] = setting[other]
    BY <1>1, RulesInvFacts, RulesAssumption
  <2>3. /\ RegisteredIn(setting', id)
        /\ \A other \in RuleIds : other # id => (RegisteredIn(setting', other) <=> Registered(other))
    BY <2>2 DEF Registered, RegisteredIn
  <2>4. \A i \in 1..(Len(sorted) + 1) :
           \/ i < p /\ i \in 1..Len(sorted) /\ sorted'[i] = sorted[i]
           \/ i = p /\ sorted'[i] = e
           \/ i > p /\ i - 1 \in 1..Len(sorted) /\ sorted'[i] = sorted[i - 1]
    <3> SUFFICES ASSUME NEW i \in 1..(Len(sorted) + 1)
                 PROVE  \/ i < p /\ i \in 1..Len(sorted) /\ sorted'[i] = sorted[i]
                        \/ i = p /\ sorted'[i] = e
                        \/ i > p /\ i - 1 \in 1..Len(sorted) /\ sorted'[i] = sorted[i - 1]
      OBVIOUS
    <3>1. i < p => i \in 1..Len(sorted) /\ sorted'[i] = sorted[i]
      BY <1>2, <1>5, <1>7
    <3>2. i = p => sorted'[i] = e
      BY <1>7, <1>2, <1>5
    <3>3. i > p => i - 1 \in 1..Len(sorted) /\ sorted'[i] = sorted[i - 1]
      BY <1>2, <1>5, <1>7
    <3> QED BY <1>2, <1>5, <3>1, <3>2, <3>3
  <2>5. \A i \in 1..Len(sorted) : sorted[i].id \in RuleIds /\ sorted[i].id # id
    BY <1>1, <2>1, RulesInvFacts, EntryFields
  <2>6. ASSUME NEW i \in 1..(Len(sorted) + 1), NEW j \in 1..(Len(sorted) + 1),
               sorted'[i].id = sorted'[j].id
        PROVE  i = j
    <3>1. i \in Int /\ j \in Int /\ p \in Int
      BY <1>2, <1>5
    <3>2. CASE i = p
      BY <1>4, <2>4, <2>5, <2>6, <3>1, <3>2
    <3>3. CASE j = p
      BY <1>4, <2>4, <2>5, <2>6, <3>1, <3>3
    <3>4. CASE i < p /\ j < p
      BY <2>1, <2>4, <2>6, <3>1, <3>4
    <3>5. CASE i > p /\ j > p
      <4>1. i - 1 \in 1..Len(sorted) /\ j - 1 \in 1..Len(sorted) /\ sorted[i - 1].id = sorted[j - 1].id
        BY <2>4, <2>6, <3>1, <3>5
      <4>2. i - 1 = j - 1
        BY <2>1, <4>1
      <4> QED BY <3>1, <4>2
    <3>6. CASE i < p /\ j > p
      <4>1. i \in 1..Len(sorted) /\ j - 1 \in 1..Len(sorted) /\ sorted[i].id = sorted[j - 1].id
        BY <2>4, <2>6, <3>1, <3>6
      <4>2. i = j - 1
        BY <2>1, <4>1
      <4> QED BY <3>1, <3>6, <4>2
    <3>7. CASE i > p /\ j < p
      <4>1. j \in 1..Len(sorted) /\ i - 1 \in 1..Len(sorted) /\ sorted[i - 1].id = sorted[j].id
        BY <2>4, <2>6, <3>1, <3>7
      <4>2. i - 1 = j
        BY <2>1, <4>1
      <4> QED BY <3>1, <3>7, <4>2
    <3> QED BY <3>1, <3>2, <3>3, <3>4, <3>5, <3>6, <3>7
  <2>7. ASSUME NEW i \in 1..(Len(sorted) + 1)
        PROVE  RegisteredIn(setting', sorted'[i].id) /\ SameEvent(setting'[sorted'[i].id], sorted'[i])
    <3>1. CASE sorted'[i] = e
      BY <1>4, <2>2, <2>3, <3>1
    <3>2. ASSUME NEW k \in 1..Len(sorted), sorted'[i] = sorted[k]
          PROVE  RegisteredIn(setting', sorted'[i].id) /\ SameEvent(setting'[sorted'[i].id], sorted'[i])
      BY <2>1, <2>2, <2>3, <2>5, <3>2
    <3> QED BY <2>4, <3>1, <3>2
  <2>8. ASSUME NEW other \in RuleIds, RegisteredIn(setting', other)
        PROVE  \E i \in 1..(Len(sorted) + 1) : sorted'[i].id = other
    <3>1. CASE other = id
      <4>1. sorted'[p] = e
        BY <1>2, <1>5, <1>7
      <4> QED BY <1>4, <1>5, <3>1, <4>1
    <3>2. CASE other # id
      <4>1. PICK k \in 1..Len(sorted) : sorted[k].id = other
        BY <2>1, <2>3, <2>8, <3>2
      <4>2. CASE k < p
        <5>1. k \in 1..(Len(sorted) + 1) /\ sorted'[k] = sorted[k]
          BY <1>2, <1>5, <1>7, <4>2
        <5> QED BY <4>1, <5>1
      <4>3. CASE k >= p
        <5>1. k + 1 \in 1..(Len(sorted) + 1) /\ ~(k + 1 < p) /\ k + 1 # p /\ (k + 1) - 1 = k
          BY <1>2, <1>5, <4>3
        <5>2. sorted'[k + 1] = sorted[k]
          BY <1>7, <5>1
        <5> QED BY <4>1, <5>1, <5>2
      <4> QED BY <1>2, <1>5, <4>2, <4>3
    <3> QED BY <3>1, <3>2
  <2> QED BY <1>7, <2>6, <2>7, <2>8 DEF IndexMatchesRules, Registered, RegisteredIn
<1> QED
  BY <1>6, <1>8, <1>9 DEF RulesInv

\* EH_delete_rule keeps the table sound.
LEMMA DeleteStep ==
  ASSUME RulesInv, NEW id \in RuleIds, DeleteRule(id)
  PROVE  RulesInv'
<1> DEFINE k == PlaceOf(id)
<1>1. /\ Registered(id)
      /\ setting' = [setting EXCEPT ![id] = NoRule]
      /\ active' = [active EXCEPT ![id] = FALSE]
      /\ sorted' = Without(k) /\ UNCHANGED <<maxLevels, undef>>
  BY DEF DeleteRule
<1>2. sorted \in Seq(IndexEntry) /\ Len(sorted) \in Nat
  BY RulesInvFacts
<1>3. /\ \A i, j \in 1..Len(sorted) : sorted[i].id = sorted[j].id => i = j
      /\ \A i \in 1..Len(sorted) : /\ Registered(sorted[i].id)
                                    /\ SameEvent(setting[sorted[i].id], sorted[i])
      /\ \A other \in RuleIds : Registered(other) => \E i \in 1..Len(sorted) : sorted[i].id = other
  BY DEF RulesInv, IndexMatchesRules
<1>4. k \in 1..Len(sorted) /\ sorted[k].id = id
  <2>1. \E i \in 1..Len(sorted) : sorted[i].id = id
    BY <1>1, <1>3
  <2> QED BY <2>1 DEF PlaceOf
<1> HIDE DEF k
<1>5. Ascending(sorted') /\ Grounded(sorted')
  BY <1>1, <1>2, <1>4, DeletionAscends DEF RulesInv
<1>6. /\ sorted' \in Seq(IndexEntry) /\ Len(sorted') = Len(sorted) - 1
      /\ \A i \in 1..(Len(sorted) - 1) : LeftBehind(k, i)
  BY <1>1, <1>2, <1>4, WithoutFacts DEF RulesInv
<1>7. TableTypeOK'
  <2>1. /\ setting' \in [RuleIds -> Settings \cup {NoRule}]
        /\ active' \in [RuleIds -> BOOLEAN]
    BY <1>1, RulesInvFacts, RulesAssumption
  <2>2. Len(sorted') <= RuleMax
    BY <1>2, <1>6, RulesInvFacts, RulesAssumption
  <2>3. maxLevels' \in MultiLevels /\ undef' \in BOOLEAN
    BY <1>1, RulesInvFacts
  <2> QED BY <1>6, <2>1, <2>2, <2>3 DEF TableTypeOK, IndexEntry
<1>8. IndexMatchesRules'
  <2>1. \A i \in 1..(Len(sorted) - 1) :
           \/ i < k /\ i \in 1..Len(sorted) /\ sorted'[i].id = sorted[i].id /\ SameEvent(sorted'[i], sorted[i])
           \/ i >= k /\ i + 1 \in 1..Len(sorted) /\ sorted'[i].id = sorted[i + 1].id
                     /\ SameEvent(sorted'[i], sorted[i + 1])
    <3> SUFFICES ASSUME NEW i \in 1..(Len(sorted) - 1)
                 PROVE  \/ i < k /\ i \in 1..Len(sorted) /\ sorted'[i].id = sorted[i].id /\ SameEvent(sorted'[i], sorted[i])
                        \/ i >= k /\ i + 1 \in 1..Len(sorted) /\ sorted'[i].id = sorted[i + 1].id
                                  /\ SameEvent(sorted'[i], sorted[i + 1])
      OBVIOUS
    <3>1. LeftBehind(k, i) /\ i \in 1..Len(sorted) /\ i + 1 \in 1..Len(sorted)
      BY <1>2, <1>6
    <3> QED BY <1>1, <1>2, <1>4, <3>1 DEF LeftBehind, SameEvent
  <2>2. \A i \in 1..(Len(sorted) - 1) : \E m \in 1..Len(sorted) :
           m # k /\ sorted'[i].id = sorted[m].id /\ SameEvent(sorted'[i], sorted[m])
    BY <1>2, <1>4, <2>1
  <2>3. \A m \in 1..Len(sorted) : sorted[m].id \in RuleIds /\ (m # k => sorted[m].id # id)
    BY <1>3, <1>4, RulesInvFacts, EntryFields
  <2>4. \A other \in RuleIds : other # id => setting'[other] = setting[other]
    BY <1>1, RulesInvFacts
  <2>5. /\ \A other \in RuleIds : other # id => (RegisteredIn(setting', other) <=> Registered(other))
        /\ ~RegisteredIn(setting', id)
    <3>1. setting'[id] = NoRule /\ NoRule.group = NullGroup
      BY <1>1, RulesInvFacts DEF NoRule
    <3> QED BY <2>4, <3>1 DEF Registered, RegisteredIn
  <2>6. ASSUME NEW i \in 1..(Len(sorted) - 1), NEW j \in 1..(Len(sorted) - 1),
               sorted'[i].id = sorted'[j].id
        PROVE  i = j
    <3>1. i \in Int /\ j \in Int /\ k \in Int
      BY <1>2, <1>4
    <3>2. CASE i < k /\ j < k
      BY <1>3, <2>1, <2>6, <3>1, <3>2
    <3>3. CASE i >= k /\ j >= k
      <4>1. i + 1 \in 1..Len(sorted) /\ j + 1 \in 1..Len(sorted) /\ sorted[i + 1].id = sorted[j + 1].id
        BY <2>1, <2>6, <3>1, <3>3
      <4>2. i + 1 = j + 1
        BY <1>3, <4>1
      <4> QED BY <3>1, <4>2
    <3>4. CASE i < k /\ j >= k
      <4>1. i \in 1..Len(sorted) /\ j + 1 \in 1..Len(sorted) /\ sorted[i].id = sorted[j + 1].id
        BY <2>1, <2>6, <3>1, <3>4
      <4>2. i = j + 1
        BY <1>3, <4>1
      <4> QED BY <3>1, <3>4, <4>2
    <3>5. CASE i >= k /\ j < k
      <4>1. j \in 1..Len(sorted) /\ i + 1 \in 1..Len(sorted) /\ sorted[i + 1].id = sorted[j].id
        BY <2>1, <2>6, <3>1, <3>5
      <4>2. i + 1 = j
        BY <1>3, <4>1
      <4> QED BY <3>1, <3>5, <4>2
    <3> QED BY <3>1, <3>2, <3>3, <3>4, <3>5
  <2>7. ASSUME NEW i \in 1..(Len(sorted) - 1)
        PROVE  RegisteredIn(setting', sorted'[i].id) /\ SameEvent(setting'[sorted'[i].id], sorted'[i])
    <3>1. PICK m \in 1..Len(sorted) :
             m # k /\ sorted'[i].id = sorted[m].id /\ SameEvent(sorted'[i], sorted[m])
      BY <2>2
    <3>2. /\ Registered(sorted[m].id) /\ SameEvent(setting[sorted[m].id], sorted[m])
          /\ sorted[m].id \in RuleIds /\ sorted[m].id # id
      BY <1>3, <2>3, <3>1
    <3> QED BY <2>4, <2>5, <3>1, <3>2 DEF SameEvent
  <2>8. ASSUME NEW other \in RuleIds, RegisteredIn(setting', other)
        PROVE  \E i \in 1..(Len(sorted) - 1) : sorted'[i].id = other
    <3>1. other # id /\ Registered(other)
      BY <2>5, <2>8
    <3>2. PICK m \in 1..Len(sorted) : sorted[m].id = other
      BY <1>3, <3>1
    <3>3. m # k
      BY <1>4, <3>1, <3>2
    <3>4. CASE m < k
      <4>1. m \in 1..(Len(sorted) - 1) /\ ~(m >= k)
        BY <1>2, <1>4, <3>4
      <4> QED BY <2>1, <3>2, <4>1
    <3>5. CASE m > k
      <4>1. m - 1 \in 1..(Len(sorted) - 1) /\ ~(m - 1 < k) /\ (m - 1) + 1 = m
        BY <1>2, <1>4, <3>5
      <4> QED BY <2>1, <3>2, <4>1
    <3> QED BY <1>2, <1>4, <3>3, <3>4, <3>5
  <2> QED BY <1>6, <2>6, <2>7, <2>8 DEF IndexMatchesRules, Registered, RegisteredIn
<1> QED
  BY <1>5, <1>7, <1>8 DEF RulesInv

\* The table is sound at first.
LEMMA RulesInitInv == RulesInit => RulesInv
<1> SUFFICES ASSUME RulesInit PROVE RulesInv
  OBVIOUS
<1> QED
  BY Empty, RulesAssumption DEF RulesInit

\* Every command on the rules keeps the table sound.
LEMMA RuleCommandStep ==
  ASSUME RulesInv, RuleCommand
  PROVE  RulesInv'
<1>0. active \in [RuleIds -> BOOLEAN] /\ maxLevels \in MultiLevels /\ undef \in BOOLEAN
  BY RulesInvFacts
<1>1. CASE ClearAllRule
  BY <1>0, <1>1, NoRulesStep DEF ClearAllRule
<1>2. CASE InitializeRules
  BY <1>0, <1>2, NoRulesStep, RulesAssumption DEF InitializeRules
<1>3. ASSUME NEW id \in RuleIds, NEW s \in Settings, NEW isActive \in BOOLEAN,
             RegisterRule(id, s, isActive)
      PROVE  RulesInv'
  BY <1>3, RegisterStep
<1>4. ASSUME NEW id \in RuleIds, DeleteRule(id) PROVE RulesInv'
  BY <1>4, DeleteStep
<1>5. ASSUME NEW op \in Ops, NEW ids, Operate(op, ids), UNCHANGED undef PROVE RulesInv'
  <2>1. active' \in [RuleIds -> BOOLEAN]
    BY <1>0, <1>5 DEF Operate
  <2>2. UNCHANGED <<setting, sorted, maxLevels>>
    BY <1>5 DEF Operate
  <2> QED BY <1>0, <1>5, <2>1, <2>2, SameTable
<1>6. ASSUME NEW op \in Ops, NEW id \in RuleIds, NEW multiLevel \in BOOLEAN,
             OperateRule(op, id, multiLevel)
      PROVE  RulesInv'
  <2> DEFINE ids == IF multiLevel THEN Chain(id) ELSE {id}
  <2>1. Operate(op, ids) /\ UNCHANGED undef
    BY <1>6 DEF OperateRule
  <2> HIDE DEF ids
  <2> QED BY <1>5, <2>1
<1>7. ASSUME NEW op \in Ops, NEW found \in 1..Len(sorted), NEW multiLevel \in BOOLEAN,
             OperateGroup(op, found, multiLevel)
      PROVE  RulesInv'
  <2> DEFINE all == {sorted[k].id : k \in GroupRun(found)}
             ids == IF multiLevel THEN UNION {Chain(id) : id \in all} ELSE all
  <2>1. Operate(op, ids) /\ UNCHANGED undef
    BY <1>7 DEF OperateGroup
  <2> HIDE DEF ids
  <2> QED BY <1>5, <2>1
<1>8. ASSUME NEW found \in 1..Len(sorted), OperateGroupOutside(found) PROVE RulesInv'
  BY <1>0, <1>8, SameTable DEF OperateGroupOutside
<1>9. ASSUME NEW id \in RuleIds, NEW n \in CounterValues, SetRuleCounter(id, n) PROVE RulesInv'
  BY <1>0, <1>9, SameTable DEF SetRuleCounter
<1>10. ASSUME NEW s \in Settings, ClearRuleCounterByEvent(s, s.level) PROVE RulesInv'
  BY <1>0, <1>10, SameTable DEF ClearRuleCounterByEvent
<1>11. ASSUME NEW n \in MultiLevels, SetMaxMultiLevelNum(n) PROVE RulesInv'
  BY <1>0, <1>11, SameTable DEF SetMaxMultiLevelNum
<1> QED
  BY <1>1, <1>2, <1>3, <1>4, <1>6, <1>7, <1>8, <1>9, <1>10, <1>11 DEF RuleCommand

\* Every step of the rules keeps the table sound.
LEMMA RulesNextStep == RulesInv /\ [RulesNext]_ruleVars => RulesInv'
<1> SUFFICES ASSUME RulesInv, [RulesNext]_ruleVars PROVE RulesInv'
  OBVIOUS
<1>1. CASE UNCHANGED ruleVars
  BY <1>1, RulesInvFacts, SameTable DEF ruleVars
<1> QED
  BY <1>1, RuleCommandStep DEF RulesNext

\* No command gives a counter another value.
LEMMA CountersNextStep == CountersTyped /\ [RulesNext]_ruleVars => CountersTyped'
<1> SUFFICES ASSUME CountersTyped, [RulesNext]_ruleVars PROVE CountersTyped'
  OBVIOUS
<1>1. counter \in [RuleIds -> CounterValues] /\ 0 \in CounterValues
  BY RulesAssumption DEF CountersTyped
<1>2. CASE counter' = counter
  BY <1>2 DEF CountersTyped
<1>3. CASE counter' = [id \in RuleIds |-> 0]
  BY <1>1, <1>3 DEF CountersTyped
<1>4. CASE \E id \in RuleIds, n \in CounterValues : counter' = [counter EXCEPT ![id] = n]
  BY <1>1, <1>4 DEF CountersTyped
<1>5. ASSUME NEW op \in Ops, NEW ids, Operate(op, ids) PROVE CountersTyped'
  BY <1>1, <1>5 DEF Operate, CountersTyped
<1>6. ASSUME NEW s \in Settings, ClearRuleCounterByEvent(s, s.level) PROVE CountersTyped'
  BY <1>1, <1>6 DEF ClearRuleCounterByEvent, CountersTyped
<1>7. \/ counter' = counter \/ counter' = [id \in RuleIds |-> 0]
      \/ \E id \in RuleIds, n \in CounterValues : counter' = [counter EXCEPT ![id] = n]
      \/ \E op \in Ops : \E ids : Operate(op, ids)
      \/ \E s \in Settings : ClearRuleCounterByEvent(s, s.level)
  BY <1>1 DEF RulesNext, RuleCommand, ruleVars, ClearAllRule, InitializeRules, NoRules, RegisterRule,
              DeleteRule, OperateRule, OperateGroup, OperateGroupOutside, SetRuleCounter, SetMaxMultiLevelNum
<1> QED BY <1>2, <1>3, <1>4, <1>5, <1>6, <1>7
-----------------------------------------------------------------------------
\* The inductive invariant of the rule table.
THEOREM RulesInvariance == RulesSpec => []RulesInv
<1> QED
  BY RulesInitInv, RulesNextStep, PTL DEF RulesSpec

\* Ascending and grounded, the neighbours are in order and the duplicates without a gap.
LEMMA SortedFromAscending ==
  ASSUME RulesInv
  PROVE  IndexIsSorted
<1>1. /\ Len(sorted) \in Nat
      /\ \A i \in 1..Len(sorted) : IsEvent(sorted[i]) /\ sorted[i].dup \in Nat
  BY RulesInvFacts, EntriesOf
<1>2. ASSUME NEW i \in 1..(Len(sorted) - 1)
      PROVE  \/ EventBefore(sorted[i], sorted[i + 1]) /\ sorted[i + 1].dup = 0
             \/ SameEvent(sorted[i], sorted[i + 1]) /\ sorted[i + 1].dup = sorted[i].dup + 1
  <2>1. /\ i \in 1..Len(sorted) /\ i + 1 \in 1..Len(sorted) /\ i < i + 1 /\ (i + 1) - 1 = i /\ (i + 1) - i = 1
        /\ IsEvent(sorted[i]) /\ IsEvent(sorted[i + 1])
        /\ sorted[i].dup \in Nat /\ sorted[i + 1].dup \in Nat
    <3>1. i \in 1..Len(sorted) /\ i + 1 \in 1..Len(sorted) /\ i < i + 1 /\ (i + 1) - 1 = i /\ (i + 1) - i = 1
      BY <1>1
    <3> QED BY <1>1, <3>1
  <2>2. \/ EventBefore(sorted[i], sorted[i + 1])
        \/ SameEvent(sorted[i], sorted[i + 1]) /\ sorted[i + 1].dup = sorted[i].dup + ((i + 1) - i)
    BY <2>1 DEF RulesInv, Ascending
  <2>3. sorted[i + 1].dup > 0 => SameEvent(sorted[i], sorted[i + 1])
    <3>1. sorted[i + 1].dup > 0 => SameEvent(sorted[(i + 1) - 1], sorted[i + 1])
      BY <2>1 DEF RulesInv, Grounded
    <3> QED BY <2>1, <3>1
  <2>4. CASE EventBefore(sorted[i], sorted[i + 1])
    <3>1. ~(sorted[i + 1].dup > 0)
      BY <2>1, <2>3, <2>4, EventOrder
    <3>2. \A d \in Nat : ~(d > 0) => d = 0
      OBVIOUS
    <3> QED BY <2>1, <2>4, <3>1, <3>2
  <2>5. CASE SameEvent(sorted[i], sorted[i + 1]) /\ sorted[i + 1].dup = sorted[i].dup + ((i + 1) - i)
    BY <2>1, <2>5
  <2> QED BY <2>2, <2>4, <2>5
<1>3. sorted # <<>> => sorted[1].dup = 0
  <2> SUFFICES ASSUME sorted # <<>> PROVE sorted[1].dup = 0
    OBVIOUS
  <2>1. 1 \in 1..Len(sorted)
    BY RulesInvFacts, EmptySeq
  <2>2. ~(sorted[1].dup > 0)
    BY <2>1 DEF RulesInv, Grounded
  <2>3. \A d \in Nat : ~(d > 0) => d = 0
    OBVIOUS
  <2> QED BY <1>1, <2>1, <2>2, <2>3
<1> QED
  BY <1>2, <1>3 DEF IndexIsSorted

\* event_handler.c:1028, 1091: however rules are registered, deleted and initialized, the table
\* and its index agree, the index is sorted, and the duplicates of an event have no gap.
THEOREM TheRuleTableIsSound == RulesSpec => []RuleTableIsSound
<1>1. RulesInv /\ CountersTyped => RuleTableIsSound
  BY SortedFromAscending DEF RulesInv, TableTypeOK, CountersTyped, RulesTypeOK, IndexEntry, RuleTableIsSound
<1>2. RulesInit => CountersTyped
  BY RulesAssumption DEF RulesInit, CountersTyped
<1>3. CountersTyped /\ [RulesNext]_ruleVars => CountersTyped'
  BY CountersNextStep
<1> QED
  BY <1>1, <1>2, <1>3, RulesInvariance, PTL DEF RulesSpec
-----------------------------------------------------------------------------
(***************************************************************************)
(* The searches of the index.                                              *)
(***************************************************************************)
\* The entries of an event: n of them from the first place on, everything before them is of earlier
\* events, everything behind of later ones.
RunOf(f, first, n) ==
    /\ n \in 0..MaxDuplicates /\ first \in 1..(Len(sorted) + 1) /\ first + n <= Len(sorted) + 1
    /\ \A i \in 1..Len(sorted) :
          /\ i < first => EventBefore(sorted[i], f)
          /\ first <= i /\ i < first + n => SameEvent(sorted[i], f) /\ sorted[i].dup = i - first
          /\ first + n <= i => EventBefore(f, sorted[i])

IsKnownEvent(f) == f.group \in Groups /\ f.local \in Locals

\* Every event has its run in the index, which may be empty.
LEMMA RunExists ==
  ASSUME RulesInv, NEW f, IsKnownEvent(f)
  PROVE  \E n \in 0..MaxDuplicates : RunOf(f, FirstNotBefore(f), n)
<1> DEFINE F == FirstNotBefore(f)
           M(k) == F + k <= Len(sorted) /\ SameEvent(sorted[F + k], f)
           S == {n \in Nat : ~M(n)}
           e == Entry(f.group, f.local, 0, 0)
<1>1. sorted \in Seq(IndexEntry) /\ Len(sorted) \in Nat /\ Ascending(sorted) /\ Grounded(sorted)
  BY RulesInvFacts DEF RulesInv
<1>2. /\ F \in 1..(Len(sorted) + 1)
      /\ F <= Len(sorted) => ~EventBefore(sorted[F], f)
      /\ \A k \in 1..(F - 1) : EventBefore(sorted[k], f)
  BY <1>1, FirstNotBeforeFacts
<1> HIDE DEF F
<1>3. S \in SUBSET Nat /\ Len(sorted) + 1 \in S
  BY <1>1, <1>2
<1>4. Min(S) \in S /\ \A x \in S : Min(S) <= x
  <2> HIDE DEF S
  <2> QED BY <1>3, MinOfNats
<1> DEFINE n == Min(S)
<1>5. n \in Nat /\ ~M(n) /\ \A k \in 0..(n - 1) : M(k)
  <2>1. n \in Nat /\ ~M(n)
    BY <1>4
  <2>2. ASSUME NEW k \in 0..(n - 1) PROVE M(k)
    <3>1. k \in Nat /\ ~(n <= k)
      BY <2>1
    <3>2. k \notin S
      BY <1>4, <3>1
    <3> QED BY <3>1, <3>2
  <2> QED BY <2>1, <2>2
<1> HIDE DEF S, n
<1>6. F + n <= Len(sorted) + 1
  <2>1. CASE n = 0
    BY <1>1, <1>2, <2>1
  <2>2. CASE n # 0
    <3>1. n - 1 \in 0..(n - 1)
      BY <1>5, <2>2
    <3>2. F + (n - 1) <= Len(sorted)
      BY <1>5, <3>1
    <3> QED BY <1>1, <1>2, <1>5, <3>2
  <2> QED BY <2>1, <2>2
<1>7. /\ e \in IndexEntry /\ SameEvent(e, f) /\ IsEvent(e) /\ IsEvent(f)
      /\ \A x : (EventBefore(x, e) <=> EventBefore(x, f)) /\ (SameEvent(x, e) <=> SameEvent(x, f))
                /\ (EventBefore(e, x) <=> EventBefore(f, x))
  <2>1. 0 \in RuleIds /\ 0 \in 0..(MaxDuplicates - 1)
    BY RulesAssumption DEF RuleIds
  <2>2. e.group = f.group /\ e.local = f.local
    BY DEF Entry
  <2>3. f.group \in Nat /\ f.local \in Nat
    BY RulesAssumption DEF IsKnownEvent
  <2>4. e \in IndexEntry
    BY <2>1 DEF Entry, IndexEntry, IsKnownEvent
  <2> HIDE DEF e
  <2> QED BY <2>2, <2>3, <2>4 DEF SameEvent, EventBefore, IsEvent
<1> HIDE DEF e
<1>8. InsertionPlace(sorted, e, F, n)
  <2>1. F + n > Len(sorted) \/ ~SameEvent(sorted[F + n], e)
    BY <1>1, <1>2, <1>5, <1>7
  <2> QED BY <1>2, <1>5, <1>6, <1>7, <2>1 DEF InsertionPlace
<1>9. \A i \in 1..(F + n - 1) :
         EventBefore(sorted[i], e) \/ (SameEvent(sorted[i], e) /\ sorted[i].dup = i - F)
  BY <1>1, <1>7, <1>8, BeforeTheInsertion
<1>10. \A j \in (F + n)..Len(sorted) : EventBefore(e, sorted[j])
  BY <1>1, <1>7, <1>8, BehindTheInsertion
<1>11. ASSUME NEW i \in 1..Len(sorted)
       PROVE  /\ i < F => EventBefore(sorted[i], f)
              /\ F <= i /\ i < F + n => SameEvent(sorted[i], f) /\ sorted[i].dup = i - F
              /\ F + n <= i => EventBefore(f, sorted[i])
  <2>1. i < F => EventBefore(sorted[i], f)
    BY <1>1, <1>2
  <2>2. F + n <= i => EventBefore(f, sorted[i])
    BY <1>1, <1>2, <1>5, <1>7, <1>10
  <2>3. ASSUME F <= i, i < F + n PROVE SameEvent(sorted[i], f) /\ sorted[i].dup = i - F
    <3>1. i - F \in 0..(n - 1) /\ F + (i - F) = i /\ i \in 1..(F + n - 1)
      BY <1>1, <1>2, <1>5, <2>3
    <3>2. SameEvent(sorted[i], f)
      BY <1>5, <3>1
    <3>3. IsEvent(sorted[i])
      BY <1>1, EntriesOf
    <3>4. ~EventBefore(sorted[i], e)
      BY <1>7, <3>2, <3>3, EventOrder
    <3> QED BY <1>9, <3>1, <3>2, <3>4
  <2> QED BY <2>1, <2>2, <2>3
<1>12. n \in 0..MaxDuplicates
  <2>1. CASE n = 0
    BY <2>1, RulesAssumption
  <2>2. CASE n # 0
    <3>1. F + (n - 1) \in 1..Len(sorted) /\ F <= F + (n - 1) /\ F + (n - 1) < F + n /\ (F + (n - 1)) - F = n - 1
      BY <1>1, <1>2, <1>5, <1>6, <2>2
    <3>2. sorted[F + (n - 1)].dup = n - 1
      BY <1>11, <3>1
    <3>3. sorted[F + (n - 1)].dup < MaxDuplicates
      BY <1>1, <3>1, EntriesOf, EntryFields
    <3> QED BY <1>5, <3>2, <3>3, RulesAssumption
  <2> QED BY <2>1, <2>2
<1>13. RunOf(f, F, n)
  BY <1>2, <1>6, <1>11, <1>12 DEF RunOf
<1> QED
  BY <1>12, <1>13 DEF F

\* The run of an event, seen from any place.
LEMMA RunSides ==
  ASSUME RulesInv, NEW f, IsKnownEvent(f), NEW first, NEW n, RunOf(f, first, n)
  PROVE  /\ n \in Nat /\ first \in Nat /\ first >= 1 /\ Len(sorted) \in Nat
         /\ \A i \in 1..Len(sorted) :
               /\ SameEvent(f, sorted[i]) <=> first <= i /\ i < first + n
               /\ SameEvent(sorted[i], f) <=> first <= i /\ i < first + n
               /\ EventBefore(sorted[i], f) <=> i < first
               /\ EventBefore(f, sorted[i]) <=> first + n <= i
               /\ SameEvent(f, sorted[i]) => sorted[i].dup = i - first
<1>1. /\ n \in Nat /\ first \in Nat /\ first >= 1 /\ Len(sorted) \in Nat
      /\ IsEvent(f) /\ \A i \in 1..Len(sorted) : IsEvent(sorted[i])
  <2>1. Len(sorted) \in Nat
    BY RulesInvFacts
  <2>2. n \in Nat /\ first \in Nat /\ first >= 1
    BY <2>1, RulesAssumption DEF RunOf
  <2>3. IsEvent(f)
    BY RulesAssumption DEF IsKnownEvent, IsEvent
  <2> QED BY <2>1, <2>2, <2>3, RulesInvFacts, EntriesOf
<1>2. ASSUME NEW i \in 1..Len(sorted)
      PROVE  /\ SameEvent(f, sorted[i]) <=> first <= i /\ i < first + n
             /\ SameEvent(sorted[i], f) <=> first <= i /\ i < first + n
             /\ EventBefore(sorted[i], f) <=> i < first
             /\ EventBefore(f, sorted[i]) <=> first + n <= i
             /\ SameEvent(f, sorted[i]) => sorted[i].dup = i - first
  <2>1. /\ i < first => EventBefore(sorted[i], f)
        /\ first <= i /\ i < first + n => SameEvent(sorted[i], f) /\ sorted[i].dup = i - first
        /\ first + n <= i => EventBefore(f, sorted[i])
    BY DEF RunOf
  <2>2. /\ ~(EventBefore(sorted[i], f) /\ SameEvent(sorted[i], f))
        /\ ~(EventBefore(f, sorted[i]) /\ SameEvent(f, sorted[i]))
        /\ ~(EventBefore(f, sorted[i]) /\ EventBefore(sorted[i], f))
        /\ SameEvent(f, sorted[i]) <=> SameEvent(sorted[i], f)
    BY <1>1, EventOrder
  <2>3. i \in Nat
    BY <1>1
  <2> QED BY <1>1, <2>1, <2>2, <2>3
<1> QED
  BY <1>1, <1>2

\* What the comparison of the search says of the entry at a place.
LEMMA CompareMeans ==
  ASSUME RulesInv, NEW f, IsKnownEvent(f), NEW first, NEW n, RunOf(f, first, n), NEW i \in 1..Len(sorted)
  PROVE  /\ Compare(f, sorted[i]) = "here" <=> n > 0 /\ i = first
         /\ Compare(f, sorted[i]) = "before" <=> ((n > 0 /\ i > first) \/ (n = 0 /\ i >= first))
         /\ Compare(f, sorted[i]) = "behind" <=> i < first
<1>1. /\ n \in Nat /\ first \in Nat /\ i \in Nat
      /\ SameEvent(f, sorted[i]) <=> first <= i /\ i < first + n
      /\ EventBefore(sorted[i], f) <=> i < first
      /\ EventBefore(f, sorted[i]) <=> first + n <= i
      /\ SameEvent(f, sorted[i]) => sorted[i].dup = i - first
  BY RunSides
<1>2. IsEvent(f) /\ IsEvent(sorted[i])
  BY RulesInvFacts, EntriesOf, RulesAssumption DEF IsKnownEvent, IsEvent
<1>3. /\ Compare(f, sorted[i]) = "here" <=> SameEvent(f, sorted[i]) /\ sorted[i].dup = 0
      /\ Compare(f, sorted[i]) = "behind" <=> ~SameEvent(f, sorted[i]) /\ EventBefore(sorted[i], f)
      /\ Compare(f, sorted[i]) = "before" <=>
            \/ SameEvent(f, sorted[i]) /\ sorted[i].dup # 0
            \/ ~SameEvent(f, sorted[i]) /\ ~EventBefore(sorted[i], f)
  <2>1. SameEvent(f, sorted[i]) <=> SameEvent(sorted[i], f)
    BY <1>2, EventOrder
  <2> QED BY <2>1 DEF Compare
<1> QED BY <1>1, <1>3
-----------------------------------------------------------------------------
\* What bsearch finds out about each entry.
Verdicts(f) == [m \in 1..Len(sorted) |-> Compare(f, sorted[m])]

\* The recursion of bsearch.
LEMMA SearchHalves ==
  ASSUME Len(sorted) \in Nat, NEW f
  PROVE  \E find : BinarySearch(f) = find[<<1, Len(sorted) + 1>>] /\ Halving(Len(sorted), Verdicts(f), find)
<1> DEFINE L == Len(sorted)
           v == Verdicts(f)
           D == Intervals(L)
           Body(g) == [at \in D |->
                         IF at[1] >= at[2] THEN 0
                         ELSE IF Compare(f, sorted[Middle(at)]) = "here" THEN Middle(at)
                         ELSE IF Compare(f, sorted[Middle(at)]) = "before" THEN g[<<at[1], Middle(at)>>]
                         ELSE g[<<Middle(at) + 1, at[2]>>]]
           find == CHOOSE g : g = Body(g)
<1>1. BinarySearch(f) = find[<<1, L + 1>>]
  BY DEF BinarySearch, Intervals, Middle
<1>2. ASSUME NEW at \in D, ~(at[1] >= at[2]) PROVE v[Middle(at)] = Compare(f, sorted[Middle(at)])
  <2>1. Middle(at) \in 1..L
    BY <1>2, IntervalFacts, Halves
  <2> QED BY <2>1 DEF Verdicts
<1> HIDE DEF v, D
<1>3. PICK g \in [D -> 0..L] : Halving(L, v, g)
  BY HalvingExists DEF D
<1>4. g = Body(g)
  <2>1. \A at \in D : g[at] = Body(g)[at]
    BY <1>2, <1>3 DEF Halving, D
  <2> HIDE DEF Body
  <2>2. DOMAIN Body(g) = D /\ Body(g) = [at \in D |-> Body(g)[at]]
    BY DEF Body
  <2> QED BY <2>1, <2>2
<1>5. find = Body(find)
  <2> HIDE DEF Body
  <2> QED BY <1>4
<1> HIDE DEF find
<1>6. Halving(L, v, find)
  BY <1>2, <1>5 DEF Halving, D
<1> QED BY <1>1, <1>6 DEF v

\* bsearch stays inside of the index, whatever event it looks for.
LEMMA SearchInside ==
  ASSUME Len(sorted) \in Nat, NEW f
  PROVE  BinarySearch(f) \in 0..Len(sorted)
BY SearchHalves, HalvingInside

\* bsearch finds the first entry of the event.
LEMMA BinarySearchFinds ==
  ASSUME RulesInv, NEW f, IsKnownEvent(f), NEW first, NEW n, RunOf(f, first, n)
  PROVE  BinarySearch(f) = IF n = 0 THEN 0 ELSE first
<1> DEFINE L == Len(sorted)
           v == Verdicts(f)
           here == n > 0
<1>1. L \in Nat
  BY RulesInvFacts
<1>2. PICK find : BinarySearch(f) = find[<<1, L + 1>>] /\ Halving(L, v, find)
  BY <1>1, SearchHalves
<1>3. n \in Nat /\ first \in 1..(L + 1) /\ (here => first <= L)
  BY <1>1, RunSides DEF RunOf
<1>4. \A m \in 1..L : /\ v[m] = "here" <=> here /\ m = first
                      /\ v[m] = "before" <=> (here /\ m > first) \/ (~here /\ m >= first)
  <2> SUFFICES ASSUME NEW m \in 1..L
               PROVE  /\ v[m] = "here" <=> here /\ m = first
                      /\ v[m] = "before" <=> (here /\ m > first) \/ (~here /\ m >= first)
    OBVIOUS
  <2>1. v[m] = Compare(f, sorted[m])
    BY DEF Verdicts
  <2>2. /\ Compare(f, sorted[m]) = "here" <=> n > 0 /\ m = first
        /\ Compare(f, sorted[m]) = "before" <=> ((n > 0 /\ m > first) \/ (n = 0 /\ m >= first))
    BY CompareMeans
  <2> HIDE DEF v
  <2> QED BY <1>3, <2>1, <2>2
<1> HIDE DEF v
<1>5. here \in BOOLEAN
  OBVIOUS
<1>6. find[<<1, L + 1>>] = IF here THEN first ELSE 0
  <2> HIDE DEF here, L
  <2> QED BY <1>1, <1>2, <1>3, <1>4, <1>5, HalvingFinds
<1> QED BY <1>2, <1>3, <1>6

\* The rules of a run, one after another.
IdsOf(first, n) == [k \in 1..n |-> sorted[first + k - 1].id]

\* event_handler.c:776: a search by event finds the run of the event.
LEMMA RulesForRun ==
  ASSUME RulesInv, NEW f, IsKnownEvent(f), NEW first, NEW n, RunOf(f, first, n)
  PROVE  RulesFor(f) = IdsOf(first, n)
<1>1. BinarySearch(f) = IF n = 0 THEN 0 ELSE first
  BY BinarySearchFinds
<1>2. /\ n \in Nat /\ first \in Nat /\ first >= 1 /\ Len(sorted) \in Nat /\ n \in 0..MaxDuplicates
      /\ first + n <= Len(sorted) + 1
      /\ \A i \in 1..Len(sorted) : SameEvent(sorted[i], f) <=> first <= i /\ i < first + n
  BY RunSides DEF RunOf
<1>3. CASE n = 0
  <2>1. RulesFor(f) = <<>>
    BY <1>1, <1>3 DEF RulesFor
  <2>2. IdsOf(first, n) = <<>>
    BY <1>3 DEF IdsOf
  <2> QED BY <2>1, <2>2
<1>4. CASE n # 0
  <2> DEFINE run == {m \in 0..MaxDuplicates :
                       /\ m <= Len(sorted) - first + 1
                       /\ \A k \in 0..(m - 1) : SameEvent(sorted[first + k], f)}
             length == CHOOSE m \in run : \A other \in run : other <= m
  <2>1. RulesFor(f) = [k \in 1..length |-> sorted[first + k - 1].id]
    <3>1. BinarySearch(f) = first /\ first # 0
      BY <1>1, <1>2, <1>4
    <3> QED BY <3>1 DEF RulesFor
  <2>2. n \in run
    <3>1. \A k \in 0..(n - 1) : SameEvent(sorted[first + k], f)
      <4> SUFFICES ASSUME NEW k \in 0..(n - 1) PROVE SameEvent(sorted[first + k], f)
        OBVIOUS
      <4>1. first + k \in 1..Len(sorted) /\ first <= first + k /\ first + k < first + n
        BY <1>2
      <4> QED BY <1>2, <4>1
    <3>2. n <= Len(sorted) - first + 1
      BY <1>2
    <3> QED BY <1>2, <3>1, <3>2
  <2>3. \A m \in run : m <= n
    <3> SUFFICES ASSUME NEW m \in run, m > n PROVE FALSE
      BY <1>2, RulesAssumption
    <3>1. n \in 0..(m - 1) /\ m \in Nat /\ m <= Len(sorted) - first + 1
      BY <1>2, RulesAssumption
    <3>2. SameEvent(sorted[first + n], f)
      BY <3>1
    <3>3. first + n \in 1..Len(sorted) /\ ~(first + n < first + n)
      BY <1>2, <3>1
    <3> QED BY <1>2, <3>2, <3>3
  <2>4. run \subseteq Nat
    BY RulesAssumption
  <2> HIDE DEF run
  <2>5. length \in run /\ \A other \in run : other <= length
    BY <2>2, <2>3
  <2>6. length = n
    <3> HIDE DEF length
    <3>1. length \in Nat /\ length <= n /\ n <= length
      BY <2>2, <2>3, <2>4, <2>5
    <3> QED BY <1>2, <3>1
  <2> QED BY <2>1, <2>6 DEF IdsOf
<1> QED BY <1>3, <1>4

\* The entries of the run are those of the event.
LEMMA EntriesForRun ==
  ASSUME RulesInv, NEW f, IsKnownEvent(f), NEW first, NEW n, RunOf(f, first, n)
  PROVE  EntriesFor(EventOf(f)) = first..(first + n - 1)
<1>1. /\ n \in Nat /\ first \in Nat /\ first >= 1 /\ Len(sorted) \in Nat
      /\ first + n <= Len(sorted) + 1
      /\ \A i \in 1..Len(sorted) : SameEvent(sorted[i], f) <=> first <= i /\ i < first + n
  BY RunSides DEF RunOf
<1>2. \A i \in 1..Len(sorted) : EventOf(sorted[i]) = EventOf(f) <=> SameEvent(sorted[i], f)
  BY DEF EventOf, SameEvent
<1>3. EntriesFor(EventOf(f)) = {i \in 1..Len(sorted) : first <= i /\ i < first + n}
  BY <1>1, <1>2 DEF EntriesFor
<1> QED BY <1>1, <1>3

\* The n-th place of an interval.
LEMMA NthOfInterval ==
  ASSUME NEW a \in Nat, NEW m \in Nat, NEW k \in 1..m
  PROVE  Cardinality(a..(a + m - 1)) = m /\ Nth(a..(a + m - 1), k) = a + k - 1
<1> DEFINE places == a..(a + m - 1)
<1>1. Cardinality(places) = m
  <2>1. a + m - 1 \in Int /\ a \in Int
    OBVIOUS
  <2>2. Cardinality(places) = IF a > a + m - 1 THEN 0 ELSE (a + m - 1) - a + 1
    BY <2>1, FS_Interval
  <2> QED BY <2>2
<1>2. \A i \in places : Cardinality({j \in places : j < i}) = i - a
  <2> SUFFICES ASSUME NEW i \in places PROVE Cardinality({j \in places : j < i}) = i - a
    OBVIOUS
  <2>1. {j \in places : j < i} = a..(i - 1)
    OBVIOUS
  <2>2. Cardinality(a..(i - 1)) = IF a > i - 1 THEN 0 ELSE (i - 1) - a + 1
    <3>1. a \in Int /\ i - 1 \in Int
      OBVIOUS
    <3> QED BY <3>1, FS_Interval
  <2>3. i \in Int /\ a <= i
    OBVIOUS
  <2>4. Cardinality(a..(i - 1)) = i - a
    BY <2>2, <2>3
  <2> HIDE DEF places
  <2> QED BY <2>1, <2>4
<1>3. a + k - 1 \in places /\ (a + k - 1) - a = k - 1 /\ \A i \in places : i - a = k - 1 => i = a + k - 1
  OBVIOUS
<1> HIDE DEF places
<1>4. Nth(places, k) \in places /\ Cardinality({j \in places : j < Nth(places, k)}) = k - 1
  <2>1. \E i \in places : Cardinality({j \in places : j < i}) = k - 1
    BY <1>2, <1>3
  <2> QED BY <2>1 DEF Nth
<1>5. Nth(places, k) - a = k - 1
  BY <1>2, <1>4
<1> QED
  BY <1>1, <1>3, <1>4, <1>5 DEF places

\* The list of an event is its run.
LEMMA WaitingRun ==
  ASSUME RulesInv, NEW f, IsKnownEvent(f), NEW first, NEW n, RunOf(f, first, n)
  PROVE  IdsAt(EntriesFor(EventOf(f))) = IdsOf(first, n)
<1>1. EntriesFor(EventOf(f)) = first..(first + n - 1) /\ n \in Nat /\ first \in Nat
  BY EntriesForRun, RunSides
<1> DEFINE places == first..(first + n - 1)
<1>2. Cardinality(places) = n
  <2>1. CASE n = 0
    <3>1. places = {}
      BY <1>1, <2>1
    <3> HIDE DEF places
    <3> QED BY <2>1, <3>1, FS_EmptySet
  <2>2. CASE n # 0
    <3>1. 1 \in 1..n
      BY <1>1, <2>2
    <3> QED BY <1>1, <3>1, NthOfInterval
  <2> QED BY <2>1, <2>2
<1>3. \A k \in 1..n : Nth(places, k) = first + k - 1
  BY <1>1, NthOfInterval
<1> HIDE DEF places
<1>4. IdsAt(places) = [k \in 1..n |-> sorted[first + k - 1].id]
  BY <1>2, <1>3 DEF IdsAt
<1> QED
  BY <1>1, <1>4 DEF IdsOf, places

\* A search by event finds the list of the event.
LEMMA SearchByEvent ==
  ASSUME RulesInv
  PROVE  SearchFindsTheRules
<1> SUFFICES ASSUME NEW s \in Settings PROVE RulesFor(s) = Waiting[EventOf(s)]
  BY DEF SearchFindsTheRules
<1>1. IsKnownEvent(s)
  BY RulesAssumption DEF IsKnownEvent
<1>2. PICK n \in 0..MaxDuplicates : RunOf(s, FirstNotBefore(s), n)
  BY <1>1, RunExists
<1>3. RulesFor(s) = IdsOf(FirstNotBefore(s), n)
  BY <1>1, <1>2, RulesForRun
<1>4. IdsAt(EntriesFor(EventOf(s))) = IdsOf(FirstNotBefore(s), n)
  BY <1>1, <1>2, WaitingRun
<1>5. Waiting[EventOf(s)] = IdsAt(EntriesFor(EventOf(s)))
  BY DEF Waiting
<1> QED
  BY <1>3, <1>4, <1>5

\* The groups in the index come one after another.
LEMMA GroupsAscend ==
  ASSUME RulesInv, NEW i \in 1..Len(sorted), NEW j \in 1..Len(sorted), i <= j
  PROVE  sorted[i].group <= sorted[j].group /\ sorted[i].group \in Nat /\ sorted[j].group \in Nat
<1>1. IsEvent(sorted[i]) /\ IsEvent(sorted[j])
  BY RulesInvFacts, EntriesOf
<1>2. CASE i = j
  BY <1>1, <1>2 DEF IsEvent
<1>3. CASE i < j
  <2>1. EventBefore(sorted[i], sorted[j]) \/ SameEvent(sorted[i], sorted[j])
    BY <1>3 DEF RulesInv, Ascending
  <2> QED BY <1>1, <2>1 DEF IsEvent, EventBefore, SameEvent
<1>4. i \in Nat /\ j \in Nat
  BY RulesInvFacts
<1> QED BY <1>2, <1>3, <1>4

\* The first entry of the group of an entry.
LEMMA GroupFirstFacts ==
  ASSUME RulesInv, NEW found \in 1..Len(sorted)
  PROVE  /\ GroupFirst(found) \in 1..found
         /\ \A k \in GroupFirst(found)..found : sorted[k].group = sorted[found].group
         /\ GroupFirst(found) > 1 => sorted[GroupFirst(found) - 1].group # sorted[found].group
<1> DEFINE g == sorted[found].group
           S == {i \in 1..found : \A k \in i..found : sorted[k].group = g}
           Goal(i) == /\ \A k \in i..found : sorted[k].group = g
                      /\ i > 1 => sorted[i - 1].group # g
<1>1. found \in Nat /\ Len(sorted) \in Nat
  BY RulesInvFacts
<1>2. S \in SUBSET Nat /\ found \in S
  BY <1>1
<1>3. Min(S) \in S /\ \A x \in S : Min(S) <= x
  <2> HIDE DEF S
  <2> QED BY <1>2, MinOfNats
<1>4. Goal(Min(S))
  <2> DEFINE i == Min(S)
  <2>1. i \in 1..found /\ \A k \in i..found : sorted[k].group = g
    BY <1>3
  <2>2. ASSUME i > 1, sorted[i - 1].group = g PROVE FALSE
    <3>1. i - 1 \in 1..found /\ ~(i <= i - 1)
      BY <1>1, <2>1, <2>2
    <3>2. \A k \in (i - 1)..found : k = i - 1 \/ k \in i..found
      BY <1>1, <2>1
    <3>3. i - 1 \in S
      BY <2>1, <2>2, <3>1, <3>2
    <3> QED BY <1>3, <3>1, <3>3
  <2> QED BY <2>1, <2>2
<1>5. \E i \in 1..found : Goal(i)
  BY <1>3, <1>4
<1>6. GroupFirst(found) = CHOOSE i \in 1..found : Goal(i)
  BY DEF GroupFirst
<1>7. GroupFirst(found) \in 1..found /\ Goal(GroupFirst(found))
  <2> HIDE DEF Goal
  <2> QED BY <1>5, <1>6
<1> QED
  BY <1>7

\* event_handler.c:867, 877: a search by group finds all entries of the group.
LEMMA GroupRunIsTheGroup ==
  ASSUME RulesInv, NEW found \in 1..Len(sorted), NEW k \in 1..Len(sorted)
  PROVE  k \in GroupRun(found) <=> sorted[k].group = sorted[found].group
<1> DEFINE a == GroupFirst(found)
<1>1. /\ a \in 1..found /\ \A m \in a..found : sorted[m].group = sorted[found].group
      /\ a > 1 => sorted[a - 1].group # sorted[found].group
      /\ found \in Nat /\ k \in Nat /\ Len(sorted) \in Nat /\ found <= Len(sorted) /\ k <= Len(sorted)
  BY GroupFirstFacts, RulesInvFacts
<1>2. k \in GroupRun(found) <=> k >= a /\ \A m \in a..k : sorted[m].group = sorted[found].group
  BY DEF GroupRun
<1> HIDE DEF a
<1>3. k \in GroupRun(found) => sorted[k].group = sorted[found].group
  BY <1>1, <1>2
<1>4. ASSUME sorted[k].group = sorted[found].group PROVE k \in GroupRun(found)
  <2>1. k >= a
    <3> SUFFICES ASSUME k < a PROVE FALSE
      BY <1>1
    <3>1. a - 1 \in 1..Len(sorted) /\ k <= a - 1 /\ a - 1 <= found /\ a > 1
      BY <1>1
    <3>2. sorted[k].group <= sorted[a - 1].group /\ sorted[a - 1].group <= sorted[found].group
          /\ sorted[k].group \in Nat /\ sorted[a - 1].group \in Nat
      BY <1>1, <3>1, GroupsAscend
    <3> QED BY <1>1, <1>4, <3>1, <3>2
  <2>2. ASSUME NEW m \in a..k PROVE sorted[m].group = sorted[found].group
    <3>1. m \in 1..Len(sorted) /\ m \in Nat
      BY <1>1
    <3>2. CASE m <= found
      BY <1>1, <3>1, <3>2
    <3>3. CASE m > found
      <4>1. found <= m /\ m <= k
        BY <1>1, <3>1, <3>3
      <4>2. sorted[found].group <= sorted[m].group /\ sorted[m].group <= sorted[k].group
            /\ sorted[found].group \in Nat /\ sorted[m].group \in Nat
        BY <3>1, <4>1, GroupsAscend
      <4> QED BY <1>4, <4>2
    <3> QED BY <1>1, <3>1, <3>2, <3>3
  <2> QED BY <1>2, <2>1, <2>2
<1> QED BY <1>3, <1>4

\* A search by group finds the rules of the group.
LEMMA SearchByGroup ==
  ASSUME RulesInv
  PROVE  GroupSearchFindsTheRules
<1> SUFFICES ASSUME NEW found \in 1..Len(sorted)
             PROVE  {sorted[k].id : k \in GroupRun(found)}
                      = {id \in RuleIds : setting[id].group = sorted[found].group}
  BY DEF GroupSearchFindsTheRules
<1>1. /\ \A i \in 1..Len(sorted) : /\ Registered(sorted[i].id)
                                    /\ SameEvent(setting[sorted[i].id], sorted[i])
      /\ \A id \in RuleIds : Registered(id) => \E i \in 1..Len(sorted) : sorted[i].id = id
  BY DEF RulesInv, IndexMatchesRules
<1>2. GroupRun(found) \subseteq 1..Len(sorted)
  BY DEF GroupRun
<1>3. \A i \in 1..Len(sorted) : sorted[i].id \in RuleIds /\ setting[sorted[i].id].group = sorted[i].group
  BY <1>1 DEF Registered, SameEvent
<1>4. sorted[found].group # NullGroup
  BY RulesInvFacts, EntryFields
<1>5. ASSUME NEW k \in GroupRun(found)
      PROVE  sorted[k].id \in {id \in RuleIds : setting[id].group = sorted[found].group}
  <2>1. sorted[k].group = sorted[found].group
    BY <1>2, GroupRunIsTheGroup
  <2> QED BY <1>2, <1>3, <2>1
<1>6. ASSUME NEW id \in RuleIds, setting[id].group = sorted[found].group
      PROVE  \E k \in GroupRun(found) : sorted[k].id = id
  <2>1. Registered(id)
    BY <1>4, <1>6 DEF Registered
  <2>2. PICK k \in 1..Len(sorted) : sorted[k].id = id
    BY <1>1, <2>1
  <2>3. sorted[k].group = sorted[found].group
    BY <1>3, <1>6, <2>2
  <2>4. k \in GroupRun(found)
    BY <2>3, GroupRunIsTheGroup
  <2> QED BY <2>2, <2>4
<1> QED BY <1>5, <1>6

\* event_handler.c:753, 847: both searches of the index find all the rules there are and no other,
\* however registrations and deletions have moved and renumbered them.
THEOREM LookupsFindTheRules == RulesSpec => []LookupsAreExact
<1>1. RulesInv => LookupsAreExact
  BY SearchByEvent, SearchByGroup DEF LookupsAreExact
<1> QED
  BY <1>1, RulesInvariance, PTL

-----------------------------------------------------------------------------
(***************************************************************************)
(* The table as a registry.                                                *)
(***************************************************************************)
\* w lists the rules of event e in the index s, in the order of their duplicate ids.
Lists(s, e, w) ==
    /\ w \in Seq(RuleIds)
    /\ \A i \in 1..Len(s) : EventOf(s[i]) = e => s[i].dup + 1 \in 1..Len(w) /\ w[s[i].dup + 1] = s[i].id
    /\ \A n \in 1..Len(w) : \E i \in 1..Len(s) : EventOf(s[i]) = e /\ s[i].dup + 1 = n

Waited == {EventOf(s) : s \in Settings}
WaitingLists == \A e \in Waited : Lists(sorted, e, Waiting[e])

\* An index has one such list for each event.
LEMMA ListsUnique ==
  ASSUME NEW s, NEW e, NEW v, NEW w, Lists(s, e, v), Lists(s, e, w)
  PROVE  v = w
<1>1. v \in Seq(RuleIds) /\ w \in Seq(RuleIds) /\ Len(v) \in Nat /\ Len(w) \in Nat
  BY LenProperties DEF Lists
<1>2. \A n \in 1..Len(v) : n \in 1..Len(w) /\ v[n] = w[n]
  BY DEF Lists
<1>3. \A n \in 1..Len(w) : n \in 1..Len(v)
  BY DEF Lists
<1>4. Len(v) = Len(w)
  <2>1. Len(v) <= Len(w)
    BY <1>1, <1>2
  <2>2. Len(w) <= Len(v)
    BY <1>1, <1>3
  <2> QED BY <1>1, <2>1, <2>2
<1> QED
  BY <1>1, <1>2, <1>4, SeqEqual

\* The list of an event in the registry is its list in the index.
LEMMA WaitingIsListed ==
  RulesInv => WaitingLists
<1> SUFFICES ASSUME RulesInv, NEW s \in Settings PROVE Lists(sorted, EventOf(s), Waiting[EventOf(s)])
  BY DEF WaitingLists, Waited
<1> DEFINE F == FirstNotBefore(s)
           e == EventOf(s)
<1>1. IsKnownEvent(s)
  BY RulesAssumption DEF IsKnownEvent
<1>2. PICK n \in 0..MaxDuplicates : RunOf(s, F, n)
  BY <1>1, RunExists
<1> DEFINE w == IdsOf(F, n)
<1>3. Waiting[e] = w
  BY <1>1, <1>2, WaitingRun DEF Waiting
<1>4. /\ n \in Nat /\ F \in Nat /\ F >= 1 /\ Len(sorted) \in Nat /\ F + n <= Len(sorted) + 1
      /\ \A i \in 1..Len(sorted) : /\ SameEvent(s, sorted[i]) <=> F <= i /\ i < F + n
                                   /\ SameEvent(s, sorted[i]) => sorted[i].dup = i - F
  BY <1>1, <1>2, RunSides DEF RunOf
<1>5. \A i \in 1..Len(sorted) : EventOf(sorted[i]) = e <=> SameEvent(s, sorted[i])
  BY DEF EventOf, SameEvent
<1>6. \A i \in 1..Len(sorted) : sorted[i].id \in RuleIds
  BY RulesInvFacts, EntryFields
<1> HIDE DEF F, e
<1>7. w \in Seq(RuleIds) /\ Len(w) = n /\ \A k \in 1..n : w[k] = sorted[F + k - 1].id
  <2>1. \A k \in 1..n : F + k - 1 \in 1..Len(sorted)
    BY <1>4
  <2>2. \A k \in 1..n : sorted[F + k - 1].id \in RuleIds
    BY <1>6, <2>1
  <2>3. w = [k \in 1..n |-> sorted[F + k - 1].id]
    BY DEF IdsOf
  <2> HIDE DEF w
  <2> QED BY <1>4, <2>2, <2>3
<1> HIDE DEF w
<1>8. ASSUME NEW i \in 1..Len(sorted), EventOf(sorted[i]) = e
      PROVE  sorted[i].dup + 1 \in 1..Len(w) /\ w[sorted[i].dup + 1] = sorted[i].id
  <2>1. F <= i /\ i < F + n /\ sorted[i].dup = i - F
    BY <1>4, <1>5, <1>8
  <2>2. sorted[i].dup + 1 \in 1..n /\ F + (sorted[i].dup + 1) - 1 = i
    BY <1>4, <2>1
  <2> QED BY <1>7, <2>2
<1>9. ASSUME NEW k \in 1..Len(w)
      PROVE  \E i \in 1..Len(sorted) : EventOf(sorted[i]) = e /\ sorted[i].dup + 1 = k
  <2>1. F + k - 1 \in 1..Len(sorted) /\ F <= F + k - 1 /\ F + k - 1 < F + n
    BY <1>4, <1>7
  <2>2. EventOf(sorted[F + k - 1]) = e /\ sorted[F + k - 1].dup = (F + k - 1) - F
    BY <1>4, <1>5, <2>1
  <2>3. sorted[F + k - 1].dup + 1 = k
    BY <1>4, <1>7, <2>2
  <2> QED BY <2>1, <2>2, <2>3
<1>10. Lists(sorted, e, w)
  BY <1>7, <1>8, <1>9 DEF Lists
<1> QED
  BY <1>3, <1>10 DEF e

\* The lists after a step are those of the index after it.
LEMMA WaitingIsListedNext ==
  RulesInv' => WaitingLists'
BY WaitingIsListed, PTL

\* Two indices with the same entries of an event have the same list for it.
LEMMA ListsSame ==
  ASSUME NEW s, NEW t, NEW e, NEW w, Lists(s, e, w),
         \A i \in 1..Len(t) : EventOf(t[i]) = e => \E j \in 1..Len(s) : t[i] = s[j],
         \A j \in 1..Len(s) : EventOf(s[j]) = e => \E i \in 1..Len(t) : t[i] = s[j]
  PROVE  Lists(t, e, w)
<1>1. ASSUME NEW i \in 1..Len(t), EventOf(t[i]) = e
      PROVE  t[i].dup + 1 \in 1..Len(w) /\ w[t[i].dup + 1] = t[i].id
  <2>1. PICK j \in 1..Len(s) : t[i] = s[j]
    BY <1>1
  <2> QED BY <1>1, <2>1 DEF Lists
<1>2. ASSUME NEW n \in 1..Len(w)
      PROVE  \E i \in 1..Len(t) : EventOf(t[i]) = e /\ t[i].dup + 1 = n
  <2>1. PICK j \in 1..Len(s) : EventOf(s[j]) = e /\ s[j].dup + 1 = n
    BY DEF Lists
  <2>2. PICK i \in 1..Len(t) : t[i] = s[j]
    BY <2>1
  <2> QED BY <2>1, <2>2
<1> QED BY <1>1, <1>2 DEF Lists

\* The same lists as functions.
LEMMA WaitingIs ==
  ASSUME RulesInv', NEW lists, lists = [e \in Waited |-> lists[e]],
         \A e \in Waited : Lists(sorted', e, lists[e])
  PROVE  Waiting' = lists
<1>1. \A e \in Waited : Lists(sorted', e, Waiting'[e])
  BY WaitingIsListedNext DEF WaitingLists
<1>2. \A e \in Waited : Waiting'[e] = lists[e]
  BY <1>1, ListsUnique
<1>3. Waiting' = [e \in Waited |-> Waiting'[e]]
  BY DEF Waiting, Waited
<1> HIDE DEF Waited
<1> QED BY <1>2, <1>3

\* What an insertion makes of the index: all entries stay, and the new one is the next duplicate
\* of its event.
LEMMA RegisteredEntries ==
  ASSUME RulesInv, NEW id \in RuleIds, NEW s \in Settings, NEW isActive \in BOOLEAN,
         RegisterRule(id, s, isActive)
  PROVE  \E e \in IndexEntry :
            /\ e.id = id /\ EventOf(e) = EventOf(s) /\ e.dup = Len(Waiting[EventOf(s)])
            /\ e.dup < MaxDuplicates
            /\ \A i \in 1..Len(sorted') : sorted'[i] = e \/ \E j \in 1..Len(sorted) : sorted'[i] = sorted[j]
            /\ \A j \in 1..Len(sorted) : \E i \in 1..Len(sorted') : sorted'[i] = sorted[j]
            /\ \E i \in 1..Len(sorted') : sorted'[i] = e
<1> DEFINE F == FirstNotBefore(s)
           D == Duplicates(s)
           e == Entry(s.group, s.local, D, id)
           p == F + D
<1>1. /\ D < MaxDuplicates /\ sorted' = InsertAt(sorted, p, e)
  BY DEF RegisterRule, MayRegister, IndexWith
<1>2. sorted \in Seq(IndexEntry) /\ Len(sorted) \in Nat
  BY RulesInvFacts
<1>3. D \in 0..(MaxDuplicates - 1)
  BY <1>1, <1>2, DuplicatesFacts
<1>4. /\ e \in IndexEntry /\ e.dup = D /\ e.id = id /\ EventOf(e) = EventOf(s)
  <2>1. s.group \in Groups /\ s.local \in Locals
    BY RulesAssumption
  <2> HIDE DEF D
  <2> QED BY <1>3, <2>1 DEF Entry, IndexEntry, EventOf
<1>5. IsKnownEvent(s)
  BY RulesAssumption DEF IsKnownEvent
<1>6. PICK n \in 0..MaxDuplicates : RunOf(s, F, n)
  BY <1>5, RunExists
<1>7. /\ n \in Nat /\ F \in Nat /\ F >= 1 /\ F + n <= Len(sorted) + 1 /\ D \in Nat
      /\ \A i \in 1..Len(sorted) : SameEvent(sorted[i], s) <=> F <= i /\ i < F + n
  <2>1. F + n <= Len(sorted) + 1
    BY <1>6 DEF RunOf
  <2>2. D \in Nat
    <3> HIDE DEF D
    <3> QED BY <1>3, RulesAssumption
  <2> QED BY <1>5, <1>6, <2>1, <2>2, RunSides
<1>8. D = n
  <2>1. /\ \A k \in 0..(D - 1) : F + k <= Len(sorted) /\ SameEvent(sorted[F + k], s)
        /\ F + D > Len(sorted) \/ ~SameEvent(sorted[F + D], s)
    BY <1>1, <1>2, DuplicatesFacts
  <2> HIDE DEF F, D, e
  <2>2. CASE D < n
    <3>1. F + D \in 1..Len(sorted) /\ F <= F + D /\ F + D < F + n /\ ~(F + D > Len(sorted))
      BY <1>2, <1>7, <2>2
    <3> QED BY <1>7, <2>1, <3>1
  <2>3. CASE D > n
    <3>1. n \in 0..(D - 1)
      BY <1>7, <2>3
    <3>2. F + n <= Len(sorted) /\ SameEvent(sorted[F + n], s)
      BY <2>1, <3>1
    <3>3. F + n \in 1..Len(sorted) /\ ~(F + n < F + n)
      BY <1>2, <1>7, <3>2
    <3> QED BY <1>7, <3>2, <3>3
  <2> QED BY <1>7, <2>2, <2>3
<1>9. Len(Waiting[EventOf(s)]) = D
  <2>1. Waiting[EventOf(s)] = IdsOf(F, n)
    BY <1>5, <1>6, WaitingRun DEF Waiting
  <2>2. Len(IdsOf(F, n)) = n
    BY <1>7 DEF IdsOf
  <2> QED BY <1>8, <2>1, <2>2
<1> HIDE DEF F, D, e
<1>10. p \in 1..(Len(sorted) + 1)
  BY <1>2, <1>7, <1>8
<1> HIDE DEF p
<1>11. /\ Len(sorted') = Len(sorted) + 1
       /\ \A i \in 1..(Len(sorted) + 1) :
            sorted'[i] = IF i < p THEN sorted[i] ELSE IF i = p THEN e ELSE sorted[i - 1]
  BY <1>1, <1>2, <1>4, <1>10, InsertAtProperties
<1>12. ASSUME NEW i \in 1..Len(sorted')
       PROVE  sorted'[i] = e \/ \E j \in 1..Len(sorted) : sorted'[i] = sorted[j]
  <2>1. i \in 1..(Len(sorted) + 1)
    BY <1>11
  <2>2. CASE i < p
    <3>1. i \in 1..Len(sorted) /\ sorted'[i] = sorted[i]
      BY <1>2, <1>10, <1>11, <2>1, <2>2
    <3> QED BY <3>1
  <2>3. CASE i = p
    BY <1>11, <2>1, <2>3
  <2>4. CASE i > p
    <3>1. i - 1 \in 1..Len(sorted) /\ ~(i < p) /\ i # p
      BY <1>2, <1>10, <2>1, <2>4
    <3> QED BY <1>11, <2>1, <3>1
  <2> QED BY <1>10, <2>1, <2>2, <2>3, <2>4
<1>13. ASSUME NEW j \in 1..Len(sorted) PROVE \E i \in 1..Len(sorted') : sorted'[i] = sorted[j]
  <2>1. CASE j < p
    <3>1. j \in 1..(Len(sorted) + 1)
      BY <1>2
    <3> QED BY <1>11, <2>1, <3>1
  <2>2. CASE j >= p
    <3>1. j + 1 \in 1..(Len(sorted) + 1) /\ ~(j + 1 < p) /\ j + 1 # p /\ (j + 1) - 1 = j
      BY <1>2, <1>10, <2>2
    <3>2. sorted'[j + 1] = sorted[j]
      BY <1>11, <3>1
    <3> QED BY <1>11, <3>1, <3>2
  <2> QED BY <1>2, <1>10, <2>1, <2>2
<1>14. \E i \in 1..Len(sorted') : sorted'[i] = e
  <2>1. ~(p < p)
    BY <1>2, <1>10
  <2> QED BY <1>10, <1>11, <2>1
<1> QED
  BY <1>1, <1>4, <1>9, <1>12, <1>13, <1>14

\* What Append does to a list of rules.
LEMMA AppendedList ==
  ASSUME NEW w \in Seq(RuleIds), NEW id \in RuleIds
  PROVE  /\ Append(w, id) \in Seq(RuleIds) /\ Len(w) \in Nat /\ Len(Append(w, id)) = Len(w) + 1
         /\ \A n \in 1..Len(w) : Append(w, id)[n] = w[n]
         /\ Append(w, id)[Len(w) + 1] = id
OBVIOUS

\* The next duplicate is the last of the list of its event.
LEMMA ListsAppend ==
  ASSUME NEW s, NEW t, NEW e, NEW w, Lists(s, e, w), NEW x, EventOf(x) = e, x.dup = Len(w), x.id \in RuleIds,
         \A i \in 1..Len(t) : t[i] = x \/ \E j \in 1..Len(s) : t[i] = s[j],
         \A j \in 1..Len(s) : \E i \in 1..Len(t) : t[i] = s[j],
         \E i \in 1..Len(t) : t[i] = x
  PROVE  Lists(t, e, Append(w, x.id))
<1> DEFINE v == Append(w, x.id)
<1>1. /\ v \in Seq(RuleIds) /\ Len(w) \in Nat /\ Len(v) = Len(w) + 1
      /\ \A n \in 1..Len(w) : v[n] = w[n]
      /\ v[Len(w) + 1] = x.id
  <2>1. w \in Seq(RuleIds)
    BY DEF Lists
  <2> QED BY <2>1, AppendedList
<1> HIDE DEF v
<1>2. ASSUME NEW i \in 1..Len(t), EventOf(t[i]) = e
      PROVE  t[i].dup + 1 \in 1..Len(v) /\ v[t[i].dup + 1] = t[i].id
  <2>1. CASE t[i] = x
    <3>1. t[i].dup + 1 = Len(w) + 1 /\ t[i].id = x.id
      BY <2>1
    <3> QED BY <1>1, <3>1
  <2>2. CASE \E j \in 1..Len(s) : t[i] = s[j]
    <3>1. t[i].dup + 1 \in 1..Len(w) /\ w[t[i].dup + 1] = t[i].id
      BY <1>2, <2>2 DEF Lists
    <3> QED BY <1>1, <3>1
  <2> QED BY <2>1, <2>2
<1>3. ASSUME NEW n \in 1..Len(v)
      PROVE  \E i \in 1..Len(t) : EventOf(t[i]) = e /\ t[i].dup + 1 = n
  <2>1. CASE n = Len(w) + 1
    <3>1. x.dup + 1 = n
      BY <2>1
    <3> QED BY <3>1
  <2>2. CASE n # Len(w) + 1
    <3>1. n \in 1..Len(w)
      BY <1>1, <2>2
    <3>2. PICK j \in 1..Len(s) : EventOf(s[j]) = e /\ s[j].dup + 1 = n
      BY <3>1 DEF Lists
    <3>3. PICK i \in 1..Len(t) : t[i] = s[j]
      BY <3>2
    <3> QED BY <3>2, <3>3
  <2> QED BY <2>1, <2>2
<1>4. Lists(t, e, v)
  BY <1>1, <1>2, <1>3 DEF Lists
<1> QED BY <1>4 DEF v

\* The rules in the lists are registered.
LEMMA KnownIsRegistered ==
  ASSUME RulesInv, NEW e \in Waited, NEW n \in 1..Len(Waiting[e])
  PROVE  Registered(Waiting[e][n])
<1>1. Lists(sorted, e, Waiting[e])
  BY WaitingIsListed DEF WaitingLists
<1>2. PICK i \in 1..Len(sorted) : EventOf(sorted[i]) = e /\ sorted[i].dup + 1 = n
  BY <1>1 DEF Lists
<1>3. Waiting[e][n] = sorted[i].id
  BY <1>1, <1>2 DEF Lists
<1>4. Registered(sorted[i].id)
  BY DEF RulesInv, IndexMatchesRules
<1> QED BY <1>3, <1>4

\* EH_register_rule appends the rule to the list of its event.
LEMMA RegisterIsAppend ==
  ASSUME RulesInv, NEW id \in RuleIds, NEW s \in Settings, NEW isActive \in BOOLEAN,
         RegisterRule(id, s, isActive)
  PROVE  Registry!RegRegister(id, EventOf(s))
<1> DEFINE f == EventOf(s)
           lists == [Waiting EXCEPT ![f] = Append(@, id)]
<1>0. RulesInv'
  BY RegisterStep
<1>1. PICK x \in IndexEntry :
            /\ x.id = id /\ EventOf(x) = f /\ x.dup = Len(Waiting[f])
            /\ x.dup < MaxDuplicates
            /\ \A i \in 1..Len(sorted') : sorted'[i] = x \/ \E j \in 1..Len(sorted) : sorted'[i] = sorted[j]
            /\ \A j \in 1..Len(sorted) : \E i \in 1..Len(sorted') : sorted'[i] = sorted[j]
            /\ \E i \in 1..Len(sorted') : sorted'[i] = x
  BY RegisteredEntries
<1>2. f \in Waited /\ Waiting = [e \in Waited |-> Waiting[e]] /\ \A e \in Waited : Lists(sorted, e, Waiting[e])
  BY WaitingIsListed DEF WaitingLists, Waited, Waiting
<1> HIDE DEF f
<1>3. lists = [e \in Waited |-> IF e = f THEN Append(Waiting[f], id) ELSE Waiting[e]]
  BY <1>2
<1>4. ASSUME NEW e \in Waited PROVE Lists(sorted', e, lists[e])
  <2>1. CASE e = f
    <3>1. Lists(sorted, f, Waiting[f]) /\ x.id \in RuleIds
      BY <1>1, <1>2
    <3>2. Lists(sorted', f, Append(Waiting[f], x.id))
      BY <1>1, <3>1, ListsAppend
    <3> QED BY <1>1, <1>3, <2>1, <3>2
  <2>2. CASE e # f
    <3>1. Lists(sorted, e, Waiting[e])
      BY <1>2
    <3>2. \A i \in 1..Len(sorted') : EventOf(sorted'[i]) = e => \E j \in 1..Len(sorted) : sorted'[i] = sorted[j]
      BY <1>1, <2>2
    <3>3. \A j \in 1..Len(sorted) : EventOf(sorted[j]) = e => \E i \in 1..Len(sorted') : sorted'[i] = sorted[j]
      BY <1>1
    <3>4. Lists(sorted', e, Waiting[e])
      BY <3>1, <3>2, <3>3, ListsSame
    <3> QED BY <1>3, <2>2, <3>4
  <2> QED BY <2>1, <2>2
<1>5. Waiting' = lists
  <2>1. lists = [e \in Waited |-> lists[e]]
    BY <1>3
  <2> HIDE DEF lists
  <2> QED BY <1>0, <1>4, <2>1, WaitingIs
<1>6. ASSUME NEW e \in Waited PROVE id \notin Registry!ToSet(Waiting[e])
  <2> SUFFICES ASSUME id \in Registry!ToSet(Waiting[e]) PROVE FALSE
    OBVIOUS
  <2>1. Waiting[e] \in Seq(RuleIds)
    BY <1>2 DEF Lists
  <2>2. PICK n \in 1..Len(Waiting[e]) : Waiting[e][n] = id
    BY <2>1 DEF Registry!ToSet
  <2>3. Registered(id)
    BY <2>2, KnownIsRegistered
  <2> QED BY <2>3 DEF RegisterRule, MayRegister
<1>7. id \notin Registry!Known
  BY <1>6 DEF Registry!Known, Waited
<1>8. Len(Waiting[f]) < MaxDuplicates
  BY <1>1
<1> QED
  BY <1>5, <1>7, <1>8 DEF Registry!RegRegister, f

\* The duplicates of an event ascend in the index.
LEMMA DuplicatesAscend ==
  ASSUME RulesInv, NEW k \in 1..Len(sorted), NEW j \in 1..Len(sorted), EventOf(sorted[j]) = EventOf(sorted[k])
  PROVE  /\ sorted[j].dup \in Nat /\ sorted[k].dup \in Nat
         /\ j < k => sorted[j].dup < sorted[k].dup
         /\ j > k => sorted[j].dup > sorted[k].dup
         /\ SameEvent(sorted[j], sorted[k]) /\ SameEvent(sorted[k], sorted[j])
<1>1. /\ IsEvent(sorted[j]) /\ IsEvent(sorted[k]) /\ sorted[j].dup \in Nat /\ sorted[k].dup \in Nat
      /\ j \in Nat /\ k \in Nat
  BY RulesInvFacts, EntriesOf
<1>2. SameEvent(sorted[j], sorted[k]) /\ SameEvent(sorted[k], sorted[j])
  BY DEF SameEvent, EventOf
<1>3. /\ j < k => sorted[k].dup = sorted[j].dup + (k - j)
      /\ k < j => sorted[j].dup = sorted[k].dup + (j - k)
  BY <1>1, <1>2, EventOrder DEF RulesInv, Ascending
<1> QED
  BY <1>1, <1>2, <1>3

\* The entries of the index after a deletion.
LEMMA DeletedEntries ==
  ASSUME RulesInv, NEW k \in 1..Len(sorted)
  PROVE  /\ \A i \in 1..Len(Without(k)) : \E j \in 1..Len(sorted) :
               /\ j # k /\ Without(k)[i].id = sorted[j].id /\ EventOf(Without(k)[i]) = EventOf(sorted[j])
               /\ Without(k)[i].dup = IF EventOf(sorted[j]) = EventOf(sorted[k]) /\ j > k
                                      THEN sorted[j].dup - 1 ELSE sorted[j].dup
               /\ EventOf(sorted[j]) # EventOf(sorted[k]) => Without(k)[i] = sorted[j]
         /\ \A j \in 1..Len(sorted) : j # k => \E i \in 1..Len(Without(k)) :
               /\ Without(k)[i].id = sorted[j].id /\ EventOf(Without(k)[i]) = EventOf(sorted[j])
               /\ Without(k)[i].dup = IF EventOf(sorted[j]) = EventOf(sorted[k]) /\ j > k
                                      THEN sorted[j].dup - 1 ELSE sorted[j].dup
               /\ EventOf(sorted[j]) # EventOf(sorted[k]) => Without(k)[i] = sorted[j]
<1> DEFINE t == Without(k)
           Goes(i, j) ==
               /\ t[i].id = sorted[j].id /\ EventOf(t[i]) = EventOf(sorted[j])
               /\ t[i].dup = IF EventOf(sorted[j]) = EventOf(sorted[k]) /\ j > k
                             THEN sorted[j].dup - 1 ELSE sorted[j].dup
               /\ EventOf(sorted[j]) # EventOf(sorted[k]) => t[i] = sorted[j]
<1>1. /\ Len(sorted) \in Nat /\ k \in Nat /\ Len(t) = Len(sorted) - 1
      /\ \A i \in 1..(Len(sorted) - 1) : LeftBehind(k, i)
  <2>1. sorted \in Seq(IndexEntry) /\ Len(sorted) \in Nat /\ Ascending(sorted)
    BY RulesInvFacts DEF RulesInv
  <2> QED BY <2>1, WithoutFacts
<1>2. \A x, y : SameEvent(x, y) <=> EventOf(x) = EventOf(y)
  BY DEF SameEvent, EventOf
<1>3. ASSUME NEW i \in 1..(Len(sorted) - 1), i < k PROVE Goes(i, i)
  <2>1. t[i] = sorted[i]
    BY <1>1, <1>3 DEF LeftBehind
  <2>2. ~(i > k)
    BY <1>1, <1>3
  <2> QED BY <2>1, <2>2
<1>4. ASSUME NEW i \in 1..(Len(sorted) - 1), i >= k PROVE Goes(i, i + 1)
  <2>1. i + 1 > k
    BY <1>1, <1>4
  <2>2. /\ ~SameEvent(sorted[i + 1], sorted[k]) => t[i] = sorted[i + 1]
        /\ SameEvent(sorted[i + 1], sorted[k]) => t[i].dup = sorted[i + 1].dup - 1
        /\ SameEvent(t[i], sorted[i + 1]) /\ t[i].id = sorted[i + 1].id
    BY <1>1, <1>4 DEF LeftBehind
  <2> HIDE DEF t
  <2> QED BY <1>2, <2>1, <2>2
<1> HIDE DEF t, Goes
<1>5. ASSUME NEW i \in 1..Len(t) PROVE \E j \in 1..Len(sorted) : j # k /\ Goes(i, j)
  <2>1. i \in 1..(Len(sorted) - 1)
    BY <1>1
  <2>2. CASE i < k
    <3>1. i \in 1..Len(sorted) /\ i # k
      BY <1>1, <2>1, <2>2
    <3> QED BY <1>3, <2>1, <2>2, <3>1
  <2>3. CASE i >= k
    <3>1. i + 1 \in 1..Len(sorted) /\ i + 1 # k
      BY <1>1, <2>1, <2>3
    <3> QED BY <1>4, <2>1, <2>3, <3>1
  <2> QED BY <1>1, <2>1, <2>2, <2>3
<1>6. ASSUME NEW j \in 1..Len(sorted), j # k PROVE \E i \in 1..Len(t) : Goes(i, j)
  <2>1. CASE j < k
    <3>1. j \in 1..(Len(sorted) - 1)
      BY <1>1, <2>1
    <3> QED BY <1>1, <1>3, <2>1, <3>1
  <2>2. CASE j > k
    <3>1. j - 1 \in 1..(Len(sorted) - 1) /\ j - 1 >= k /\ (j - 1) + 1 = j
      BY <1>1, <2>2
    <3>2. Goes(j - 1, j)
      BY <1>4, <3>1
    <3> QED BY <1>1, <3>1, <3>2
  <2> QED BY <1>1, <1>6, <2>1, <2>2
<1> QED
  BY <1>5, <1>6 DEF t, Goes

\* The list of the event of a deleted entry loses its place, and no other.
LEMMA ListsRemove ==
  ASSUME RulesInv, NEW k \in 1..Len(sorted), NEW e, e = EventOf(sorted[k]), NEW w, Lists(sorted, e, w)
  PROVE  Lists(Without(k), e, RemoveAt(w, sorted[k].dup + 1))
<1> DEFINE t == Without(k)
           d == sorted[k].dup
           v == RemoveAt(w, d + 1)
<1>1. w \in Seq(RuleIds) /\ Len(w) \in Nat /\ d + 1 \in 1..Len(w) /\ d \in Nat
  <2>1. d \in Nat
    BY RulesInvFacts, EntriesOf
  <2> QED BY <2>1, LenProperties DEF Lists
<1>2. /\ v \in Seq(RuleIds) /\ Len(v) = Len(w) - 1
      /\ \A n \in 1..(Len(w) - 1) : v[n] = IF n < d + 1 THEN w[n] ELSE w[n + 1]
  <2> HIDE DEF d
  <2> QED BY <1>1, RemoveAtProperties
<1>3. \A j \in 1..Len(sorted) : EventOf(sorted[j]) = e => sorted[j].dup + 1 \in 1..Len(w) /\ w[sorted[j].dup + 1] = sorted[j].id
  BY DEF Lists
<1>4. \A j \in 1..Len(sorted) : EventOf(sorted[j]) = e =>
         /\ sorted[j].dup \in Nat
         /\ j < k => sorted[j].dup < d
         /\ j > k => sorted[j].dup > d
  BY DuplicatesAscend
<1>5. /\ \A i \in 1..Len(t) : \E j \in 1..Len(sorted) :
               /\ j # k /\ t[i].id = sorted[j].id /\ EventOf(t[i]) = EventOf(sorted[j])
               /\ t[i].dup = IF EventOf(sorted[j]) = e /\ j > k THEN sorted[j].dup - 1 ELSE sorted[j].dup
      /\ \A j \in 1..Len(sorted) : j # k => \E i \in 1..Len(t) :
               /\ t[i].id = sorted[j].id /\ EventOf(t[i]) = EventOf(sorted[j])
               /\ t[i].dup = IF EventOf(sorted[j]) = e /\ j > k THEN sorted[j].dup - 1 ELSE sorted[j].dup
  BY DeletedEntries
<1>6. k \in Nat /\ Len(sorted) \in Nat
  BY RulesInvFacts
<1> HIDE DEF t, v, d
<1>7. ASSUME NEW i \in 1..Len(t), EventOf(t[i]) = e
      PROVE  t[i].dup + 1 \in 1..Len(v) /\ v[t[i].dup + 1] = t[i].id
  <2>1. PICK j \in 1..Len(sorted) :
               /\ j # k /\ t[i].id = sorted[j].id /\ EventOf(t[i]) = EventOf(sorted[j])
               /\ t[i].dup = IF EventOf(sorted[j]) = e /\ j > k THEN sorted[j].dup - 1 ELSE sorted[j].dup
    BY <1>5
  <2>2. EventOf(sorted[j]) = e /\ j \in Nat
    BY <1>7, <2>1
  <2> DEFINE c == sorted[j].dup
  <2>3. /\ c \in Nat /\ (j < k => c < d) /\ (j > k => c > d)
        /\ c + 1 \in 1..Len(w) /\ w[c + 1] = sorted[j].id
        /\ t[i].dup = IF j > k THEN c - 1 ELSE c
    BY <1>3, <1>4, <2>1, <2>2
  <2> HIDE DEF c
  <2>4. CASE j < k
    <3>1. c + 1 \in 1..(Len(w) - 1) /\ c + 1 < d + 1 /\ t[i].dup = c
      BY <1>1, <1>6, <2>2, <2>3, <2>4
    <3> QED BY <1>2, <2>1, <2>3, <3>1
  <2>5. CASE j > k
    <3>1. t[i].dup = c - 1 /\ (c - 1) + 1 = c /\ c \in 1..(Len(w) - 1) /\ ~(c < d + 1)
      BY <1>1, <1>6, <2>2, <2>3, <2>5
    <3>2. v[c] = w[c + 1]
      BY <1>2, <3>1
    <3>3. t[i].dup + 1 = c
      BY <3>1
    <3> QED BY <1>2, <2>1, <2>3, <3>1, <3>2, <3>3
  <2> QED BY <1>6, <2>1, <2>2, <2>4, <2>5
<1>8. ASSUME NEW n \in 1..Len(v)
      PROVE  \E i \in 1..Len(t) : EventOf(t[i]) = e /\ t[i].dup + 1 = n
  <2>1. n \in 1..(Len(w) - 1)
    BY <1>2
  <2> DEFINE old == IF n < d + 1 THEN n ELSE n + 1
  <2>2. old \in 1..Len(w) /\ old # d + 1 /\ (old < d + 1 => old = n) /\ (old > d + 1 => old - 1 = n) /\ old \in Nat
    BY <1>1, <2>1
  <2> HIDE DEF old
  <2>3. PICK j \in 1..Len(sorted) : EventOf(sorted[j]) = e /\ sorted[j].dup + 1 = old
    BY <2>2 DEF Lists
  <2>4. /\ sorted[j].dup \in Nat /\ (j < k => sorted[j].dup < d) /\ (j > k => sorted[j].dup > d) /\ j \in Nat
    BY <1>4, <2>3
  <2>5. j # k
    BY <2>2, <2>3 DEF d
  <2>6. PICK i \in 1..Len(t) :
               /\ EventOf(t[i]) = e
               /\ t[i].dup = IF j > k THEN sorted[j].dup - 1 ELSE sorted[j].dup
    BY <1>5, <2>3, <2>5
  <2>7. t[i].dup + 1 = n
    <3> DEFINE c == sorted[j].dup
               u == t[i].dup
    <3>1. c \in Nat /\ c + 1 = old /\ (j < k => c < d) /\ (j > k => c > d) /\ u = IF j > k THEN c - 1 ELSE c
      BY <2>3, <2>4, <2>6
    <3> HIDE DEF c, u
    <3>2. u + 1 = n
      BY <1>1, <1>6, <2>1, <2>2, <2>4, <2>5, <3>1
    <3> QED BY <3>2 DEF u
  <2> QED BY <2>6, <2>7
<1>9. Lists(t, e, v)
  BY <1>2, <1>7, <1>8 DEF Lists
<1> QED
  BY <1>9 DEF t, v, d

\* EH_delete_rule takes the rule out of the list of its event.
LEMMA DeleteIsRemove ==
  ASSUME RulesInv, NEW id \in RuleIds, DeleteRule(id)
  PROVE  Registry!RegDelete(id)
<1> DEFINE k == PlaceOf(id)
           f == EventOf(sorted[k])
           n == sorted[k].dup + 1
           lists == [Waiting EXCEPT ![f] = RemoveAt(@, n)]
<1>0. RulesInv'
  BY DeleteStep
<1>1. Registered(id) /\ sorted' = Without(k)
  BY DEF DeleteRule
<1>2. /\ \A i \in 1..Len(sorted) : /\ Registered(sorted[i].id)
                                    /\ SameEvent(setting[sorted[i].id], sorted[i])
      /\ \A other \in RuleIds : Registered(other) => \E i \in 1..Len(sorted) : sorted[i].id = other
  BY DEF RulesInv, IndexMatchesRules
<1>3. k \in 1..Len(sorted) /\ sorted[k].id = id
  <2>1. \E i \in 1..Len(sorted) : sorted[i].id = id
    BY <1>1, <1>2
  <2> QED BY <2>1 DEF PlaceOf
<1> HIDE DEF k
<1>4. f \in Waited
  <2>1. setting[id] \in Settings
    <3>1. setting[id] \in Settings \cup {NoRule}
      BY RulesInvFacts
    <3>2. setting[id] # NoRule
      BY <1>1 DEF Registered, NoRule
    <3> QED BY <3>1, <3>2
  <2>2. SameEvent(setting[id], sorted[k])
    BY <1>2, <1>3
  <2>3. EventOf(setting[id]) = EventOf(sorted[k])
    BY <2>2 DEF SameEvent, EventOf
  <2> QED BY <2>1, <2>3 DEF Waited
<1>5. Waiting = [e \in Waited |-> Waiting[e]] /\ \A e \in Waited : Lists(sorted, e, Waiting[e])
  BY WaitingIsListed DEF WaitingLists, Waited, Waiting
<1>6. lists = [e \in Waited |-> IF e = f THEN RemoveAt(Waiting[f], n) ELSE Waiting[e]]
  BY <1>4, <1>5
<1>7. Lists(sorted', f, RemoveAt(Waiting[f], n))
  <2>1. Lists(sorted, f, Waiting[f])
    BY <1>4, <1>5
  <2>2. Lists(Without(k), f, RemoveAt(Waiting[f], sorted[k].dup + 1))
    BY <1>3, <2>1, ListsRemove
  <2> QED BY <1>1, <2>2
<1>8. n \in 1..Len(Waiting[f]) /\ Waiting[f][n] = id
  <2>1. Lists(sorted, f, Waiting[f])
    BY <1>4, <1>5
  <2> QED BY <1>3, <2>1 DEF Lists
<1>9. ASSUME NEW e \in Waited, e # f PROVE Lists(sorted', e, Waiting[e])
  <2>1. Lists(sorted, e, Waiting[e])
    BY <1>5
  <2>2. /\ \A i \in 1..Len(Without(k)) : \E j \in 1..Len(sorted) :
               /\ EventOf(Without(k)[i]) = EventOf(sorted[j])
               /\ EventOf(sorted[j]) # f => Without(k)[i] = sorted[j]
        /\ \A j \in 1..Len(sorted) : j # k => \E i \in 1..Len(Without(k)) :
               EventOf(sorted[j]) # f => Without(k)[i] = sorted[j]
    BY <1>3, DeletedEntries
  <2>3. \A i \in 1..Len(sorted') : EventOf(sorted'[i]) = e => \E j \in 1..Len(sorted) : sorted'[i] = sorted[j]
    BY <1>1, <1>9, <2>2
  <2>4. \A j \in 1..Len(sorted) : EventOf(sorted[j]) = e => \E i \in 1..Len(sorted') : sorted'[i] = sorted[j]
    BY <1>1, <1>9, <2>2
  <2> QED BY <2>1, <2>3, <2>4, ListsSame
<1> HIDE DEF f, n
<1>10. Waiting' = lists
  <2>1. lists = [e \in Waited |-> lists[e]]
    BY <1>6
  <2>2. \A e \in Waited : Lists(sorted', e, lists[e])
    BY <1>6, <1>7, <1>9
  <2> HIDE DEF lists
  <2> QED BY <1>0, <2>1, <2>2, WaitingIs
<1>11. RemoveAt(Waiting[f], n) = Registry!RemoveAt(Waiting[f], n)
  BY DEF RemoveAt, Registry!RemoveAt
<1>12. Waiting' = [Waiting EXCEPT ![f] = Registry!RemoveAt(@, n)]
  BY <1>10, <1>11
<1> QED
  BY <1>4, <1>8, <1>12 DEF Registry!RegDelete, Waited

NoEntries == sorted = <<>>
NoneWaits == Waiting = [e \in Waited |-> <<>>]

\* Without an entry in the index no rule waits.
LEMMA EmptyWaits ==
  NoEntries => NoneWaits
<1> SUFFICES ASSUME sorted = <<>> PROVE NoneWaits
  BY DEF NoEntries
<1>1. \A e \in Waited : EntriesFor(e) = {}
  <2>1. Len(sorted) = 0
    BY EmptySeq
  <2> QED BY <2>1 DEF EntriesFor
<1>2. IdsAt({}) = <<>>
  <2>1. Cardinality({}) = 0
    BY FS_EmptySet
  <2> QED BY <2>1 DEF IdsAt
<1> QED
  BY <1>1, <1>2 DEF Waiting, Waited, NoneWaits

\* And so after a step.
LEMMA EmptyWaitsNext ==
  NoEntries' => NoneWaits'
BY EmptyWaits, PTL

\* What leaves the index alone leaves the lists alone.
LEMMA WaitingSame ==
  ASSUME UNCHANGED sorted
  PROVE  UNCHANGED Waiting
BY DEF Waiting, IdsAt, EntriesFor

\* A step of the rule table is a step of the registry, or leaves its lists alone.
LEMMA RegistryStep ==
  RulesInv /\ [RulesNext]_ruleVars => [Registry!RegNext]_Waiting
<1> SUFFICES ASSUME RulesInv, [RulesNext]_ruleVars PROVE [Registry!RegNext]_Waiting
  OBVIOUS
<1>1. CASE ClearAllRule \/ InitializeRules
  <2>1. sorted' = <<>>
    BY <1>1 DEF ClearAllRule, InitializeRules, NoRules
  <2>2. Waiting' = [e \in Waited |-> <<>>]
    BY <2>1, EmptyWaitsNext DEF NoEntries, NoneWaits, Waited
  <2> QED BY <2>2 DEF Registry!RegNext, Registry!RegClear, Waited
<1>2. ASSUME NEW id \in RuleIds, NEW s \in Settings, NEW isActive \in BOOLEAN,
             RegisterRule(id, s, isActive)
      PROVE  Registry!RegNext
  <2>1. Registry!RegRegister(id, EventOf(s))
    BY <1>2, RegisterIsAppend
  <2> QED BY <2>1 DEF Registry!RegNext
<1>3. ASSUME NEW id \in RuleIds, DeleteRule(id) PROVE Registry!RegNext
  <2>1. Registry!RegDelete(id)
    BY <1>3, DeleteIsRemove
  <2> QED BY <2>1 DEF Registry!RegNext
<1>4. CASE UNCHANGED sorted
  BY <1>4, WaitingSame
<1>5. ASSUME NEW op \in Ops, NEW id \in RuleIds, NEW multiLevel \in BOOLEAN, OperateRule(op, id, multiLevel)
      PROVE  UNCHANGED sorted
  BY <1>5 DEF OperateRule, Operate
<1>6. ASSUME NEW op \in Ops, NEW found \in 1..Len(sorted), NEW multiLevel \in BOOLEAN,
             OperateGroup(op, found, multiLevel) \/ OperateGroupOutside(found)
      PROVE  UNCHANGED sorted
  BY <1>6 DEF OperateGroup, OperateGroupOutside, Operate
<1>7. ASSUME NEW id \in RuleIds, NEW n \in CounterValues, SetRuleCounter(id, n) PROVE UNCHANGED sorted
  BY <1>7 DEF SetRuleCounter
<1>8. ASSUME NEW s \in Settings, ClearRuleCounterByEvent(s, s.level) PROVE UNCHANGED sorted
  BY <1>8 DEF ClearRuleCounterByEvent
<1>9. ASSUME NEW n \in MultiLevels, SetMaxMultiLevelNum(n) PROVE UNCHANGED sorted
  BY <1>9 DEF SetMaxMultiLevelNum
<1>10. CASE UNCHANGED ruleVars
  BY <1>4, <1>10 DEF ruleVars
<1>11. CASE RuleCommand
  BY <1>1, <1>2, <1>3, <1>4, <1>5, <1>6, <1>7, <1>8, <1>9, <1>11 DEF RuleCommand
<1> QED
  BY <1>10, <1>11 DEF RulesNext

\* The refinement: the sorted index does to the list of each event what the registry says, and
\* nothing else, through all the moving and renumbering of entries.
THEOREM TheTableIsARegistry == RulesSpec => ImplementsRegistry
<1>1. RulesInit => Registry!RegInit
  BY EmptyWaits DEF NoEntries, NoneWaits, RulesInit, Registry!RegInit, Waited
<1> QED
  BY <1>1, RulesInvariance, RegistryStep, PTL DEF RulesSpec, ImplementsRegistry, Registry!RegistrySpec
-----------------------------------------------------------------------------
(***************************************************************************)
(* The execution of the handler.                                           *)
(***************************************************************************)
IsFrame(f) == {"ids", "responded"} \subseteq DOMAIN f /\ f.responded \in Nat

Stacked(e) ==
    /\ {"pc", "stack"} \subseteq DOMAIN e
    /\ IsSequence(e.stack)
    /\ \A i \in 1..Len(e.stack) : IsFrame(e.stack[i])
    /\ e.pc \in {"idle", "events", "rules", "higher", "respond"}
    /\ e.pc \in {"idle", "events"} => e.stack = <<>>
    /\ e.pc \in {"rules", "higher", "respond"} => e.stack # <<>>

\* A frame above frame j has responded.
Covered(s, j) == \E i \in 1..(j - 1) : s[i].responded > 0

Callers(s, act) == \A j \in 2..Len(s) : act[Head(s[j].ids)] \/ Covered(s, j)

Answering(e, act) == e.pc \in {"higher", "respond"} => act[Head(e.stack[1].ids)]

Accounts(h, act) ==
    /\ {"responses", "activations"} \subseteq DOMAIN h
    /\ h.responses \in [RuleIds -> Nat] /\ h.activations \in [RuleIds -> Nat]
    /\ act \in [RuleIds -> BOOLEAN]
    /\ \A id \in RuleIds : /\ h.responses[id] <= h.activations[id]
                           /\ act[id] => h.responses[id] < h.activations[id]

Inv == Stacked(exec) /\ Callers(exec.stack, active) /\ Answering(exec, active) /\ Accounts(hist, active)

-----------------------------------------------------------------------------
\* Stacks.

\* The top frame is replaced by one that has responded at least as often.
LEMMA TopReplaced ==
  ASSUME NEW s, IsSequence(s), s # <<>>, \A i \in 1..Len(s) : IsFrame(s[i]),
         NEW act, Callers(s, act), NEW f, IsFrame(f), f.responded >= s[1].responded,
         NEW t, t = <<f>> \o Tail(s)
  PROVE  /\ IsSequence(t) /\ t # <<>> /\ t[1] = f
         /\ \A i \in 1..Len(t) : IsFrame(t[i])
         /\ Callers(t, act)
<1>1. /\ IsSequence(t) /\ Len(t) = Len(s) /\ t[1] = f /\ Len(s) \in Nat /\ Len(s) > 0
      /\ \A i \in 2..Len(s) : t[i] = s[i]
  BY Replaced
<1>2. ASSUME NEW i \in 1..Len(t) PROVE IsFrame(t[i])
  <2>1. i = 1 \/ i \in 2..Len(s)
    BY <1>1
  <2>2. i \in 1..Len(s)
    BY <1>1
  <2> QED BY <1>1, <2>1, <2>2
<1>3. ASSUME NEW j \in 2..Len(t) PROVE act[Head(t[j].ids)] \/ Covered(t, j)
  <2>1. j \in 2..Len(s) /\ t[j] = s[j]
    BY <1>1
  <2>2. CASE act[Head(s[j].ids)]
    BY <2>1, <2>2
  <2>3. CASE Covered(s, j)
    <3>1. PICK i \in 1..(j - 1) : s[i].responded > 0
      BY <2>3 DEF Covered
    <3>2. i = 1 \/ (i \in 2..Len(s) /\ t[i] = s[i])
      BY <1>1, <2>1
    <3>3. t[i].responded > 0
      <4>1. \A a, b \in Nat : a > 0 /\ b >= a => b > 0
        OBVIOUS
      <4>2. f.responded \in Nat /\ s[1].responded \in Nat
        BY <1>1 DEF IsFrame
      <4> QED BY <1>1, <3>1, <3>2, <4>1, <4>2
    <3> QED BY <3>3 DEF Covered
  <2> QED BY <2>1, <2>2, <2>3 DEF Callers
<1> QED
  BY <1>1, <1>2, <1>3, StackFacts, NoFrame DEF Callers
-----------------------------------------------------------------------------
\* The steps of the execution that leave the rules active.

Execution(act) == Stacked(exec') /\ Callers(exec'.stack, act) /\ Answering(exec', act)

\* The stack while a rule is looked at.
LEMMA TopFacts ==
  ASSUME Inv, exec.pc \in {"rules", "higher", "respond"}
  PROVE  /\ IsSequence(exec.stack) /\ exec.stack # <<>> /\ Len(exec.stack) \in Nat /\ Len(exec.stack) > 0
         /\ Top = exec.stack[1] /\ IsFrame(Top) /\ {"pc", "stack"} \subseteq DOMAIN exec
         /\ \A i \in 1..Len(exec.stack) : IsFrame(exec.stack[i])
         /\ Callers(exec.stack, active)
<1>1. IsSequence(exec.stack) /\ exec.stack # <<>> /\ {"pc", "stack"} \subseteq DOMAIN exec
  BY DEF Inv, Stacked
<1>2. Len(exec.stack) \in Nat /\ Len(exec.stack) > 0 /\ Top = exec.stack[1]
  BY <1>1, StackFacts DEF Top
<1>3. 1 \in 1..Len(exec.stack)
  BY <1>2
<1> QED
  BY <1>1, <1>2, <1>3 DEF Inv, Stacked

\* The next rule of the top frame.
LEMMA NextRuleStep ==
  ASSUME Inv, exec.pc \in {"rules", "respond"}, NEW n \in Nat, NEW act,
         exec'.stack = NextRule(n), exec'.pc = "rules", DOMAIN exec' = DOMAIN exec,
         act = active \/ n > 0
  PROVE  Execution(act)
<1> DEFINE f == [Top EXCEPT !.ids = Tail(@), !.responded = @ + n]
<1>1. /\ IsSequence(exec.stack) /\ exec.stack # <<>> /\ Len(exec.stack) \in Nat /\ Len(exec.stack) > 0
      /\ Top = exec.stack[1] /\ IsFrame(Top) /\ {"pc", "stack"} \subseteq DOMAIN exec
      /\ \A i \in 1..Len(exec.stack) : IsFrame(exec.stack[i])
      /\ Callers(exec.stack, active)
  BY TopFacts
<1>2. {"ids", "responded"} \subseteq DOMAIN Top /\ Top.responded \in Nat
  BY <1>1 DEF IsFrame
<1>3. DOMAIN f = DOMAIN Top /\ f.responded = Top.responded + n
  BY <1>2, Zenon
<1>4. IsFrame(f) /\ f.responded >= Top.responded /\ (n > 0 => f.responded > 0)
  <2> HIDE DEF f
  <2>1. \A a, b, c \in Nat : b = a + c => b >= a /\ (c > 0 => b > 0)
    OBVIOUS
  <2>2. f.responded \in Nat
    BY <1>2, <1>3
  <2> QED BY <1>2, <1>3, <2>1, <2>2 DEF IsFrame
<1>5. exec'.stack = <<f>> \o Tail(exec.stack)
  BY DEF NextRule
<1> HIDE DEF f
<1>6. /\ IsSequence(exec'.stack) /\ exec'.stack # <<>> /\ exec'.stack[1] = f
      /\ \A i \in 1..Len(exec'.stack) : IsFrame(exec'.stack[i])
      /\ Callers(exec'.stack, active)
  BY <1>1, <1>4, <1>5, TopReplaced
<1>7. Stacked(exec')
  BY <1>1, <1>6 DEF Stacked
<1>8. Callers(exec'.stack, act)
  <2>1. CASE act = active
    BY <1>6, <2>1
  <2>2. CASE n > 0
    <3>1. f.responded > 0
      BY <1>4, <2>2
    <3>2. ASSUME NEW j \in 2..Len(exec'.stack) PROVE Covered(exec'.stack, j)
      <4>1. 1 \in 1..(j - 1)
        OBVIOUS
      <4> QED BY <1>6, <3>1, <4>1 DEF Covered
    <3> QED BY <3>2 DEF Callers
  <2> QED BY <2>1, <2>2
<1>9. Answering(exec', act)
  BY DEF Answering
<1> QED
  BY <1>7, <1>8, <1>9 DEF Execution

\* The stack stays.
LEMMA SameStackStep ==
  ASSUME Inv, exec.pc \in {"rules", "higher", "respond"}, exec'.stack = exec.stack,
         DOMAIN exec' = DOMAIN exec, exec'.pc \in {"higher", "respond"}, active[Rule]
  PROVE  Execution(active)
<1>1. /\ IsSequence(exec.stack) /\ exec.stack # <<>> /\ {"pc", "stack"} \subseteq DOMAIN exec
      /\ \A i \in 1..Len(exec.stack) : IsFrame(exec.stack[i])
      /\ Callers(exec.stack, active) /\ Top = exec.stack[1]
  BY TopFacts
<1>2. Stacked(exec')
  BY <1>1 DEF Stacked
<1>3. Answering(exec', active)
  BY <1>1 DEF Answering, Rule
<1> QED
  BY <1>1, <1>2, <1>3 DEF Execution

\* No stack.
LEMMA EmptyStackStep ==
  ASSUME {"pc", "stack"} \subseteq DOMAIN exec', exec'.pc \in {"idle", "events"}, exec'.stack = <<>>
  PROVE  Execution(active)
<1>1. IsSequence(exec'.stack) /\ Len(exec'.stack) = 0
  BY NoFrame
<1>2. Stacked(exec')
  BY <1>1 DEF Stacked
<1>3. Callers(exec'.stack, active)
  BY <1>1 DEF Callers
<1> QED
  BY <1>2, <1>3 DEF Execution, Answering

\* The fields of the idle executor.
LEMMA IdleFields ==
  /\ {"pc", "stack"} \subseteq DOMAIN Idle /\ Idle.pc = "idle" /\ Idle.stack = <<>>
BY DEF Idle

\* EH_execute begins without frames.
LEMMA ExecuteStep ==
  ASSUME Inv, Execute
  PROVE  Execution(active)
<1>1. exec' = [Idle EXCEPT !.pc = "events"]
  BY DEF Execute
<1>2. DOMAIN exec' = DOMAIN Idle /\ exec'.pc = "events" /\ exec'.stack = Idle.stack
  BY <1>1, IdleFields, Zenon
<1> QED
  BY <1>2, IdleFields, EmptyStackStep

\* The rules of the next event are looked up in a first frame.
LEMMA NextEventStep ==
  ASSUME Inv, NextEvent
  PROVE  Execution(active)
<1>1. \E level, slot, ids : exec' = [exec EXCEPT !.pc = "rules", !.multiLevel = 0,
         !.stack = <<[level |-> level, slot |-> slot, ids |-> ids, responded |-> 0]>>]
  <2> DEFINE Taken(found, event) ==
          exec' = [exec EXCEPT !.pc = "rules", !.multiLevel = 0,
                       !.stack = <<[level |-> found.oldest[1], slot |-> found.oldest[2],
                                    ids |-> RulesFor(event), responded |-> 0]>>]
  <2>1. \E found, event : Taken(found, event)
    BY Zenon DEF NextEvent
  <2>2. PICK found, event : Taken(found, event)
    BY <2>1
  <2> QED BY <2>2, Zenon
<1>2. PICK level, slot, ids : exec' = [exec EXCEPT !.pc = "rules", !.multiLevel = 0,
         !.stack = <<[level |-> level, slot |-> slot, ids |-> ids, responded |-> 0]>>]
  BY <1>1
<1> DEFINE f == [level |-> level, slot |-> slot, ids |-> ids, responded |-> 0]
<1>3. {"pc", "stack"} \subseteq DOMAIN exec
  BY DEF Inv, Stacked
<1>4. DOMAIN exec' = DOMAIN exec /\ exec'.pc = "rules" /\ exec'.stack = <<f>>
  BY <1>2, <1>3, Zenon
<1>5. IsFrame(f)
  BY DEF IsFrame
<1> HIDE DEF f
<1>6. /\ IsSequence(exec'.stack) /\ Len(exec'.stack) = 1 /\ exec'.stack # <<>> /\ exec'.stack[1] = f
  BY <1>4, OneFrame
<1>7. \A i \in 1..Len(exec'.stack) : IsFrame(exec'.stack[i])
  BY <1>5, <1>6
<1>8. Stacked(exec')
  BY <1>3, <1>4, <1>6, <1>7 DEF Stacked
<1>9. Callers(exec'.stack, active)
  BY <1>6 DEF Callers
<1> QED
  BY <1>4, <1>8, <1>9 DEF Execution, Answering

\* A higher rule is asked in a frame above those of its callers.
LEMMA HigherIsAskedStep ==
  ASSUME Inv, HigherIsAsked
  PROVE  Execution(active)
<1>1. \E ids : exec' = [exec EXCEPT !.pc = "rules", !.multiLevel = @ + 1,
         !.stack = <<[level |-> "EH", slot |-> LatestEH, ids |-> ids, responded |-> 0]>> \o @]
  BY DEF HigherIsAsked
<1>2. PICK ids : exec' = [exec EXCEPT !.pc = "rules", !.multiLevel = @ + 1,
         !.stack = <<[level |-> "EH", slot |-> LatestEH, ids |-> ids, responded |-> 0]>> \o @]
  BY <1>1
<1> DEFINE f == [level |-> "EH", slot |-> LatestEH, ids |-> ids, responded |-> 0]
           s == exec.stack
           t == exec'.stack
<1>0. exec.pc = "higher"
  BY DEF HigherIsAsked
<1>3. /\ IsSequence(s) /\ s # <<>> /\ Len(s) \in Nat /\ Len(s) > 0
      /\ Top = s[1] /\ {"pc", "stack"} \subseteq DOMAIN exec
      /\ \A i \in 1..Len(s) : IsFrame(s[i])
      /\ Callers(s, active)
  BY <1>0, TopFacts
<1>4. DOMAIN exec' = DOMAIN exec /\ exec'.pc = "rules" /\ t = <<f>> \o s
  BY <1>2, <1>3, Zenon
<1>5. IsFrame(f)
  BY DEF IsFrame
<1>6. active[Head(s[1].ids)]
  BY <1>0 DEF Inv, Answering
<1> HIDE DEF f, s, t
<1>7. /\ IsSequence(t) /\ Len(t) = Len(s) + 1 /\ t[1] = f
      /\ \A i \in 2..(Len(s) + 1) : t[i] = s[i - 1]
  BY <1>3, <1>4, Pushed
<1>8. t # <<>>
  BY <1>3, <1>7, NoFrame
<1>9. ASSUME NEW i \in 1..Len(t) PROVE IsFrame(t[i])
  <2>1. i = 1 \/ (i \in 2..(Len(s) + 1) /\ i - 1 \in 1..Len(s))
    BY <1>3, <1>7
  <2> QED BY <1>3, <1>5, <1>7, <2>1
<1>10. Stacked(exec')
  BY <1>3, <1>4, <1>7, <1>8, <1>9 DEF Stacked, t
<1>11. ASSUME NEW j \in 2..Len(t) PROVE active[Head(t[j].ids)] \/ Covered(t, j)
  <2>1. t[j] = s[j - 1] /\ (j - 1 = 1 \/ j - 1 \in 2..Len(s))
    BY <1>3, <1>7
  <2>2. CASE j - 1 = 1
    BY <1>6, <2>1, <2>2
  <2>3. CASE j - 1 \in 2..Len(s) /\ Covered(s, j - 1)
    <3>1. PICK i \in 1..((j - 1) - 1) : s[i].responded > 0
      BY <2>3 DEF Covered
    <3>2. i + 1 \in 2..(Len(s) + 1) /\ (i + 1) - 1 = i /\ i + 1 \in 1..(j - 1)
      BY <1>3, <1>7, <2>3
    <3>3. t[i + 1] = s[i]
      BY <1>7, <3>2
    <3> QED BY <3>1, <3>2, <3>3 DEF Covered
  <2> QED BY <1>3, <2>1, <2>2, <2>3 DEF Callers
<1> QED
  BY <1>4, <1>10, <1>11 DEF Execution, Answering, Callers, t

\* The frame below the top comes back to the top.
LEMMA BelowTop ==
  ASSUME Inv, exec.pc = "rules", Len(exec.stack) > 1
  PROVE  /\ IsSequence(Tail(exec.stack)) /\ Tail(exec.stack) # <<>>
         /\ Len(Tail(exec.stack)) = Len(exec.stack) - 1 /\ Len(exec.stack) \in Nat
         /\ \A i \in 1..(Len(exec.stack) - 1) : Tail(exec.stack)[i] = exec.stack[i + 1]
         /\ \A i \in 1..(Len(exec.stack) - 1) : IsFrame(Tail(exec.stack)[i])
         /\ Caller = Tail(exec.stack)[1]
<1>1. /\ IsSequence(exec.stack) /\ exec.stack # <<>> /\ Len(exec.stack) \in Nat
      /\ \A i \in 1..Len(exec.stack) : IsFrame(exec.stack[i])
  BY TopFacts
<1>2. /\ IsSequence(Tail(exec.stack)) /\ Len(Tail(exec.stack)) = Len(exec.stack) - 1
      /\ \A i \in 1..(Len(exec.stack) - 1) : Tail(exec.stack)[i] = exec.stack[i + 1]
  BY <1>1, Popped
<1>3. Tail(exec.stack) # <<>>
  <2> DEFINE t == Tail(exec.stack)
  <2>1. Len(t) > 0
    BY <1>1, <1>2
  <2> HIDE DEF t
  <2>2. t = <<>> => Len(t) = 0
    BY NoFrame
  <2>3. t # <<>>
    BY <2>1, <2>2
  <2> QED BY <2>3 DEF t
<1>4. \A i \in 1..(Len(exec.stack) - 1) : i + 1 \in 1..Len(exec.stack)
  BY <1>1
<1>5. 1 \in 1..(Len(exec.stack) - 1) /\ 1 + 1 = 2
  BY <1>1
<1>6. Caller = Tail(exec.stack)[1]
  BY <1>2, <1>5 DEF Caller
<1> QED
  BY <1>1, <1>2, <1>3, <1>4, <1>6

\* The higher rules did not answer: the rule below them still has to.
LEMMA ReturnToRespondStep ==
  ASSUME Inv, ReturnToRespond
  PROVE  Execution(active)
<1> DEFINE s == exec.stack
           t == exec'.stack
<1>0. /\ exec.pc = "rules" /\ Len(s) > 1 /\ ~(Top.responded > 0)
      /\ exec' = [exec EXCEPT !.pc = "respond", !.stack = Tail(@)]
  BY DEF ReturnToRespond, HigherResponded
<1>1. /\ Top = s[1] /\ {"pc", "stack"} \subseteq DOMAIN exec /\ Callers(s, active)
  BY <1>0, TopFacts
<1>2. DOMAIN exec' = DOMAIN exec /\ exec'.pc = "respond" /\ t = Tail(s)
  BY <1>0, <1>1, Zenon
<1>3. /\ IsSequence(t) /\ t # <<>> /\ Len(t) = Len(s) - 1 /\ Len(s) \in Nat
      /\ \A i \in 1..(Len(s) - 1) : t[i] = s[i + 1] /\ IsFrame(t[i])
  BY <1>0, <1>2, BelowTop
<1> HIDE DEF s, t
<1>4. Stacked(exec')
  BY <1>1, <1>2, <1>3 DEF Stacked, t
<1>5. ASSUME NEW j \in 2..Len(s), Covered(s, j) PROVE j > 2 /\ Covered(t, j - 1)
  <2>1. PICK i \in 1..(j - 1) : s[i].responded > 0
    BY <1>5 DEF Covered
  <2>2. i # 1
    BY <1>0, <1>1, <2>1
  <2>3. i - 1 \in 1..((j - 1) - 1) /\ i - 1 \in 1..(Len(s) - 1) /\ (i - 1) + 1 = i /\ j > 2
    BY <1>3, <2>2
  <2>4. t[i - 1] = s[i]
    BY <1>3, <2>3
  <2> QED BY <2>1, <2>3, <2>4 DEF Covered
<1>6. active[Head(t[1].ids)]
  <2>1. 2 \in 2..Len(s) /\ 1 \in 1..(Len(s) - 1) /\ 1 + 1 = 2
    BY <1>0, <1>3
  <2>2. active[Head(s[2].ids)] \/ Covered(s, 2)
    BY <1>1, <2>1 DEF Callers
  <2>3. t[1] = s[2]
    BY <1>3, <2>1
  <2> QED BY <1>5, <2>1, <2>2, <2>3
<1>7. ASSUME NEW j \in 2..Len(t) PROVE active[Head(t[j].ids)] \/ Covered(t, j)
  <2>1. j + 1 \in 2..Len(s) /\ (j + 1) - 1 = j /\ j \in 1..(Len(s) - 1)
    BY <1>3
  <2>2. t[j] = s[j + 1]
    BY <1>3, <2>1
  <2>3. active[Head(s[j + 1].ids)] \/ Covered(s, j + 1)
    BY <1>1, <2>1 DEF Callers
  <2>4. Covered(s, j + 1) => Covered(t, j)
    BY <1>5, <2>1
  <2> QED BY <2>2, <2>3, <2>4
<1> QED
  BY <1>4, <1>6, <1>7 DEF Execution, Answering, Callers, t

\* A higher rule answered: its caller goes on with the next rule.
LEMMA ReturnToLowerStep ==
  ASSUME Inv, ReturnToLower
  PROVE  Execution(active)
<1> DEFINE s == exec.stack
           t == exec'.stack
           f == [Caller EXCEPT !.ids = Tail(@), !.responded = @ + Top.responded]
<1>0. /\ exec.pc = "rules" /\ Len(s) > 1 /\ Top.responded > 0
      /\ exec' = [exec EXCEPT !.stack = <<[Caller EXCEPT !.ids = Tail(@), !.responded = @ + Top.responded]>>
                                          \o Tail(Tail(@))]
  BY DEF ReturnToLower, HigherResponded
<1>1. /\ Top = s[1] /\ {"pc", "stack"} \subseteq DOMAIN exec /\ IsFrame(Top)
  BY <1>0, TopFacts
<1>2. DOMAIN exec' = DOMAIN exec /\ exec'.pc = "rules" /\ t = <<f>> \o Tail(Tail(s))
  BY <1>0, <1>1, Zenon
<1>3. /\ IsSequence(Tail(s)) /\ Tail(s) # <<>> /\ Len(Tail(s)) = Len(s) - 1 /\ Len(s) \in Nat
      /\ \A i \in 1..(Len(s) - 1) : IsFrame(Tail(s)[i])
      /\ Caller = Tail(s)[1]
  BY <1>0, BelowTop
<1>4. IsFrame(Caller)
  <2>1. 1 \in 1..(Len(s) - 1)
    BY <1>0, <1>3
  <2> QED BY <1>3, <2>1
<1>5. DOMAIN f = DOMAIN Caller /\ f.responded = Caller.responded + Top.responded
  BY <1>4, Zenon DEF IsFrame
<1> HIDE DEF f, s, t
<1>6. IsFrame(f) /\ f.responded >= Caller.responded /\ f.responded > 0
  <2>1. \A a, b, c \in Nat : c = a + b /\ b > 0 => c >= a /\ c > 0
    OBVIOUS
  <2>2. f.responded \in Nat /\ Caller.responded \in Nat /\ Top.responded \in Nat
    BY <1>1, <1>4, <1>5 DEF IsFrame
  <2> QED BY <1>0, <1>4, <1>5, <2>1, <2>2 DEF IsFrame
<1> DEFINE all == [x \in {Head(Tail(s)[i].ids) : i \in 1..Len(Tail(s))} |-> TRUE]
<1>7. Callers(Tail(s), all)
  <2>1. \A j \in 2..Len(Tail(s)) : j \in 1..Len(Tail(s))
    OBVIOUS
  <2> QED BY <2>1 DEF Callers
<1>8. /\ IsSequence(t) /\ t # <<>> /\ t[1] = f
      /\ \A i \in 1..Len(t) : IsFrame(t[i])
  <2> HIDE DEF all
  <2> QED BY <1>2, <1>3, <1>6, <1>7, TopReplaced
<1>9. Stacked(exec')
  BY <1>1, <1>2, <1>8 DEF Stacked, t
<1>10. ASSUME NEW j \in 2..Len(t) PROVE Covered(t, j)
  <2>1. 1 \in 1..(j - 1)
    OBVIOUS
  <2> QED BY <1>6, <1>8, <2>1 DEF Covered
<1> QED
  BY <1>2, <1>9, <1>10 DEF Execution, Answering, Callers, t

\* The last frame returns to the loop over the events.
LEMMA ReturnToExecuteStep ==
  ASSUME Inv, ReturnToExecute
  PROVE  Execution(active)
<1>1. \/ exec' = Idle
      \/ exec' = [exec EXCEPT !.pc = "events", !.checked = @ + 1, !.stack = <<>>,
                              !.responded = @ + Top.responded]
  BY DEF ReturnToExecute
<1>2. CASE exec' = Idle
  BY <1>2, IdleFields, EmptyStackStep
<1>3. CASE exec' = [exec EXCEPT !.pc = "events", !.checked = @ + 1, !.stack = <<>>,
                                !.responded = @ + Top.responded]
  <2>1. {"pc", "stack"} \subseteq DOMAIN exec
    BY DEF Inv, Stacked
  <2>2. DOMAIN exec' = DOMAIN exec /\ exec'.pc = "events" /\ exec'.stack = <<>>
    BY <1>3, <2>1, Zenon
  <2> QED BY <2>1, <2>2, EmptyStackStep
<1> QED
  BY <1>1, <1>2, <1>3
-----------------------------------------------------------------------------
\* The steps that keep the rules and what is counted of them.

\* The invariant from its three parts.
LEMMA InvFrom ==
  ASSUME Inv, Execution(active'), Accounts(hist', active')
  PROVE  Inv'
BY DEF Inv, Execution

\* The counts stay when only other fields of the history change.
LEMMA AccountsKept ==
  ASSUME Inv, active' = active, DOMAIN hist' = DOMAIN hist,
         hist'.responses = hist.responses, hist'.activations = hist.activations
  PROVE  Accounts(hist', active')
BY DEF Inv, Accounts

\* The fields of the history.
LEMMA HistFields ==
  ASSUME Inv
  PROVE  {"responses", "activations"} \subseteq DOMAIN hist
BY DEF Inv, Accounts

\* A rule that does not match is left behind.
LEMMA RuleStaysStep ==
  ASSUME Inv, RuleIsStrange \/ RuleIsSkipped \/ RuleCounts
  PROVE  Inv'
<1>1. exec.pc = "rules" /\ exec' = [exec EXCEPT !.stack = NextRule(0)] /\ active' = active
  BY DEF RuleIsStrange, RuleIsSkipped, RuleCounts, ruleVars
<1>2. {"pc", "stack"} \subseteq DOMAIN exec
  BY DEF Inv, Stacked
<1>3. DOMAIN exec' = DOMAIN exec /\ exec'.pc = "rules" /\ exec'.stack = NextRule(0)
  BY <1>1, <1>2, Zenon
<1>4. Execution(active)
  BY <1>1, <1>3, NextRuleStep
<1>5. \/ hist' = hist
      \/ hist' = [hist EXCEPT !.missed = TRUE]
      \/ hist' = [hist EXCEPT !.missed = @ \/ ~active[Rule]]
  BY DEF RuleIsStrange, RuleIsSkipped, RuleCounts
<1>6. /\ DOMAIN hist' = DOMAIN hist
      /\ hist'.responses = hist.responses /\ hist'.activations = hist.activations
  BY <1>5, HistFields, Zenon
<1> QED
  BY <1>1, <1>4, <1>6, AccountsKept, InvFrom

\* An active rule that matches is about to respond.
LEMMA RuleMatchesStep ==
  ASSUME Inv, RuleMatches
  PROVE  Inv'
<1>1. /\ exec.pc = "rules" /\ exec' = [exec EXCEPT !.pc = "higher"] /\ active[Rule]
      /\ active' = active /\ hist' = hist
  BY DEF RuleMatches, Applies
<1>2. {"pc", "stack"} \subseteq DOMAIN exec
  BY DEF Inv, Stacked
<1>3. DOMAIN exec' = DOMAIN exec /\ exec'.pc = "higher" /\ exec'.stack = exec.stack
  BY <1>1, <1>2, Zenon
<1>4. Execution(active)
  BY <1>1, <1>3, SameStackStep
<1> QED
  BY <1>1, <1>4, AccountsKept, InvFrom

\* Where the nesting ends the rule answers itself.
LEMMA HigherIsRefusedStep ==
  ASSUME Inv, HigherIsRefused
  PROVE  Inv'
<1>1. /\ exec.pc = "higher" /\ exec' = [exec EXCEPT !.pc = "respond", !.multiLevel = @ + 1]
      /\ hist' = [hist EXCEPT !.missed = TRUE] /\ active' = active
  BY DEF HigherIsRefused, ruleVars
<1>2. {"pc", "stack"} \subseteq DOMAIN exec
  BY DEF Inv, Stacked
<1>3. DOMAIN exec' = DOMAIN exec /\ exec'.pc = "respond" /\ exec'.stack = exec.stack
  BY <1>1, <1>2, Zenon
<1>4. active[Rule]
  <2>1. Top = exec.stack[1]
    BY <1>1, TopFacts
  <2> QED BY <1>1, <2>1 DEF Inv, Answering, Rule
<1>5. Execution(active)
  BY <1>1, <1>3, <1>4, SameStackStep
<1>6. /\ DOMAIN hist' = DOMAIN hist
      /\ hist'.responses = hist.responses /\ hist'.activations = hist.activations
  BY <1>1, HistFields, Zenon
<1> QED
  BY <1>1, <1>5, <1>6, AccountsKept, InvFrom

\* The response: the rule was active, and is not any more.
LEMMA RespondStep ==
  ASSUME Inv, NEW outcome, Respond(outcome)
  PROVE  Inv'
<1>1. /\ exec.pc = "respond" /\ exec' = [exec EXCEPT !.pc = "rules", !.stack = NextRule(1)]
      /\ hist' = [hist EXCEPT !.answers = @ \cup {Rule}, !.responses[Rule] = @ + 1]
      /\ active' = [id \in RuleIds |-> active[id] /\ id \notin Chain(Rule)]
  BY DEF Respond, Exhausted
<1>2. {"pc", "stack"} \subseteq DOMAIN exec
  BY DEF Inv, Stacked
<1>3. DOMAIN exec' = DOMAIN exec /\ exec'.pc = "rules" /\ exec'.stack = NextRule(1)
  BY <1>1, <1>2, Zenon
<1>4. Execution(active')
  BY <1>1, <1>3, NextRuleStep
<1>5. active[Rule]
  <2>1. Top = exec.stack[1]
    BY <1>1, TopFacts
  <2> QED BY <1>1, <2>1 DEF Inv, Answering, Rule
<1>6. /\ hist.responses \in [RuleIds -> Nat] /\ hist.activations \in [RuleIds -> Nat]
      /\ active \in [RuleIds -> BOOLEAN]
      /\ \A id \in RuleIds : /\ hist.responses[id] <= hist.activations[id]
                             /\ active[id] => hist.responses[id] < hist.activations[id]
  BY DEF Inv, Accounts
<1> DEFINE now == [hist.responses EXCEPT ![Rule] = @ + 1]
<1>7. /\ DOMAIN hist' = DOMAIN hist
      /\ hist'.responses = now /\ hist'.activations = hist.activations
  BY <1>1, HistFields, Zenon
<1>8. Rule \in Chain(Rule)
  BY DEF Chain
<1>9. now \in [RuleIds -> Nat]
  <2>1. ASSUME NEW f \in [RuleIds -> Nat], NEW r PROVE [f EXCEPT ![r] = @ + 1] \in [RuleIds -> Nat]
    <3>1. \A n \in Nat : n + 1 \in Nat
      OBVIOUS
    <3> QED BY <3>1
  <2> QED BY <1>6, <2>1, Zenon
<1>10. ASSUME NEW id \in RuleIds
       PROVE  /\ now[id] <= hist.activations[id]
              /\ active'[id] => now[id] < hist.activations[id]
  <2>1. CASE id = Rule
    <3>1. now[id] = hist.responses[id] + 1
      BY <1>6, <2>1
    <3>2. hist.responses[id] < hist.activations[id]
      BY <1>5, <1>6, <2>1
    <3>3. ~active'[id]
      BY <1>1, <1>8, <2>1
    <3>4. \A a, b \in Nat : a < b => a + 1 <= b
      OBVIOUS
    <3>5. hist.responses[id] \in Nat /\ hist.activations[id] \in Nat
      BY <1>6
    <3> QED BY <3>1, <3>2, <3>3, <3>4, <3>5
  <2>2. CASE id # Rule
    <3>1. now[id] = hist.responses[id]
      BY <1>6, <2>2
    <3>2. active'[id] => active[id]
      BY <1>1
    <3> QED BY <1>6, <3>1, <3>2
  <2> QED BY <2>1, <2>2
<1>11. active' \in [RuleIds -> BOOLEAN]
  <2>1. \A id \in RuleIds : (active[id] /\ id \notin Chain(Rule)) \in BOOLEAN
    OBVIOUS
  <2> QED BY <1>1, <2>1, Zenon
<1> HIDE DEF now
<1>12. Accounts(hist', active')
  BY <1>6, <1>7, <1>9, <1>10, <1>11, HistFields DEF Accounts
<1> QED
  BY <1>4, <1>12, InvFrom

\* Every step of the executor keeps the invariant.
LEMMA ExecutionStep ==
  ASSUME Inv, HandlerStep
  PROVE  Inv'
<1>1. CASE ExecuteDisagrees
  <2>1. /\ exec.pc = "idle" /\ exec' = exec /\ active' = active
        /\ hist' = [hist EXCEPT !.disturbed = TRUE]
    BY <1>1 DEF ExecuteDisagrees, ruleVars
  <2>2. /\ DOMAIN hist' = DOMAIN hist
        /\ hist'.responses = hist.responses /\ hist'.activations = hist.activations
    BY <2>1, HistFields, Zenon
  <2>3. Execution(active)
    BY <2>1 DEF Inv, Execution
  <2> QED BY <2>1, <2>2, <2>3, AccountsKept, InvFrom
<1>2. CASE Execute
  <2>1. Execution(active) /\ active' = active /\ hist' = hist
    BY <1>2, ExecuteStep DEF Execute, ruleVars
  <2> QED BY <2>1, AccountsKept, InvFrom
<1>3. CASE ExecuteEnds
  <2>1. exec' = Idle /\ active' = active /\ hist' = hist
    BY <1>3 DEF ExecuteEnds, ruleVars
  <2>2. Execution(active)
    BY <2>1, IdleFields, EmptyStackStep
  <2> QED BY <2>1, <2>2, AccountsKept, InvFrom
<1>4. CASE NextEvent
  <2>1. Execution(active) /\ active' = active
    BY <1>4, NextEventStep DEF NextEvent, ruleVars
  <2>2. \E done : hist' = [hist EXCEPT !.done = done, !.answers = {}]
    BY <1>4, Zenon DEF NextEvent
  <2>3. /\ DOMAIN hist' = DOMAIN hist
        /\ hist'.responses = hist.responses /\ hist'.activations = hist.activations
    BY <2>2, HistFields, Zenon
  <2> QED BY <2>1, <2>3, AccountsKept, InvFrom
<1>5. CASE RuleIsStrange \/ RuleIsSkipped \/ RuleCounts
  BY <1>5, RuleStaysStep
<1>6. CASE RuleMatches
  BY <1>6, RuleMatchesStep
<1>7. CASE HigherIsRefused
  BY <1>7, HigherIsRefusedStep
<1>8. CASE HigherIsAsked
  <2>1. Execution(active) /\ active' = active /\ hist' = hist
    BY <1>8, HigherIsAskedStep DEF HigherIsAsked, ruleVars
  <2> QED BY <2>1, AccountsKept, InvFrom
<1>9. CASE ReturnToLower
  <2>1. Execution(active) /\ active' = active /\ hist' = hist
    BY <1>9, ReturnToLowerStep DEF ReturnToLower, ruleVars
  <2> QED BY <2>1, AccountsKept, InvFrom
<1>10. CASE ReturnToRespond
  <2>1. Execution(active) /\ active' = active /\ hist' = hist
    BY <1>10, ReturnToRespondStep DEF ReturnToRespond, ruleVars
  <2> QED BY <2>1, AccountsKept, InvFrom
<1>11. CASE ReturnToExecute
  <2>1. Execution(active) /\ active' = active /\ hist' = hist
    BY <1>11, ReturnToExecuteStep DEF ReturnToExecute, ruleVars
  <2> QED BY <2>1, AccountsKept, InvFrom
<1>12. CASE \E outcome \in {"SUCCESS", "ADJUSTED", "FAILURE"} : Respond(outcome)
  BY <1>12, RespondStep
<1> QED
  BY <1>1, <1>2, <1>3, <1>4, <1>5, <1>6, <1>7, <1>8, <1>9, <1>10, <1>11, <1>12 DEF HandlerStep
-----------------------------------------------------------------------------
\* The steps between two executions.

\* Between two executions everything but the counts may change.
LEMMA IdleStep ==
  ASSUME Inv, Between, exec' = exec, Accounts(hist', active')
  PROVE  Inv'
<1>1. exec.pc = "idle" /\ exec.stack = <<>> /\ Stacked(exec)
  BY DEF Inv, Stacked, Between
<1>2. Callers(exec.stack, active')
  BY <1>1, NoFrame DEF Callers
<1> QED
  BY <1>1, <1>2 DEF Inv, Answering

\* A rule that becomes active gets one more response.
LEMMA ActivationStep ==
  ASSUME Inv, active' \in [RuleIds -> BOOLEAN], DOMAIN hist' = DOMAIN hist,
         hist'.responses = hist.responses, hist'.activations = ActivationsSeen
  PROVE  Accounts(hist', active')
<1>1. /\ hist.responses \in [RuleIds -> Nat] /\ hist.activations \in [RuleIds -> Nat]
      /\ active \in [RuleIds -> BOOLEAN]
      /\ \A id \in RuleIds : /\ hist.responses[id] <= hist.activations[id]
                             /\ active[id] => hist.responses[id] < hist.activations[id]
  BY DEF Inv, Accounts
<1> DEFINE r == hist.responses
           a == hist.activations
           seen == ActivationsSeen
<1>2. \A id \in RuleIds : seen[id] = a[id] + IF ~active[id] /\ active'[id] THEN 1 ELSE 0
  BY DEF ActivationsSeen, NowActive
<1>3. DOMAIN seen = RuleIds /\ seen = [id \in RuleIds |-> seen[id]]
  BY DEF ActivationsSeen
<1> HIDE DEF r, a, seen
<1>4. ASSUME NEW id \in RuleIds
      PROVE  seen[id] \in Nat /\ r[id] <= seen[id] /\ (active'[id] => r[id] < seen[id])
  <2>1. /\ r[id] \in Nat /\ a[id] \in Nat /\ r[id] <= a[id]
        /\ active[id] => r[id] < a[id]
    BY <1>1 DEF r, a
  <2>2. CASE ~active[id] /\ active'[id]
    <3>1. seen[id] = a[id] + 1
      BY <1>2, <2>2
    <3> QED BY <2>1, <3>1
  <2>3. CASE ~(~active[id] /\ active'[id])
    <3>1. seen[id] = a[id] + 0
      BY <1>2, <2>3
    <3>2. seen[id] = a[id]
      BY <2>1, <3>1
    <3> QED BY <2>1, <2>3, <3>2
  <2> QED BY <2>2, <2>3
<1>5. seen \in [RuleIds -> Nat]
  BY <1>3, <1>4
<1> QED
  BY <1>1, <1>4, <1>5, HistFields DEF Accounts, seen, r

\* The commands on rules leave flags.
LEMMA OperatedIsTyped ==
  ASSUME NEW op, NEW ids, active \in [RuleIds -> BOOLEAN],
         active' = [id \in RuleIds |-> IF id \in ids THEN op # "INACTIVATE" ELSE active[id]]
  PROVE  active' \in [RuleIds -> BOOLEAN]
<1>1. ASSUME NEW id \in RuleIds
      PROVE  (IF id \in ids THEN op # "INACTIVATE" ELSE active[id]) \in BOOLEAN
  <2>1. CASE id \in ids
    BY <2>1
  <2>2. CASE id \notin ids
    BY <2>2
  <2> QED BY <2>1, <2>2
<1> QED
  BY <1>1, Zenon

\* The commands on one rule, or on a chain of them, keep the invariant.
LEMMA CommandRuleStep ==
  ASSUME Inv, NEW op, NEW id, NEW multiLevel \in BOOLEAN, CommandRule(op, id, multiLevel)
  PROVE  Inv'
<1>1. /\ Between /\ exec' = exec
      /\ hist' = [hist EXCEPT !.activations = ActivationsSeen, !.recounted = @ \/ op = "INIT"]
      /\ Operate(op, IF multiLevel THEN Chain(id) ELSE {id})
  BY DEF CommandRule, OperateRule
<1>2. /\ DOMAIN hist' = DOMAIN hist
      /\ hist'.responses = hist.responses /\ hist'.activations = ActivationsSeen
  <2> DEFINE seen == ActivationsSeen
  <2>1. hist' = [hist EXCEPT !.activations = seen, !.recounted = @ \/ op = "INIT"]
    BY <1>1
  <2> HIDE DEF seen
  <2>2. DOMAIN hist' = DOMAIN hist /\ hist'.responses = hist.responses /\ hist'.activations = seen
    BY <2>1, HistFields, Zenon
  <2> QED BY <2>2 DEF seen
<1>3. active' \in [RuleIds -> BOOLEAN]
  BY <1>1, OperatedIsTyped DEF Inv, Accounts, Operate
<1> QED
  BY <1>1, <1>2, <1>3, ActivationStep, IdleStep

\* The commands on the table keep the invariant.
LEMMA CommandTableStep ==
  ASSUME Inv, CommandTable
  PROVE  Inv'
<1>1. /\ Between /\ exec' = exec
      /\ hist' = [hist EXCEPT !.activations = ActivationsSeen, !.recounted = TRUE]
      /\ \E id \in RuleIds, isActive \in BOOLEAN : active' = [active EXCEPT ![id] = isActive]
  BY DEF CommandTable, RegisterRule, DeleteRule
<1>2. /\ DOMAIN hist' = DOMAIN hist
      /\ hist'.responses = hist.responses /\ hist'.activations = ActivationsSeen
  <2> DEFINE seen == ActivationsSeen
  <2>1. hist' = [hist EXCEPT !.activations = seen, !.recounted = TRUE]
    BY <1>1
  <2> HIDE DEF seen
  <2>2. DOMAIN hist' = DOMAIN hist /\ hist'.responses = hist.responses /\ hist'.activations = seen
    BY <2>1, HistFields, Zenon
  <2> QED BY <2>2 DEF seen
<1>3. active' \in [RuleIds -> BOOLEAN]
  BY <1>1 DEF Inv, Accounts
<1> QED
  BY <1>1, <1>2, <1>3, ActivationStep, IdleStep

\* No rule is active in an empty table.
LEMMA ClearTableStep ==
  ASSUME Inv, ClearTable
  PROVE  Inv'
<1>1. /\ Between /\ exec' = exec /\ active' = [id \in RuleIds |-> FALSE]
      /\ hist' = [hist EXCEPT !.recounted = TRUE, !.disturbed = TRUE]
  BY DEF ClearTable, ClearAllRule, InitializeRules, NoRules
<1>2. /\ DOMAIN hist' = DOMAIN hist
      /\ hist'.responses = hist.responses /\ hist'.activations = hist.activations
  BY <1>1, HistFields, Zenon
<1>3. active' \in [RuleIds -> BOOLEAN] /\ \A id \in RuleIds : ~active'[id]
  BY <1>1
<1>4. Accounts(hist', active')
  BY <1>2, <1>3 DEF Inv, Accounts
<1> QED
  BY <1>1, <1>4, IdleStep

\* The other commands keep the rules active or inactive as they are, and the counts.
LEMMA OtherStep ==
  ASSUME Inv, exec' = exec, active' = active,
         \/ hist' = hist
         \/ hist' = [hist EXCEPT !.disturbed = TRUE]
         \/ hist' = [hist EXCEPT !.recounted = TRUE]
  PROVE  Inv'
<1>1. /\ DOMAIN hist' = DOMAIN hist
      /\ hist'.responses = hist.responses /\ hist'.activations = hist.activations
  BY HistFields, Zenon
<1>2. Accounts(hist', active')
  BY <1>1, AccountsKept
<1> QED
  BY <1>2 DEF Inv

\* All commands keep the invariant.
LEMMA CommandStep ==
  ASSUME Inv, HandlerCommand(EventGroups, Levels)
  PROVE  Inv'
<1>1. CASE ClearCounters \/ CommandLogger(EventGroups, Levels) \/ MatchCounters \/ Set
  BY <1>1, OtherStep DEF ClearCounters, CommandLogger, MatchCounters, Set, RulesUnchanged, ruleVars
<1>2. CASE \E op \in Ops, id \in RuleIds, multiLevel \in BOOLEAN : CommandRule(op, id, multiLevel)
  BY <1>2, CommandRuleStep
<1>3. CASE \E id \in RuleIds, n \in CounterValues : CommandCounter(id, n)
  BY <1>3, OtherStep DEF CommandCounter, SetRuleCounter
<1>4. CASE \E n \in MultiLevels : CommandMaxLevels(n)
  BY <1>4, OtherStep DEF CommandMaxLevels, SetMaxMultiLevelNum
<1>5. CASE CommandTable
  BY <1>5, CommandTableStep
<1>6. CASE ClearTable
  BY <1>6, ClearTableStep
<1> QED
  BY <1>1, <1>2, <1>3, <1>4, <1>5, <1>6 DEF HandlerCommand

\* Every step of the handler and around it.
LEMMA InvNext ==
  ASSUME Inv, [HandlerNext]_handlerVars
  PROVE  Inv'
<1>1. CASE HandlerStep
  BY <1>1, ExecutionStep
<1>2. CASE ClockTick
  BY <1>2, OtherStep DEF ClockTick, RulesUnchanged, ruleVars
<1>3. CASE HandlerCommand(EventGroups, Levels)
  BY <1>3, CommandStep
<1>4. CASE \E group \in EventGroups, local \in Locals, level \in Levels : RecordByUser(group, local, level)
  BY <1>4, OtherStep DEF RecordByUser, RulesUnchanged, ruleVars
<1>5. CASE UNCHANGED handlerVars
  BY <1>5, OtherStep DEF handlerVars, ruleVars
<1> QED BY <1>1, <1>2, <1>3, <1>4, <1>5 DEF HandlerNext

LEMMA InvInit == HandlerInit => Inv
<1> SUFFICES ASSUME HandlerInit PROVE Inv
  OBVIOUS
<1>1. exec = Idle /\ active = [id \in RuleIds |-> FALSE]
  BY DEF HandlerInit, HandlerStart, RulesInit
<1>2. Stacked(exec) /\ Callers(exec.stack, active) /\ Answering(exec, active)
  BY <1>1, IdleFields, NoFrame DEF Stacked, Callers, Answering
<1>3. /\ {"responses", "activations"} \subseteq DOMAIN hist
      /\ hist.responses = [id \in RuleIds |-> 0]
      /\ hist.activations = [id \in RuleIds |-> IF active[id] THEN 1 ELSE 0]
  BY DEF HandlerInit, HandlerStart
<1>4. \A id \in RuleIds : hist.responses[id] = 0 /\ hist.activations[id] = 0 /\ active[id] = FALSE
  BY <1>1, <1>3
<1>5. hist.responses \in [RuleIds -> Nat] /\ active \in [RuleIds -> BOOLEAN]
  BY <1>1, <1>3
<1>6. hist.activations \in [RuleIds -> Nat]
  BY <1>3
<1> QED BY <1>2, <1>3, <1>4, <1>5, <1>6 DEF Inv, Accounts

\* The invariant holds of the handler, whatever the rules, the events and the commands are.
THEOREM Invariance == HandlerSpec => []Inv
<1> QED
  BY InvInit, InvNext, PTL DEF HandlerSpec

\* A rule responds at most once each time it is activated (EH_respond_ makes the rule and those
\* below it inactive), whatever the chain of rules, the events that come meanwhile and the
\* outcomes of the deployments are.
THEOREM RulesRespondOnce == HandlerSpec => []OneResponsePerActivation
<1>1. Inv => OneResponsePerActivation
  BY DEF Inv, Accounts, OneResponsePerActivation
<1> QED
  BY <1>1, Invariance, PTL

-----------------------------------------------------------------------------
(***************************************************************************)
(* The logs of the logger.                                                 *)
(***************************************************************************)

\* A ring of c slots, the write pointer and the events that were put into it.
RingHolds(ring, w, s, c) ==
    /\ w \in 0..(c - 1) /\ DOMAIN ring = 0..(c - 1) /\ IsSequence(s)
    /\ \A n \in 0..(c - 1) :
          ring[(w - 1 - n + c) % c] = IF n < Len(s) THEN s[Len(s) - n] ELSE NoEvent

\* A ring that was cleared.
LEMMA RingEmpty ==
  ASSUME NEW c \in Nat \ {0}
  PROVE  RingHolds([i \in 0..(c - 1) |-> NoEvent], 0, <<>>, c)
<1>1. 0 \in 0..(c - 1) /\ IsSequence(<<>>) /\ Len(<<>>) = 0
  BY NoFrame
<1>2. ASSUME NEW n \in 0..(c - 1) PROVE (0 - 1 - n + c) % c \in 0..(c - 1)
  <2>1. (0 - 1 - n + c) % c = (0 - 1 - n) + c
    BY <1>1, SlotIs
  <2> QED BY <2>1
<1> HIDE DEF NoEvent
<1> QED BY <1>1, <1>2 DEF RingHolds

\* An event overwrites the oldest one of its ring, and all others are one further from the latest.
LEMMA RingStep ==
  ASSUME NEW c \in Nat \ {0}, NEW ring, NEW w, NEW s, RingHolds(ring, w, s, c), NEW e
  PROVE  RingHolds([ring EXCEPT ![w] = e], (w + 1) % c, Append(s, e), c)
<1> DEFINE v == (w + 1) % c
           t == Append(s, e)
           new == [ring EXCEPT ![w] = e]
<1>1. w \in 0..(c - 1) /\ DOMAIN ring = 0..(c - 1) /\ IsSequence(s)
  BY DEF RingHolds
<1>2. /\ IsSequence(t) /\ Len(s) \in Nat /\ Len(t) = Len(s) + 1 /\ t[Len(s) + 1] = e
      /\ \A i \in 1..Len(s) : t[i] = s[i]
  BY <1>1, Appended
<1>3. v = IF w = c - 1 THEN 0 ELSE w + 1
  BY <1>1, SlotIs
<1>4. v \in 0..(c - 1)
  BY <1>1, <1>3
<1>5. DOMAIN new = 0..(c - 1) /\ new[w] = e /\ \A i \in 0..(c - 1) : i # w => new[i] = ring[i]
  BY <1>1
<1> HIDE DEF v, t, new
<1>6. ASSUME NEW n \in 0..(c - 1)
      PROVE  new[(v - 1 - n + c) % c] = IF n < Len(t) THEN t[Len(t) - n] ELSE NoEvent
  <2>1. (v - 1 - n + c) % c = IF n < v THEN v - 1 - n ELSE (v - 1 - n) + c
    BY <1>4, SlotIs
  <2>2. CASE n = 0
    <3>1. (v - 1 - n + c) % c = w
      <4>1. (IF n < v THEN v - 1 - n ELSE (v - 1 - n) + c) = w
        BY <2>2, <1>1, <1>3
      <4> QED BY <2>1, <4>1
    <3>2. n < Len(t) /\ Len(t) - n = Len(s) + 1
      BY <1>2, <2>2
    <3> QED BY <3>1, <3>2, <1>2, <1>5
  <2>3. CASE n # 0
    <3> DEFINE m == n - 1
    <3>1. m \in 0..(c - 1)
      BY <2>3
    <3> HIDE DEF m
    <3>2. (w - 1 - m + c) % c = IF m < w THEN w - 1 - m ELSE (w - 1 - m) + c
      BY <1>1, <3>1, SlotIs
    <3>3. (IF n < v THEN v - 1 - n ELSE (v - 1 - n) + c) = (IF m < w THEN w - 1 - m ELSE (w - 1 - m) + c)
      BY <2>3, <1>1, <1>3 DEF m
    <3>4. (IF m < w THEN w - 1 - m ELSE (w - 1 - m) + c) \in 0..(c - 1) \ {w}
      BY <2>3, <1>1, <3>1 DEF m
    <3>5. new[(v - 1 - n + c) % c] = ring[(w - 1 - m + c) % c]
      BY <2>1, <3>2, <3>3, <3>4, <1>5
    <3>6. ring[(w - 1 - m + c) % c] = IF m < Len(s) THEN s[Len(s) - m] ELSE NoEvent
      BY <3>1 DEF RingHolds
    <3>7. (m < Len(s) <=> n < Len(t)) /\ Len(s) - m = Len(t) - n /\ (m < Len(s) => Len(s) - m \in 1..Len(s))
      BY <1>2, <3>1 DEF m
    <3> QED BY <3>5, <3>6, <3>7, <1>2
  <2> QED BY <2>2, <2>3
<1> QED BY <1>2, <1>4, <1>5, <1>6 DEF RingHolds, v, t, new
-----------------------------------------------------------------------------
\* The order of CLog.

NoKind == Kind(NoEvent)

\* K has the kinds at the places of the order and m their counts, after the events of h.
Recent(K, h, c) ==
    \A i \in 1..c :
        IF i <= Cardinality(ToSet(h))
        THEN K[i] \in ToSet(h) /\ Cardinality(Newer(h, Len(h), K[i])) = i - 1
        ELSE K[i] = NoKind
Counts(K, m, h, c) == \A i \in 1..c : m[i] = Cardinality(CountedFor(h, c, K[i]))

\* Place j has come to the front, and those before it have moved on.
Before(i, j) == IF i <= j THEN i - 1 ELSE i
MovedOn(T, K, j, c) == \A i \in 2..c : T[i] = K[Before(i, j)]

\* x is the kind at place j, or it has no place and j is the last one.
IsPlaceOf(j, x, K, c) == j \in 1..c /\ (K[j] = x \/ (j = c /\ \A i \in 1..c : K[i] # x))

\* How many kinds came after a kind says where it is.
LEMMA RankSaysPlace ==
  ASSUME NEW h, IsSequence(h), NEW c \in Nat \ {0}, NEW K, Recent(K, h, c),
         NEW x \in ToSet(h), NEW j, IsPlaceOf(j, x, K, c), x # NoKind
  PROVE  /\ Cardinality(Newer(h, Len(h), x)) \in Nat
         /\ Cardinality(Newer(h, Len(h), x)) < Cardinality(ToSet(h))
         /\ K[j] = x => Cardinality(Newer(h, Len(h), x)) = j - 1
         /\ K[j] # x => Cardinality(Newer(h, Len(h), x)) >= c
<1> DEFINE N == Newer(h, Len(h), x)
           R == Cardinality(N)
           d == Cardinality(ToSet(h))
<1>1. /\ Len(h) \in Nat /\ IsFiniteSet(ToSet(h)) /\ d \in Nat /\ R \in Nat /\ IsFiniteSet(N)
      /\ N \subseteq ToSet(h)
  BY KindsOf, NewerIsFinite
<1>2. R < d
  <2>1. x \notin N
    BY DEF Newer
  <2>2. N # ToSet(h)
    BY <2>1
  <2> HIDE DEF N
  <2>3. R <= d /\ R # d
    BY <1>1, <2>2, FS_Subset
  <2> QED BY <1>1, <2>3
<1>3. j \in 1..c
  BY DEF IsPlaceOf
<1>4. CASE K[j] = x
  <2>1. j <= d => R = j - 1
    BY <1>3, <1>4 DEF Recent
  <2>2. ~(j <= d) => K[j] = NoKind
    BY <1>3 DEF Recent
  <2> QED BY <1>1, <1>2, <1>4, <2>1, <2>2
<1>5. CASE K[j] # x
  <2>1. \A i \in 1..c : K[i] # x
    BY <1>5 DEF IsPlaceOf
  <2>2. SUFFICES ASSUME R < c PROVE FALSE
    BY <1>1, <1>2, <1>5
  <2> DEFINE p == R + 1
             y == K[p]
  <2>3. p \in 1..c /\ p <= d /\ p - 1 = R
    BY <1>1, <1>2, <2>2
  <2> HIDE DEF p, R
  <2>4. y \in ToSet(h) /\ Cardinality(Newer(h, Len(h), y)) = R
    BY <2>3 DEF Recent
  <2>5. y # x
    BY <2>1, <2>3
  <2> HIDE DEF y
  <2>6. x \in Newer(h, Len(h), y) \/ y \in Newer(h, Len(h), x)
    BY <2>4, <2>5, NewerIsTotal
  <2>7. x \in Newer(h, Len(h), y) => R < R
    BY <2>4, <1>1, NewerNested DEF R
  <2>8. y \in Newer(h, Len(h), x) => R < R
    BY <2>4, <1>1, NewerNested DEF R
  <2>9. R \in Nat
    BY <1>1 DEF R
  <2> QED BY <2>6, <2>7, <2>8, <2>9
<1> QED BY <1>1, <1>2, <1>4, <1>5

\* The number of kinds with one more event.
LEMMA OneMoreKind ==
  ASSUME NEW h, IsSequence(h), NEW x, NEW t, t = Append(h, x)
  PROVE  Cardinality(ToSet(t)) = IF x \in ToSet(h) THEN Cardinality(ToSet(h)) ELSE Cardinality(ToSet(h)) + 1
<1>1. IsFiniteSet(ToSet(h))
  BY KindsOf
<1>2. ToSet(t) = ToSet(h) \cup {x}
  <2>1. Follows(t, h, x)
    BY NewerAfter
  <2> QED BY <2>1 DEF Follows
<1>3. CASE x \in ToSet(h)
  <2>1. ToSet(t) = ToSet(h)
    BY <1>2, <1>3
  <2> QED BY <2>1, <1>3
<1>4. CASE x \notin ToSet(h)
  BY <1>1, <1>2, <1>4, FS_AddElement
<1> QED BY <1>3, <1>4

\* The kind that moves on to place i has one more kind after it, if place j was behind it,
\* and stays where it is otherwise.
HasMovedOn(t, h, i, x, y) ==
    /\ y # x
    /\ i <= Cardinality(ToSet(t)) =>
          y \in ToSet(h) /\ Cardinality(Newer(t, Len(h) + 1, y)) = i - 1
    /\ ~(i <= Cardinality(ToSet(t))) => y = NoKind

\* What a place of the order says after the move to the front.
LEMMA PlaceMovesOn ==
  ASSUME NEW h, IsSequence(h), NEW c \in Nat \ {0}, NEW K, Recent(K, h, c),
         NEW x, x # NoKind, NEW j, IsPlaceOf(j, x, K, c), NEW t, t = Append(h, x),
         NoKind \notin ToSet(h),
         NEW i \in 2..c, NEW y, y = K[Before(i, j)]
  PROVE  HasMovedOn(t, h, i, x, y)
<1> USE DEF HasMovedOn
<1> DEFINE a == Before(i, j)
           d == Cardinality(ToSet(h))
           R == Cardinality(Newer(h, Len(h), x))
           dd == Cardinality(ToSet(t))
<1>1. Len(h) \in Nat /\ d \in Nat /\ R \in Nat /\ j \in 1..c
  BY KindsOf, NewerIsFinite DEF IsPlaceOf
<1>2. dd = IF x \in ToSet(h) THEN d ELSE d + 1
  BY OneMoreKind
<1>3. a \in 1..c /\ (i <= j => a = i - 1 /\ a < j) /\ (~(i <= j) => a = i /\ a > j /\ K[j] = x)
  BY <1>1 DEF Before, IsPlaceOf
<1>4. x \in ToSet(h) => R < d /\ (K[j] = x => R = j - 1) /\ (K[j] # x => R >= c)
  BY RankSaysPlace
<1>5. K[j] = x => x \in ToSet(h)
  BY <1>1 DEF Recent
<1>6. /\ a <= d => y \in ToSet(h) /\ Cardinality(Newer(h, Len(h), y)) = a - 1
      /\ ~(a <= d) => y = NoKind
  BY <1>3 DEF Recent
<1>7. \A z : z # x => Newer(t, Len(h) + 1, z) = Newer(h, Len(h), z) \cup {x}
  <2>1. Follows(t, h, x)
    BY NewerAfter
  <2> QED BY <2>1 DEF Follows
<1>8. y # x
  <2> SUFFICES ASSUME y = x PROVE FALSE
    OBVIOUS
  <2>1. a <= d /\ x \in ToSet(h) /\ R = a - 1
    BY <1>6
  <2>2. a \in Nat /\ j \in Nat /\ c \in Nat /\ a <= c
    BY <1>1, <1>3
  <2> HIDE DEF a, d, R
  <2> QED BY <1>1, <1>3, <1>4, <2>1, <2>2
<1> HIDE DEF a
<1>9. CASE i <= j
  <2>1. i <= dd <=> a <= d
    <3>1. CASE x \in ToSet(h)
      <4>1. dd = d /\ R < d /\ R >= j - 1
        BY <3>1, <1>1, <1>2, <1>4
      <4> HIDE DEF d, dd, R
      <4>2. a = i - 1 /\ i \in Nat /\ j \in Nat
        BY <1>1, <1>3, <1>9
      <4> QED BY <4>1, <4>2, <1>1, <1>9
    <3>2. CASE x \notin ToSet(h)
      <4>1. dd = d + 1 /\ a = i - 1
        BY <3>2, <1>2, <1>3, <1>9
      <4> HIDE DEF d, dd
      <4> QED BY <4>1, <1>1
    <3> QED BY <3>1, <3>2
  <2>2. ASSUME a <= d PROVE Cardinality(Newer(t, Len(h) + 1, y)) = i - 1
    <3>1. x \notin Newer(h, Len(h), y)
      <4> SUFFICES ASSUME x \in Newer(h, Len(h), y) PROVE FALSE
        OBVIOUS
      <4>1. R < Cardinality(Newer(h, Len(h), y))
        BY <1>1, NewerNested
      <4>2. R < a - 1
        BY <4>1, <2>2, <1>6
      <4>3. x \in ToSet(h)
        BY KindsOf
      <4> HIDE DEF R, d
      <4>4. a \in Nat /\ j \in Nat /\ c \in Nat /\ a < j /\ j <= c
        BY <1>1, <1>3, <1>9
      <4> QED BY <4>2, <4>3, <4>4, <1>1, <1>4
    <3>2. Newer(t, Len(h) + 1, y) = Newer(h, Len(h), y) \cup {x}
      BY <1>7, <1>8
    <3>3. IsFiniteSet(Newer(h, Len(h), y)) /\ Cardinality(Newer(h, Len(h), y)) = a - 1
      BY <1>1, <1>6, <2>2, NewerIsFinite
    <3>4. Cardinality(Newer(t, Len(h) + 1, y)) = (a - 1) + 1
      BY <3>1, <3>2, <3>3, FS_AddElement
    <3> QED BY <3>4, <1>3, <1>9
  <2> QED BY <2>1, <2>2, <1>6, <1>8
<1>10. CASE ~(i <= j)
  <2>1. x \in ToSet(h) /\ dd = d /\ a = i /\ R = j - 1 /\ a > j
    BY <1>2, <1>3, <1>4, <1>5, <1>10
  <2>2. ASSUME a <= d PROVE Cardinality(Newer(t, Len(h) + 1, y)) = i - 1
    <3>0. y \in ToSet(h) /\ Cardinality(Newer(h, Len(h), y)) = a - 1
      BY <1>6, <2>2
    <3>1. x \in Newer(h, Len(h), y) \/ y \in Newer(h, Len(h), x)
      BY <1>8, <2>1, <3>0, NewerIsTotal
    <3>2. y \in Newer(h, Len(h), x) => a - 1 < R
      BY <1>1, <3>0, NewerNested
    <3>3. x \in Newer(h, Len(h), y)
      <4> HIDE DEF R
      <4>1. ~(a - 1 < R)
        BY <1>1, <1>3, <2>1
      <4> QED BY <3>1, <3>2, <4>1
    <3>4. Newer(t, Len(h) + 1, y) = Newer(h, Len(h), y)
      BY <1>7, <1>8, <3>3
    <3> QED BY <3>0, <3>4, <2>1
  <2> QED BY <2>1, <2>2, <1>6, <1>8
<1> QED BY <1>8, <1>9, <1>10

\* An event of a kind brings the kind to the front of CLog.
LEMMA FrontStep ==
  ASSUME NEW h, IsSequence(h), NoKind \notin ToSet(h), NEW c \in Nat \ {0},
         NEW K, Recent(K, h, c), NEW m, Counts(K, m, h, c),
         NEW x, x # NoKind, NEW j, IsPlaceOf(j, x, K, c),
         NEW T, T[1] = x, MovedOn(T, K, j, c),
         NEW n, n[1] = (IF K[j] = x THEN m[j] ELSE 0) + 1, MovedOn(n, m, j, c),
         NEW t, t = Append(h, x)
  PROVE  Recent(T, t, c) /\ Counts(T, n, t, c)
<1>1. Len(h) \in Nat /\ Len(t) = Len(h) + 1
  BY Appended
<1>2. /\ Newer(t, Len(h) + 1, x) = {} /\ ToSet(t) = ToSet(h) \cup {x}
  <2>1. Follows(t, h, x)
    BY NewerAfter
  <2> QED BY <2>1 DEF Follows
<1>3. j \in 1..c /\ Cardinality(ToSet(h)) \in Nat
  BY KindsOf DEF IsPlaceOf
<1>4. 1 <= Cardinality(ToSet(t))
  <2>1. Cardinality(ToSet(t)) = IF x \in ToSet(h) THEN Cardinality(ToSet(h)) ELSE Cardinality(ToSet(h)) + 1
    BY OneMoreKind
  <2>2. x \in ToSet(h) => Cardinality(Newer(h, Len(h), x)) \in Nat
                          /\ Cardinality(Newer(h, Len(h), x)) < Cardinality(ToSet(h))
    BY RankSaysPlace
  <2> QED BY <2>1, <2>2, <1>3
<1>5. ASSUME NEW i \in 2..c
      PROVE  /\ T[i] # x
             /\ i <= Cardinality(ToSet(t)) =>
                   T[i] \in ToSet(h) /\ Cardinality(Newer(t, Len(h) + 1, T[i])) = i - 1
             /\ ~(i <= Cardinality(ToSet(t))) => T[i] = NoKind
  <2> DEFINE y == T[i]
  <2>1. y = K[Before(i, j)]
    BY DEF MovedOn
  <2> HIDE DEF y
  <2>2. HasMovedOn(t, h, i, x, y)
    BY <2>1, PlaceMovesOn
  <2> QED BY <2>2 DEF y, HasMovedOn
<1>6. Recent(T, t, c)
  <2> SUFFICES ASSUME NEW i \in 1..c
               PROVE  IF i <= Cardinality(ToSet(t))
                      THEN T[i] \in ToSet(t) /\ Cardinality(Newer(t, Len(t), T[i])) = i - 1
                      ELSE T[i] = NoKind
    BY DEF Recent
  <2>1. CASE i = 1
    <3>1. T[i] \in ToSet(t) /\ Cardinality(Newer(t, Len(t), T[i])) = 0
      BY <2>1, <1>1, <1>2, FS_EmptySet
    <3> QED BY <2>1, <3>1, <1>4
  <2>2. CASE i # 1
    <3>1. i \in 2..c
      BY <2>2
    <3> QED BY <3>1, <1>1, <1>2, <1>5
  <2> QED BY <2>1, <2>2
<1>7. Counts(T, n, t, c)
  <2> SUFFICES ASSUME NEW i \in 1..c PROVE n[i] = Cardinality(CountedFor(t, c, T[i]))
    BY DEF Counts
  <2>1. CASE i = 1
    <3>1. Cardinality(CountedFor(t, c, x)) = Cardinality(CountedFor(h, c, x)) + 1
      BY CountsOneMore
    <3>2. CASE K[j] = x
      <4>1. m[j] = Cardinality(CountedFor(h, c, x))
        BY <3>2, <1>3 DEF Counts
      <4> QED BY <2>1, <3>1, <3>2, <4>1
    <3>3. CASE K[j] # x
      <4>1. x \in ToSet(h) => Cardinality(Newer(h, Len(h), x)) >= c
        BY <3>3, RankSaysPlace
      <4>2. Cardinality(CountedFor(h, c, x)) = 0
        BY <4>1, CountsNone
      <4> QED BY <2>1, <3>1, <3>3, <4>2
    <3> QED BY <3>2, <3>3
  <2>2. CASE i # 1
    <3>1. i \in 2..c /\ Before(i, j) \in 1..c
      BY <2>2, <1>3 DEF Before
    <3>2. n[i] = m[Before(i, j)] /\ T[i] = K[Before(i, j)]
      BY <3>1 DEF MovedOn
    <3>3. n[i] = Cardinality(CountedFor(h, c, T[i]))
      BY <3>1, <3>2 DEF Counts
    <3> DEFINE y == T[i]
    <3>4. y # x /\ NotDropped(y, t, h, c)
      <4>1. CASE i <= Cardinality(ToSet(t))
        <5>1. y # x /\ Cardinality(Newer(t, Len(h) + 1, y)) = i - 1
          BY <3>1, <4>1, <1>5
        <5> QED BY <5>1 DEF NotDropped
      <4>2. CASE ~(i <= Cardinality(ToSet(t)))
        BY <3>1, <4>2, <1>5 DEF NotDropped
      <4> QED BY <4>1, <4>2
    <3> HIDE DEF y
    <3>5. CountsStay(t, h, c, x, y)
      BY OtherCountsStay
    <3>6. CountedFor(t, c, y) = CountedFor(h, c, y)
      BY <3>4, <3>5 DEF CountsStay
    <3> QED BY <3>3, <3>6 DEF y
  <2> QED BY <2>1, <2>2
<1> QED BY <1>6, <1>7

\* An order of the logs 1..c.
Permutes(order, c) ==
    /\ order \in Seq(1..c) /\ Len(order) = c
    /\ \A a, b \in 1..c : a # b => order[a] # order[b]
    /\ \A v \in 1..c : \E a \in 1..c : order[a] = v

\* The move to the front.
InFront(front, order, j, c) ==
    /\ Permutes(front, c) /\ front[1] = order[j]
    /\ \A i \in 2..c : Before(i, j) \in (1..c) \ {j} /\ front[i] = order[Before(i, j)]

\* What the memmove does to the order.
LEMMA ToFrontMoves ==
  ASSUME NEW c \in Nat \ {0}, NEW order, Permutes(order, c), NEW j \in 1..c
  PROVE  InFront(ToFront(order, j), order, j, c)
<1> DEFINE new == ToFront(order, j)
           rest == RemoveAt(order, j)
<1>1. order \in Seq(1..c) /\ Len(order) = c /\ j \in 1..Len(order)
  BY DEF Permutes
<1>2. /\ rest \in Seq(1..c) /\ Len(rest) = c - 1
      /\ \A i \in 1..(c - 1) : rest[i] = IF i < j THEN order[i] ELSE order[i + 1]
  BY <1>1, RemoveAtProperties
<1>3. order[j] \in 1..c
  BY <1>1, ElementOfSeq
<1> HIDE DEF rest
<1>4. /\ new \in Seq(1..c) /\ Len(new) = c /\ new[1] = order[j]
      /\ \A i \in 2..c : new[i] = rest[i - 1]
  <2>1. new = <<order[j]>> \o rest
    BY DEF ToFront, rest
  <2>2. <<order[j]>> \in Seq(1..c) /\ Len(<<order[j]>>) = 1
    BY <1>3
  <2>3. IsSequence(rest)
    BY <1>2 DEF IsSequence
  <2>4. Len(<<order[j]>> \o rest) = Len(rest) + 1 /\ (<<order[j]>> \o rest)[1] = order[j]
        /\ \A i \in 2..(Len(rest) + 1) : (<<order[j]>> \o rest)[i] = rest[i - 1]
    BY <2>3, Pushed
  <2>5. new \in Seq(1..c)
    BY <2>1, <2>2, <1>2
  <2>6. Len(rest) + 1 = c
    BY <1>2
  <2> QED BY <2>1, <2>4, <2>5, <2>6
<1> HIDE DEF new
<1>5. ASSUME NEW i \in 2..c PROVE Before(i, j) \in (1..c) \ {j} /\ new[i] = order[Before(i, j)]
  <2>1. i - 1 \in 1..(c - 1) /\ i - 1 + 1 = i
    OBVIOUS
  <2>2. new[i] = IF i - 1 < j THEN order[i - 1] ELSE order[i]
    BY <1>2, <1>4, <2>1
  <2>3. i - 1 < j <=> i <= j
    OBVIOUS
  <2> QED BY <2>2, <2>3 DEF Before
<1>6. ASSUME NEW a \in 1..c, NEW b \in 1..c, a # b PROVE new[a] # new[b]
  <2> DEFINE p(i) == IF i = 1 THEN j ELSE Before(i, j)
  <2>1. \A i \in 1..c : new[i] = order[p(i)] /\ p(i) \in 1..c
    BY <1>4, <1>5
  <2>2. p(a) # p(b)
    BY <1>6 DEF Before
  <2>3. \A x, y \in 1..c : x # y => order[x] # order[y]
    BY DEF Permutes
  <2> HIDE DEF p
  <2>4. /\ p(a) \in 1..c /\ p(b) \in 1..c
        /\ new[a] = order[p(a)] /\ new[b] = order[p(b)]
    BY <2>1
  <2>5. order[p(a)] # order[p(b)]
    BY <2>2, <2>3, <2>4
  <2> QED BY <2>4, <2>5
<1>7. ASSUME NEW v \in 1..c PROVE \E a \in 1..c : new[a] = v
  <2>1. PICK b \in 1..c : order[b] = v
    BY DEF Permutes
  <2>2. CASE b = j
    BY <1>4, <2>1, <2>2
  <2>3. CASE b < j
    <3>1. b + 1 \in 2..c /\ Before(b + 1, j) = b
      BY <2>3 DEF Before
    <3>2. new[b + 1] = v /\ b + 1 \in 1..c
      BY <2>1, <3>1, <1>5
    <3> QED BY <3>2
  <2>4. CASE b > j
    <3>1. b \in 2..c /\ Before(b, j) = b
      BY <2>4 DEF Before
    <3>2. new[b] = v /\ b \in 1..c
      BY <2>1, <3>1, <1>5
    <3> QED BY <3>2
  <2> QED BY <2>2, <2>3, <2>4
<1>8. Permutes(new, c)
  BY <1>4, <1>6, <1>7 DEF Permutes
<1> QED BY <1>4, <1>5, <1>8 DEF new, InFront

\* The kinds and the counts in their order, and a table of logs after the events of the kinds h.
KindsIn(logs, order, c) == [i \in 1..c |-> Kind(logs[order[i]].event)]
CountsIn(logs, order, c) == [i \in 1..c |-> logs[order[i]].count]
ClogHolds(logs, order, h, c) ==
    /\ Permutes(order, c) /\ DOMAIN logs = 1..c
    /\ IsSequence(h) /\ NoKind \notin ToSet(h)
    /\ Recent(KindsIn(logs, order, c), h, c) /\ Counts(KindsIn(logs, order, c), CountsIn(logs, order, c), h, c)
    /\ \A i \in 1..c : KindsIn(logs, order, c)[i] = NoKind => logs[order[i]] = [event |-> NoEvent, count |-> 0]

\* An event in CLog: its log comes to the front, found or made of the last one.
LEMMA ClogStep ==
  ASSUME NEW c \in Nat \ {0}, NEW logs, NEW order, NEW h, ClogHolds(logs, order, h, c),
         NEW e, Kind(e) # NoKind, NEW j, IsPlaceOf(j, Kind(e), KindsIn(logs, order, c), c),
         NEW n, n = (IF KindsIn(logs, order, c)[j] = Kind(e) THEN CountsIn(logs, order, c)[j] ELSE 0) + 1
  PROVE  ClogHolds([logs EXCEPT ![order[j]] = [event |-> e, count |-> n]], ToFront(order, j),
                   Append(h, Kind(e)), c)
<1> DEFINE x == Kind(e)
           t == Append(h, x)
           new == [logs EXCEPT ![order[j]] = [event |-> e, count |-> n]]
           front == ToFront(order, j)
           K == KindsIn(logs, order, c)
           T == KindsIn(new, front, c)
           m == CountsIn(logs, order, c)
           u == CountsIn(new, front, c)
<1>1. /\ Permutes(order, c) /\ DOMAIN logs = 1..c /\ IsSequence(h) /\ NoKind \notin ToSet(h)
      /\ Recent(K, h, c) /\ Counts(K, m, h, c)
      /\ \A i \in 1..c : K[i] = NoKind => logs[order[i]] = [event |-> NoEvent, count |-> 0]
  BY DEF ClogHolds
<1>2. j \in 1..c /\ \A i \in 1..c : order[i] \in 1..c
  <2>1. \A i \in 1..c : order[i] \in 1..c
    BY <1>1, ElementOfSeq DEF Permutes
  <2> QED BY <2>1 DEF IsPlaceOf
<1>3. /\ Permutes(front, c) /\ front[1] = order[j]
      /\ \A i \in 2..c : Before(i, j) \in (1..c) \ {j} /\ front[i] = order[Before(i, j)]
  <2>1. InFront(front, order, j, c)
    BY <1>1, <1>2, ToFrontMoves
  <2> HIDE DEF front
  <2> QED BY <2>1 DEF InFront
<1>4. /\ DOMAIN new = 1..c /\ new[order[j]] = [event |-> e, count |-> n]
      /\ \A i \in 2..c : new[front[i]] = logs[order[Before(i, j)]]
  <2>1. \A i \in 2..c : front[i] # order[j] /\ front[i] \in 1..c
    <3> HIDE DEF front, new
    <3> SUFFICES ASSUME NEW i \in 2..c PROVE front[i] # order[j] /\ front[i] \in 1..c
      OBVIOUS
    <3>1. Before(i, j) \in 1..c /\ Before(i, j) # j /\ front[i] = order[Before(i, j)]
      BY <1>3
    <3>2. \A a, b \in 1..c : a # b => order[a] # order[b]
      BY <1>1 DEF Permutes
    <3> QED BY <3>1, <3>2, <1>2
  <2> QED BY <1>1, <1>2, <1>3, <2>1
<1>5. IsSequence(t) /\ NoKind \notin ToSet(t)
  <2>1. IsSequence(t)
    BY <1>1, Appended
  <2>2. Follows(t, h, x)
    BY <1>1, NewerAfter
  <2>3. ToSet(t) = ToSet(h) \cup {x}
    BY <2>2 DEF Follows
  <2> HIDE DEF t
  <2> QED BY <1>1, <2>1, <2>3
<1> HIDE DEF new, front
<1>6. T[1] = x /\ u[1] = n
  <2>1. 1 \in 1..c
    OBVIOUS
  <2>2. T[1] = Kind(new[front[1]].event) /\ u[1] = new[front[1]].count
    BY <2>1 DEF KindsIn, CountsIn
  <2>3. new[front[1]].event = e /\ new[front[1]].count = n
    BY <1>3, <1>4
  <2> QED BY <2>2, <2>3
<1>7. \A i \in 2..c : T[i] = K[Before(i, j)] /\ u[i] = m[Before(i, j)]
  <2> SUFFICES ASSUME NEW i \in 2..c PROVE T[i] = K[Before(i, j)] /\ u[i] = m[Before(i, j)]
    OBVIOUS
  <2>1. i \in 1..c /\ Before(i, j) \in 1..c
    BY <1>3
  <2>2. T[i] = Kind(new[front[i]].event) /\ u[i] = new[front[i]].count
    BY <2>1 DEF KindsIn, CountsIn
  <2>3. /\ K[Before(i, j)] = Kind(logs[order[Before(i, j)]].event)
        /\ m[Before(i, j)] = logs[order[Before(i, j)]].count
    BY <2>1 DEF KindsIn, CountsIn
  <2> QED BY <2>2, <2>3, <1>4
<1> HIDE DEF T, u, K, m, x, t
<1>8. MovedOn(T, K, j, c) /\ MovedOn(u, m, j, c)
  BY <1>7 DEF MovedOn
<1>9. u[1] = (IF K[j] = x THEN m[j] ELSE 0) + 1
  BY <1>6 DEF K, m, x
<1>10. x # NoKind /\ IsPlaceOf(j, x, K, c) /\ t = Append(h, x)
  BY DEF x, t, K
<1>11. Recent(T, t, c) /\ Counts(T, u, t, c)
  BY <1>1, <1>6, <1>8, <1>9, <1>10, FrontStep
<1>12. ASSUME NEW i \in 1..c, T[i] = NoKind PROVE new[front[i]] = [event |-> NoEvent, count |-> 0]
  <2>1. i # 1
    BY <1>6, <1>10, <1>12
  <2>2. i \in 2..c /\ Before(i, j) \in 1..c
    BY <2>1, <1>3
  <2> QED BY <2>2, <1>1, <1>4, <1>7, <1>12
<1>13. ClogHolds(new, front, t, c)
  BY <1>3, <1>4, <1>5, <1>11, <1>12 DEF ClogHolds, T, u
<1> QED BY <1>13 DEF new, front, t, x

\* Nothing was recorded: the logs are unused and in their order.
LEMMA ClogEmpty ==
  ASSUME NEW c \in Nat \ {0}
  PROVE  ClogHolds([i \in 1..c |-> [event |-> NoEvent, count |-> 0]], [i \in 1..c |-> i], <<>>, c)
<1> DEFINE logs == [i \in 1..c |-> [event |-> NoEvent, count |-> 0]]
           order == [i \in 1..c |-> i]
           K == KindsIn(logs, order, c)
           m == CountsIn(logs, order, c)
           h == <<>>
<1>1. Permutes(order, c) /\ \A i \in 1..c : order[i] = i
  <2>1. order \in Seq(1..c) /\ Len(order) = c
    OBVIOUS
  <2> QED BY <2>1 DEF Permutes
<1>2. \A i \in 1..c : logs[order[i]] = [event |-> NoEvent, count |-> 0]
  OBVIOUS
<1>3. DOMAIN logs = 1..c
  OBVIOUS
<1> HIDE DEF logs, order
<1>4. \A i \in 1..c : K[i] = NoKind /\ m[i] = 0
  BY <1>2 DEF KindsIn, CountsIn, NoKind
<1> HIDE DEF K, m, h
<1>5. IsSequence(h) /\ Len(h) = 0
  BY NoFrame DEF h
<1>6. \A y : y \notin ToSet(h)
  BY <1>5, KindsOf
<1>7. Cardinality(ToSet(h)) = 0
  <2>1. ToSet(h) = {}
    BY <1>6
  <2> QED BY <2>1, FS_EmptySet
<1>8. Recent(K, h, c)
  BY <1>4, <1>7 DEF Recent
<1>9. Counts(K, m, h, c)
  <2> SUFFICES ASSUME NEW i \in 1..c PROVE m[i] = Cardinality(CountedFor(h, c, K[i]))
    BY DEF Counts
  <2>1. Cardinality(CountedFor(h, c, K[i])) = 0
    BY <1>5, <1>6, CountsNone
  <2> QED BY <2>1, <1>4
<1> QED BY <1>1, <1>2, <1>3, <1>5, <1>6, <1>8, <1>9 DEF ClogHolds, K, m, h, logs, order

\* EL_search_clog_ finds the kind where it is.
FoundAt(p, j, x, K, c) == IsPlaceOf(j, x, K, c) /\ (p = 0 <=> K[j] # x)

\* EL_search_clog_ finds the place of a kind, if it has one.
LEMMA PlaceIsFound ==
  ASSUME NEW log, NEW level, NEW c \in Nat \ {0}, c = CLogCapacity[level], NEW h,
         ClogHolds(log.logs[level], log.orders[level], h, c), NEW x, x # NoKind,
         NEW K, K = KindsIn(log.logs[level], log.orders[level], c),
         NEW j, j = IF PlaceInClog(log, level, x) = 0 THEN c ELSE PlaceInClog(log, level, x)
  PROVE  FoundAt(PlaceInClog(log, level, x), j, x, K, c)
<1> DEFINE P == {i \in 1..CLogCapacity[level] :
                    /\ Kind(log.logs[level][log.orders[level][i]].event) = x
                    /\ \A k \in 1..i : Kind(log.logs[level][log.orders[level][k]].event) # Kind(NoEvent)}
           p == PlaceInClog(log, level, x)
<1>1. /\ Recent(K, h, c) /\ NoKind \notin ToSet(h)
      /\ \A i \in 1..c : K[i] = Kind(log.logs[level][log.orders[level][i]].event)
  BY DEF ClogHolds, KindsIn
<1>2. ASSUME NEW i \in 1..c, K[i] = x PROVE \A k \in 1..i : K[k] # NoKind
  <2>1. IsSequence(h) /\ Cardinality(ToSet(h)) \in Nat
    BY KindsOf DEF ClogHolds
  <2>2. i <= Cardinality(ToSet(h))
    BY <1>1, <1>2 DEF Recent
  <2> SUFFICES ASSUME NEW k \in 1..i PROVE K[k] # NoKind
    OBVIOUS
  <2>3. k \in 1..c /\ k <= Cardinality(ToSet(h))
    BY <2>1, <2>2
  <2>4. K[k] \in ToSet(h)
    BY <2>3, <1>1 DEF Recent
  <2> QED BY <2>4, <1>1
<1>3. P = {i \in 1..c : K[i] = x}
  <2>1. \A i \in 1..c : \A k \in 1..i : k \in 1..c
    OBVIOUS
  <2>2. \A i \in 1..c : \A k \in 1..i : K[k] = Kind(log.logs[level][log.orders[level][k]].event)
    BY <1>1, <2>1
  <2>3. \A i \in 1..c : (\A k \in 1..i : K[k] # NoKind)
                        <=> \A k \in 1..i : Kind(log.logs[level][log.orders[level][k]].event) # Kind(NoEvent)
    BY <2>2 DEF NoKind
  <2> QED BY <1>1, <1>2, <2>3
<1>4. p = IF P = {} THEN 0 ELSE CHOOSE i \in P : \A k \in P : i <= k
  BY DEF PlaceInClog
<1> HIDE DEF P
<1>5. P # {} => p \in P
  <2> SUFFICES ASSUME P # {} PROVE p \in P
    OBVIOUS
  <2>1. P \in SUBSET Nat
    BY <1>3
  <2>2. Min(P) \in P
    BY <2>1, MinOfNats
  <2> QED BY <1>4, <2>2 DEF Min
<1> HIDE DEF p
<1>6. CASE P = {}
  <2>1. p = 0 /\ j = c /\ \A i \in 1..c : K[i] # x
    BY <1>3, <1>4, <1>6 DEF p
  <2> QED BY <2>1 DEF IsPlaceOf, FoundAt, p
<1>7. CASE P # {}
  <2>1. p \in 1..c /\ K[p] = x
    BY <1>3, <1>5, <1>7
  <2>2. j = p /\ p # 0
    BY <2>1 DEF p
  <2> QED BY <2>1, <2>2 DEF IsPlaceOf, FoundAt, p
<1> QED BY <1>6, <1>7
-----------------------------------------------------------------------------
\* The counters.
Names == {"HIGH", "MIDDLE", "LOW", "EL", "EH"}

\* What is assumed of the constants of the logger.
LEMMA LevelsFacts ==
  /\ Levels \subseteq Names /\ {"HIGH", "LOW", "EH"} \subseteq Levels
  /\ \A l \in Levels : TLogCapacity[l] \in Nat \ {0} /\ CLogCapacity[l] \in Nat \ {0} /\ TLogCapacity[l] > 1
  /\ {LoggerGroup, DropClog1, DropClog2} \subseteq EventGroups
  /\ EventGroups \subseteq Nat \ {0}
<1>1. ToSet(LevelOrder) = Names
  <2>1. IsSequence(LevelOrder) /\ Len(LevelOrder) = 5
    <3>1. LevelOrder \in Seq(Names)
      <4>1. "HIGH" \in Names /\ "MIDDLE" \in Names /\ "LOW" \in Names /\ "EL" \in Names /\ "EH" \in Names
        BY DEF Names
      <4> QED BY <4>1 DEF LevelOrder
    <3>2. Len(LevelOrder) = 5
      BY DEF LevelOrder
    <3> QED BY <3>1, <3>2 DEF IsSequence
  <2>2. \A y : y \in ToSet(LevelOrder) <=> \E k \in 1..5 : LevelOrder[k] = y
    BY <2>1, KindsOf
  <2>3. /\ LevelOrder[1] = "HIGH" /\ LevelOrder[2] = "MIDDLE" /\ LevelOrder[3] = "LOW"
        /\ LevelOrder[4] = "EL" /\ LevelOrder[5] = "EH"
    BY DEF LevelOrder
  <2>4. \A k \in 1..5 : k = 1 \/ k = 2 \/ k = 3 \/ k = 4 \/ k = 5
    OBVIOUS
  <2> HIDE DEF LevelOrder
  <2> QED BY <2>2, <2>3, <2>4 DEF Names
<1> QED BY <1>1, LoggerAssumption

\* The sum of counters.
LEMMA SumIsNat ==
  ASSUME NEW f \in [Levels -> Nat]
  PROVE  Sum(f) \in Nat
BY DEF Sum, OfLevel

\* One counter and the total advance together.
LEMMA SumOneMore ==
  ASSUME NEW f \in [Levels -> Nat], NEW l \in Levels
  PROVE  [f EXCEPT ![l] = @ + 1] \in [Levels -> Nat] /\ Sum([f EXCEPT ![l] = @ + 1]) = Sum(f) + 1
<1> DEFINE g == [f EXCEPT ![l] = @ + 1]
<1>1. g \in [Levels -> Nat] /\ g[l] = f[l] + 1 /\ \A k \in Levels : k # l => g[k] = f[k]
  OBVIOUS
<1>2. l \in Names
  BY LevelsFacts
<1> HIDE DEF g
<1>3. /\ \A k : OfLevel(f, k) \in Nat
      /\ OfLevel(g, l) = OfLevel(f, l) + 1 /\ \A k : k # l => OfLevel(g, k) = OfLevel(f, k)
  BY <1>1 DEF OfLevel
<1>4. Sum(g) = Sum(f) + 1
  BY <1>2, <1>3 DEF Sum, Names
<1> QED BY <1>1, <1>4 DEF g

\* The total of counters that were cleared.
LEMMA SumOfNone == Sum([l \in Levels |-> 0]) = 0
BY DEF Sum, OfLevel

\* The record of the logger, and its parts.
LogFields == {"ring", "wp", "overflow", "overwrite", "logs", "orders", "latest", "count", "total",
              "enabled", "number", "stored", "counted", "complete"}
IsLog(log) == DOMAIN log = LogFields

SameTlog(new, log) ==
    /\ new.ring = log.ring /\ new.wp = log.wp /\ new.overflow = log.overflow
    /\ new.overwrite = log.overwrite /\ new.stored = log.stored
SameClog(new, log) == new.logs = log.logs /\ new.orders = log.orders /\ new.counted = log.counted
SameCounters(new, log) ==
    /\ new.count = log.count /\ new.total = log.total /\ new.enabled = log.enabled
    /\ new.number = log.number

TlogOK(log) ==
    /\ DOMAIN log.ring = Levels /\ DOMAIN log.wp = Levels /\ DOMAIN log.stored = Levels
    /\ log.overflow \in [Levels -> BOOLEAN] /\ log.overwrite \in [Levels -> BOOLEAN]
    /\ \A l \in Levels : RingHolds(log.ring[l], log.wp[l], log.stored[l], TLogCapacity[l])
ClogOK(log) ==
    /\ DOMAIN log.logs = Levels /\ DOMAIN log.orders = Levels /\ DOMAIN log.counted = Levels
    /\ \A l \in Levels : /\ ClogHolds(log.logs[l], log.orders[l], log.counted[l], CLogCapacity[l])
                         /\ ~EnableClog => log.logs[l] = EmptyLogs(l)
CountersOK(log) ==
    /\ log.count \in [Levels -> Nat] /\ log.total = Sum(log.count) /\ log.enabled \subseteq EventGroups
    /\ log.number \in Nat

\* The inductive invariant of the logger.
LogInv(log) == IsLog(log) /\ TlogOK(log) /\ ClogOK(log) /\ CountersOK(log)

\* The fields that recording an event changes.
LEMMA CountedFields ==
  ASSUME NEW log, IsLog(log), NEW e, NEW new, new = Counted(log, e)
  PROVE  /\ IsLog(new) /\ SameTlog(new, log) /\ SameClog(new, log) /\ new.enabled = log.enabled
         /\ new.count = [log.count EXCEPT ![e.level] = @ + 1] /\ new.total = log.total + 1
         /\ new.number = log.number + 1 /\ new.complete = log.complete
BY DEF Counted, IsLog, LogFields, SameTlog, SameClog

InTlog(new, log, e) ==
    /\ IsLog(new) /\ SameClog(new, log) /\ SameCounters(new, log)
    /\ new.complete = log.complete /\ new.overwrite = log.overwrite
    /\ new.ring = [log.ring EXCEPT ![e.level] = [@ EXCEPT ![log.wp[e.level]] = e]]
    /\ new.wp = [log.wp EXCEPT ![e.level] = NextSlot(log, e.level)]
    /\ new.overflow = [log.overflow EXCEPT ![e.level] =
                          ~log.overwrite[e.level] /\ NextSlot(log, e.level) = 0]
    /\ new.stored = [log.stored EXCEPT ![e.level] = Append(@, e)]

\* What an event in TLog changes.
LEMMA TlogFields ==
  ASSUME NEW log, IsLog(log), NEW e, CanStore(log, e.level)
  PROVE  InTlog(RecordedToTlog(log, e), log, e)
BY DEF RecordedToTlog, IsLog, LogFields, SameClog, SameCounters, InTlog

\* Where EL_search_clog_ finds the kind of an event, or the last place.
Place(log, e) ==
    LET place == PlaceInClog(log, e.level, Kind(e)) IN IF place = 0 THEN CLogCapacity[e.level] ELSE place
CountBefore(log, e) ==
    IF PlaceInClog(log, e.level, Kind(e)) = 0 THEN 0
    ELSE log.logs[e.level][ToFront(log.orders[e.level], Place(log, e))[1]].count

InClog(new, log, e) ==
    /\ IsLog(new) /\ SameTlog(new, log) /\ SameCounters(new, log)
    /\ new.complete = log.complete
    /\ new.orders = [log.orders EXCEPT ![e.level] = ToFront(log.orders[e.level], Place(log, e))]
    /\ new.logs = [log.logs EXCEPT ![e.level] =
           [@ EXCEPT ![ToFront(log.orders[e.level], Place(log, e))[1]] =
                         [event |-> e, count |-> CountBefore(log, e) + 1]]]
    /\ new.counted = [log.counted EXCEPT ![e.level] = Append(@, Kind(e))]

\* What an event in CLog changes.
LEMMA ClogFields ==
  ASSUME NEW log, IsLog(log), NEW e, EnableClog
  PROVE  InClog(RecordedToClog(log, e), log, e)
<1> DEFINE new == RecordedToClog(log, e)
           l == e.level
           order == ToFront(log.orders[l], Place(log, e))
           entry == [event |-> e, count |-> CountBefore(log, e) + 1]
<1>1. new = [log EXCEPT !.orders[l] = order, !.logs[l][order[1]] = entry,
                        !.counted[l] = Append(@, Kind(e))]
  BY DEF RecordedToClog, CountBefore, Place
<1> HIDE DEF order, entry, l, new
<1>2. /\ IsLog(new) /\ SameTlog(new, log) /\ SameCounters(new, log)
      /\ new.complete = log.complete
      /\ new.orders = [log.orders EXCEPT ![l] = order]
      /\ new.logs = [log.logs EXCEPT ![l] = [@ EXCEPT ![order[1]] = entry]]
      /\ new.counted = [log.counted EXCEPT ![l] = Append(@, Kind(e))]
  BY <1>1 DEF IsLog, LogFields, SameTlog, SameCounters
<1>3. InClog(new, log, e)
  BY <1>2 DEF l, order, entry, InClog
<1> QED BY <1>3 DEF new

\* The counters advance.
LEMMA CountedStep ==
  ASSUME NEW log, LogInv(log), NEW e, e.level \in Levels
  PROVE  LogInv(Counted(log, e))
<1> DEFINE new == Counted(log, e)
<1>1. /\ IsLog(new) /\ SameTlog(new, log) /\ SameClog(new, log) /\ new.enabled = log.enabled
      /\ new.count = [log.count EXCEPT ![e.level] = @ + 1] /\ new.total = log.total + 1
      /\ new.number = log.number + 1
  BY CountedFields DEF LogInv
<1> HIDE DEF new
<1>2. TlogOK(new)
  BY <1>1 DEF TlogOK, SameTlog, LogInv
<1>3. ClogOK(new)
  BY <1>1 DEF ClogOK, SameClog, LogInv
<1>4. CountersOK(new)
  <2> DEFINE f == log.count
  <2>1. /\ f \in [Levels -> Nat] /\ log.total = Sum(f) /\ log.enabled \subseteq EventGroups
        /\ log.number \in Nat
    BY DEF LogInv, CountersOK
  <2> HIDE DEF f
  <2>2. [f EXCEPT ![e.level] = @ + 1] \in [Levels -> Nat] /\ Sum([f EXCEPT ![e.level] = @ + 1]) = Sum(f) + 1
    BY <2>1, SumOneMore
  <2> QED BY <1>1, <2>1, <2>2 DEF CountersOK, f
<1> QED BY <1>1, <1>2, <1>3, <1>4 DEF LogInv, new

\* EL_record_event_to_tlog_ keeps the logs in order.
LEMMA TlogStep ==
  ASSUME NEW log, LogInv(log), NEW e, e.level \in Levels
  PROVE  LogInv(RecordedToTlog(log, e))
<1> DEFINE new == RecordedToTlog(log, e)
           l == e.level
           c == TLogCapacity[l]
<1>1. CASE ~CanStore(log, e.level)
  BY <1>1 DEF RecordedToTlog
<1>2. CASE CanStore(log, e.level)
  <2>1. /\ IsLog(new) /\ SameClog(new, log) /\ SameCounters(new, log) /\ new.overwrite = log.overwrite
        /\ new.ring = [log.ring EXCEPT ![l] = [@ EXCEPT ![log.wp[l]] = e]]
        /\ new.wp = [log.wp EXCEPT ![l] = NextSlot(log, l)]
        /\ new.overflow = [log.overflow EXCEPT ![l] = ~log.overwrite[l] /\ NextSlot(log, l) = 0]
        /\ new.stored = [log.stored EXCEPT ![l] = Append(@, e)]
    <3>1. InTlog(new, log, e)
      BY <1>2, TlogFields DEF LogInv
    <3> HIDE DEF new
    <3> QED BY <3>1 DEF InTlog
  <2> HIDE DEF new
  <2>2. TlogOK(log) /\ ClogOK(log) /\ CountersOK(log) /\ c \in Nat \ {0} /\ l \in Levels
    BY LevelsFacts DEF LogInv
  <2> HIDE DEF l
  <2>3. RingHolds(log.ring[l], log.wp[l], log.stored[l], c)
    BY <2>2 DEF TlogOK
  <2>4. RingHolds([log.ring[l] EXCEPT ![log.wp[l]] = e], (log.wp[l] + 1) % c, Append(log.stored[l], e), c)
    BY <2>2, <2>3, RingStep
  <2>5. TlogOK(new)
    <3>1. /\ new.ring[l] = [log.ring[l] EXCEPT ![log.wp[l]] = e]
          /\ new.wp[l] = (log.wp[l] + 1) % c /\ new.stored[l] = Append(log.stored[l], e)
      BY <2>1, <2>2 DEF TlogOK, NextSlot
    <3>2. \A k \in Levels : k # l => /\ new.ring[k] = log.ring[k] /\ new.wp[k] = log.wp[k]
                                     /\ new.stored[k] = log.stored[k]
      BY <2>1, <2>2 DEF TlogOK
    <3>3. /\ DOMAIN new.ring = Levels /\ DOMAIN new.wp = Levels /\ DOMAIN new.stored = Levels
          /\ new.overflow \in [Levels -> BOOLEAN] /\ new.overwrite \in [Levels -> BOOLEAN]
      BY <2>1, <2>2 DEF TlogOK
    <3>4. \A k \in Levels : RingHolds(new.ring[k], new.wp[k], new.stored[k], TLogCapacity[k])
      <4> SUFFICES ASSUME NEW k \in Levels
                   PROVE  RingHolds(new.ring[k], new.wp[k], new.stored[k], TLogCapacity[k])
        OBVIOUS
      <4>1. CASE k = l
        BY <4>1, <2>4, <3>1
      <4>2. CASE k # l
        BY <4>2, <2>2, <3>2 DEF TlogOK
      <4> QED BY <4>1, <4>2
    <3> QED BY <3>3, <3>4 DEF TlogOK
  <2>6. ClogOK(new) /\ CountersOK(new)
    BY <2>1, <2>2 DEF ClogOK, SameClog, CountersOK, SameCounters
  <2> QED BY <2>1, <2>5, <2>6 DEF LogInv, new
<1> QED BY <1>1, <1>2

\* EL_record_event_to_clog_ keeps the logs in order.
LEMMA ClogRecordStep ==
  ASSUME NEW log, LogInv(log), NEW e, e.level \in Levels, Kind(e) # NoKind
  PROVE  LogInv(RecordedToClog(log, e))
<1> DEFINE new == RecordedToClog(log, e)
           l == e.level
           c == CLogCapacity[l]
           order == log.orders[l]
           logs == log.logs[l]
           h == log.counted[l]
           j == Place(log, e)
           front == ToFront(order, j)
           n == CountBefore(log, e) + 1
<1>1. CASE ~EnableClog
  BY <1>1 DEF RecordedToClog
<1>2. CASE EnableClog
  <2>1. /\ IsLog(new) /\ SameTlog(new, log) /\ SameCounters(new, log)
        /\ new.orders = [log.orders EXCEPT ![l] = front]
        /\ new.logs = [log.logs EXCEPT ![l] = [@ EXCEPT ![front[1]] = [event |-> e, count |-> n]]]
        /\ new.counted = [log.counted EXCEPT ![l] = Append(@, Kind(e))]
    <3>1. InClog(new, log, e)
      BY <1>2, ClogFields DEF LogInv
    <3> HIDE DEF new, n, j
    <3> QED BY <3>1 DEF InClog, n, j
  <2>2. TlogOK(log) /\ ClogOK(log) /\ CountersOK(log) /\ c \in Nat \ {0} /\ l \in Levels
    BY LevelsFacts DEF LogInv
  <2>3. ClogHolds(logs, order, h, c)
    BY <2>2 DEF ClogOK
  <2> DEFINE K == KindsIn(logs, order, c)
             x == Kind(e)
             p == PlaceInClog(log, l, x)
  <2>4. IsPlaceOf(j, x, K, c) /\ (p = 0 <=> K[j] # x)
    <3>1. j = IF p = 0 THEN c ELSE p
      BY DEF Place
    <3> HIDE DEF j, K, x
    <3>2. x # NoKind /\ K = KindsIn(log.logs[l], log.orders[l], c) /\ ClogHolds(log.logs[l], log.orders[l], h, c)
      BY <2>3 DEF x, K
    <3>3. FoundAt(p, j, x, K, c)
      BY <2>2, <3>1, <3>2, PlaceIsFound
    <3> QED BY <3>3 DEF FoundAt
  <2>5. j \in 1..c
    BY <2>4 DEF IsPlaceOf
  <2>6. front[1] = order[j]
    <3>1. InFront(front, order, j, c)
      <4>1. Permutes(order, c)
        BY <2>3 DEF ClogHolds
      <4> HIDE DEF order, j
      <4> QED BY <4>1, <2>2, <2>5, ToFrontMoves
    <3> QED BY <3>1 DEF InFront
  <2>7. n = (IF K[j] = x THEN CountsIn(logs, order, c)[j] ELSE 0) + 1
    <3>1. CountsIn(logs, order, c)[j] = logs[order[j]].count
      BY <2>5 DEF CountsIn
    <3>2. CountBefore(log, e) = IF p = 0 THEN 0 ELSE logs[front[1]].count
      BY DEF CountBefore
    <3> HIDE DEF K, j, p, front, x
    <3> QED BY <3>1, <3>2, <2>4, <2>6
  <2> DEFINE logs2 == [logs EXCEPT ![order[j]] = [event |-> e, count |-> n]]
             h2 == Append(h, x)
  <2>8. ClogHolds(logs2, front, h2, c)
    <3>1. x # NoKind /\ IsPlaceOf(j, Kind(e), KindsIn(logs, order, c), c)
      BY <2>4
    <3> HIDE DEF j, n, logs, order, h
    <3> QED BY <3>1, <2>2, <2>3, <2>7, ClogStep
  <2>9. ClogOK(new)
    <3>1. new.logs[l] = logs2 /\ new.orders[l] = front /\ new.counted[l] = h2
      <4> HIDE DEF new, front, n, j
      <4> QED BY <2>1, <2>2, <2>6 DEF ClogOK
    <3>2. /\ DOMAIN new.logs = Levels /\ DOMAIN new.orders = Levels /\ DOMAIN new.counted = Levels
          /\ \A k \in Levels : k # l => /\ new.logs[k] = log.logs[k] /\ new.orders[k] = log.orders[k]
                                        /\ new.counted[k] = log.counted[k]
      <4> HIDE DEF new, front, n, j
      <4> QED BY <2>1, <2>2 DEF ClogOK
    <3> HIDE DEF new, logs2, front, h2, l
    <3>3. ASSUME NEW k \in Levels
          PROVE  ClogHolds(new.logs[k], new.orders[k], new.counted[k], CLogCapacity[k])
      <4>1. CASE k = l
        BY <4>1, <2>8, <3>1
      <4>2. CASE k # l
        BY <4>2, <2>2, <3>2 DEF ClogOK
      <4> QED BY <4>1, <4>2
    <3> QED BY <1>2, <3>2, <3>3 DEF ClogOK
  <2>10. TlogOK(new) /\ CountersOK(new)
    <3> HIDE DEF new
    <3> QED BY <2>1, <2>2 DEF TlogOK, SameTlog, CountersOK, SameCounters
  <2> QED BY <2>1, <2>9, <2>10 DEF LogInv
<1> QED BY <1>1, <1>2

\* The kind of an event is never that of an unused log.
LEMMA EventFacts ==
  ASSUME NEW group \in EventGroups, NEW local, NEW level, NEW time, NEW number,
         NEW e, e = Event(group, local, level, time, number)
  PROVE  /\ Kind(e) # NoKind /\ e.level = level /\ e.group = group /\ e.local = local
         /\ e.time = time /\ e.number = number
<1>1. /\ e.level = level /\ e.group = group /\ e.local = local /\ e.time = time /\ e.number = number
      /\ NoEvent.group = 0
  BY DEF Event, NoEvent
<1>2. group # 0
  BY LevelsFacts
<1>3. Kind(e)[1] = group /\ NoKind[1] = 0
  BY <1>1 DEF Kind, NoKind
<1> QED BY <1>1, <1>2, <1>3

\* One event in both logs, as EL_record_event_ puts it there.
LEMMA OneEventStep ==
  ASSUME NEW log, LogInv(log), NEW e, e.level \in Levels, Kind(e) # NoKind
  PROVE  LogInv(RecordedToClog(RecordedToTlog(Counted(log, e), e), e))
<1>1. LogInv(Counted(log, e))
  BY CountedStep
<1>2. LogInv(RecordedToTlog(Counted(log, e), e))
  BY <1>1, TlogStep
<1> QED BY <1>2, ClogRecordStep

\* An event of the logger itself.
LEMMA RecordedELStep ==
  ASSUME NEW log, LogInv(log), NEW group, NEW local, NEW time
  PROVE  LogInv(RecordedEL(log, group, local, time))
<1> DEFINE e == Event(group, local, "EL", time, log.number + 1)
<1>1. CASE "EL" \notin Levels \/ group \notin log.enabled
  BY <1>1 DEF RecordedEL
<1>2. CASE "EL" \in Levels /\ group \in log.enabled
  <2>1. group \in EventGroups
    BY <1>2 DEF LogInv, CountersOK
  <2>2. Kind(e) # NoKind /\ e.level = "EL"
    BY <2>1, EventFacts
  <2> HIDE DEF e
  <2>3. LogInv(RecordedToClog(RecordedToTlog(Counted(log, e), e), e))
    BY <1>2, <2>2, OneEventStep
  <2> QED BY <1>2, <2>3 DEF RecordedEL, e
<1> QED BY <1>1, <1>2

\* The two events about a kind that is dropped.
LEMMA DropRecordedStep ==
  ASSUME NEW log, LogInv(log), NEW e
  PROVE  LogInv(DropRecorded(log, e))
<1> DEFINE old == Oldest(log, e.level).event
<1>1. LogInv(RecordedEL(RecordedEL(log, DropClog1, old.group, e.time), DropClog2, old.local, e.time))
  BY RecordedELStep
<1> QED BY <1>1 DEF DropRecorded

\* The event about a ring that has gone round, or half of it.
LEMMA WpCheckedStep ==
  ASSUME NEW log, LogInv(log), NEW e, NEW stored
  PROVE  LogInv(WpChecked(log, e, stored))
<1>1. \A local : LogInv(RecordedEL(log, LoggerGroup, local, e.time))
  BY RecordedELStep
<1> HIDE DEF LogInv
<1> QED BY <1>1 DEF WpChecked

\* EL_record_event_ keeps the logs in order, whatever further events it records.
LEMMA RecordedStep ==
  ASSUME NEW log, LogInv(log), NEW group, NEW local, NEW level \in Levels, NEW time
  PROVE  LogInv(Recorded(log, group, local, level, time))
<1> DEFINE e == Event(group, local, level, time, log.number + 1)
           inTlog == RecordedToTlog(Counted(log, e), e)
           dropped == DropRecorded(inTlog, e)
<1>1. CASE group \notin log.enabled
  BY <1>1 DEF Recorded
<1>2. CASE group \in log.enabled
  <2>1. group \in EventGroups
    BY <1>2 DEF LogInv, CountersOK
  <2>2. Kind(e) # NoKind /\ e.level = level
    BY <2>1, EventFacts
  <2> HIDE DEF e
  <2>3. LogInv(Counted(log, e))
    BY <2>2, CountedStep
  <2>4. LogInv(inTlog)
    BY <2>2, <2>3, TlogStep
  <2> HIDE DEF inTlog
  <2>5. LogInv(dropped)
    BY <2>4, DropRecordedStep
  <2> HIDE DEF dropped
  <2>6. LogInv(RecordedToClog(dropped, e))
    BY <2>2, <2>5, ClogRecordStep
  <2>7. LogInv(WpChecked(RecordedToClog(dropped, e), e, CanStore(log, level)))
    BY <2>6, WpCheckedStep
  <2> QED BY <1>2, <2>7 DEF Recorded, dropped, inTlog, e
<1> QED BY <1>1, <1>2
-----------------------------------------------------------------------------
\* What the commands do to the logs.

\* The logs of a level that were cleared.
LEMMA RingEmptied ==
  ASSUME NEW l \in Levels
  PROVE  /\ RingHolds(EmptyRing(l), 0, <<>>, TLogCapacity[l])
         /\ ClogHolds(EmptyLogs(l), InOrder(l), <<>>, CLogCapacity[l])
<1>1. TLogCapacity[l] \in Nat \ {0} /\ CLogCapacity[l] \in Nat \ {0}
  BY LevelsFacts
<1>2. RingHolds(EmptyRing(l), 0, <<>>, TLogCapacity[l])
  BY <1>1, RingEmpty DEF EmptyRing, Slots
<1>3. ClogHolds(EmptyLogs(l), InOrder(l), <<>>, CLogCapacity[l])
  BY <1>1, ClogEmpty DEF EmptyLogs, InOrder
<1> QED BY <1>2, <1>3

\* The logger after EL_initialize.
LEMMA InitializedFields ==
  /\ IsLog(Initialized)
  /\ Initialized.ring = [l \in Levels |-> EmptyRing(l)] /\ Initialized.wp = [l \in Levels |-> 0]
  /\ Initialized.overflow = [l \in Levels |-> FALSE] /\ Initialized.overwrite = [l \in Levels |-> TRUE]
  /\ Initialized.logs = [l \in Levels |-> EmptyLogs(l)] /\ Initialized.orders = [l \in Levels |-> InOrder(l)]
  /\ Initialized.count = [l \in Levels |-> 0] /\ Initialized.total = 0 /\ Initialized.enabled = EventGroups
  /\ Initialized.stored = [l \in Levels |-> <<>>] /\ Initialized.counted = [l \in Levels |-> <<>>]
  /\ Initialized.number = 0 /\ Initialized.complete = TRUE
BY DEF Initialized, IsLog, LogFields

\* All rings cleared.
LEMMA TlogsEmptied ==
  ASSUME NEW log, log.ring = Initialized.ring, log.wp = Initialized.wp,
         log.overflow = Initialized.overflow, log.overwrite \in [Levels -> BOOLEAN],
         log.stored = Initialized.stored
  PROVE  TlogOK(log)
BY InitializedFields, RingEmptied DEF TlogOK

\* All tables of CLog cleared.
LEMMA ClogsEmptied ==
  ASSUME NEW log, DOMAIN log.logs = Levels, \A l \in Levels : log.logs[l] = EmptyLogs(l),
         log.orders = Initialized.orders, log.counted = Initialized.counted
  PROVE  ClogOK(log)
BY InitializedFields, RingEmptied DEF ClogOK

\* A logger that is initialized, at the start or on command.
LEMMA InitializedInv ==
  ASSUME NEW log, IsLog(log), log.ring = Initialized.ring, log.wp = Initialized.wp,
         log.overflow = Initialized.overflow, log.overwrite = Initialized.overwrite,
         log.stored = Initialized.stored, log.logs = Initialized.logs, log.orders = Initialized.orders,
         log.counted = Initialized.counted, log.count = Initialized.count,
         log.total = Initialized.total, log.enabled = Initialized.enabled, log.number \in Nat
  PROVE  LogInv(log)
<1>1. TlogOK(log)
  <2>1. log.overwrite \in [Levels -> BOOLEAN]
    BY InitializedFields
  <2> QED BY <2>1, TlogsEmptied
<1>2. ClogOK(log)
  <2>1. DOMAIN log.logs = Levels /\ \A l \in Levels : log.logs[l] = EmptyLogs(l)
    BY InitializedFields
  <2> QED BY <2>1, ClogsEmptied
<1>3. CountersOK(log)
  BY InitializedFields, SumOfNone DEF CountersOK
<1> QED BY <1>1, <1>2, <1>3 DEF LogInv

\* EL_clear_tlog_
LEMMA TlogCleared ==
  ASSUME NEW log, LogInv(log), NEW level \in Levels
  PROVE  LogInv(ClearedTlog(log, level))
<1> DEFINE new == ClearedTlog(log, level)
<1>1. /\ IsLog(new) /\ SameClog(new, log) /\ SameCounters(new, log) /\ new.overwrite = log.overwrite
      /\ new.ring = [log.ring EXCEPT ![level] = EmptyRing(level)] /\ new.wp = [log.wp EXCEPT ![level] = 0]
      /\ new.overflow = [log.overflow EXCEPT ![level] = FALSE]
      /\ new.stored = [log.stored EXCEPT ![level] = <<>>]
  BY DEF ClearedTlog, LogInv, IsLog, LogFields, SameClog, SameCounters
<1> HIDE DEF new
<1>2. TlogOK(new)
  <2>1. TlogOK(log)
    BY DEF LogInv
  <2>2. /\ DOMAIN new.ring = Levels /\ DOMAIN new.wp = Levels /\ DOMAIN new.stored = Levels
        /\ new.overflow \in [Levels -> BOOLEAN] /\ new.overwrite \in [Levels -> BOOLEAN]
    BY <1>1, <2>1 DEF TlogOK
  <2>3. ASSUME NEW l \in Levels PROVE RingHolds(new.ring[l], new.wp[l], new.stored[l], TLogCapacity[l])
    <3>1. CASE l = level
      <4>1. new.ring[l] = EmptyRing(l) /\ new.wp[l] = 0 /\ new.stored[l] = <<>>
        BY <3>1, <1>1, <2>1 DEF TlogOK
      <4> QED BY <4>1, RingEmptied
    <3>2. CASE l # level
      <4>1. new.ring[l] = log.ring[l] /\ new.wp[l] = log.wp[l] /\ new.stored[l] = log.stored[l]
        BY <3>2, <1>1, <2>1 DEF TlogOK
      <4> QED BY <4>1, <2>1 DEF TlogOK
    <3> QED BY <3>1, <3>2
  <2> QED BY <2>2, <2>3 DEF TlogOK
<1>3. ClogOK(new) /\ CountersOK(new)
  BY <1>1 DEF LogInv, ClogOK, SameClog, CountersOK, SameCounters
<1> QED BY <1>1, <1>2, <1>3 DEF LogInv, new

\* EL_clear_clog_
LEMMA ClogCleared ==
  ASSUME NEW log, LogInv(log), NEW level \in Levels
  PROVE  LogInv(ClearedClog(log, level))
<1> DEFINE new == ClearedClog(log, level)
<1>1. /\ IsLog(new) /\ SameTlog(new, log) /\ SameCounters(new, log)
      /\ new.logs = [log.logs EXCEPT ![level] = EmptyLogs(level)]
      /\ new.orders = [log.orders EXCEPT ![level] = InOrder(level)]
      /\ new.counted = [log.counted EXCEPT ![level] = <<>>]
  BY DEF ClearedClog, LogInv, IsLog, LogFields, SameTlog, SameCounters
<1> HIDE DEF new
<1>2. ClogOK(new)
  <2>1. ClogOK(log)
    BY DEF LogInv
  <2>2. DOMAIN new.logs = Levels /\ DOMAIN new.orders = Levels /\ DOMAIN new.counted = Levels
    BY <1>1, <2>1 DEF ClogOK
  <2>3. ASSUME NEW l \in Levels
        PROVE  /\ ClogHolds(new.logs[l], new.orders[l], new.counted[l], CLogCapacity[l])
               /\ ~EnableClog => new.logs[l] = EmptyLogs(l)
    <3>1. CASE l = level
      <4>1. new.logs[l] = EmptyLogs(l) /\ new.orders[l] = InOrder(l) /\ new.counted[l] = <<>>
        BY <3>1, <1>1, <2>1 DEF ClogOK
      <4> QED BY <4>1, RingEmptied
    <3>2. CASE l # level
      <4>1. new.logs[l] = log.logs[l] /\ new.orders[l] = log.orders[l] /\ new.counted[l] = log.counted[l]
        BY <3>2, <1>1, <2>1 DEF ClogOK
      <4> QED BY <4>1, <2>1 DEF ClogOK
    <3> QED BY <3>1, <3>2
  <2> QED BY <2>2, <2>3 DEF ClogOK
<1>3. TlogOK(new) /\ CountersOK(new)
  BY <1>1 DEF LogInv, TlogOK, SameTlog, CountersOK, SameCounters
<1> QED BY <1>1, <1>2, <1>3 DEF LogInv, new

\* What is not in the logs themselves.
LEMMA OthersChanged ==
  ASSUME NEW log, LogInv(log), NEW new, IsLog(new), SameClog(new, log),
         new.ring = log.ring, new.wp = log.wp, new.overflow = log.overflow, new.stored = log.stored,
         new.overwrite \in [Levels -> BOOLEAN],
         \/ new.count = log.count /\ new.total = log.total
         \/ new.count = [l \in Levels |-> 0] /\ new.total = 0,
         new.enabled \subseteq EventGroups, new.number \in Nat
  PROVE  LogInv(new)
<1>1. TlogOK(new)
  BY DEF LogInv, TlogOK
<1>2. ClogOK(new)
  BY DEF LogInv, ClogOK, SameClog
<1>3. CountersOK(new)
  BY SumOfNone DEF LogInv, CountersOK
<1> QED BY <1>1, <1>2, <1>3 DEF LogInv

\* The commands of the logger keep the logs in order.
LEMMA CommandLogStep ==
  ASSUME LogInv(el), LoggerCommand(EventGroups, Levels)
  PROVE  LogInv(el')
<1>1. CASE InitializeLogger
  <2>1. el' = [Initialized EXCEPT !.number = el.number, !.complete = FALSE]
    BY <1>1 DEF InitializeLogger, Reinitialized
  <2>2. /\ IsLog(el') /\ el'.ring = Initialized.ring /\ el'.wp = Initialized.wp
        /\ el'.overflow = Initialized.overflow /\ el'.overwrite = Initialized.overwrite
        /\ el'.stored = Initialized.stored /\ el'.logs = Initialized.logs
        /\ el'.orders = Initialized.orders /\ el'.counted = Initialized.counted
        /\ el'.count = Initialized.count /\ el'.total = Initialized.total
        /\ el'.enabled = Initialized.enabled /\ el'.number = el.number
    BY <2>1, InitializedFields DEF IsLog, LogFields
  <2> QED BY <2>2, InitializedInv DEF LogInv, CountersOK
<1>2. CASE ClearLogAll
  <2>1. /\ IsLog(el') /\ el'.ring = Initialized.ring /\ el'.wp = Initialized.wp
        /\ el'.overflow = Initialized.overflow /\ el'.overwrite = el.overwrite
        /\ el'.stored = Initialized.stored /\ el'.orders = Initialized.orders
        /\ el'.logs = IF EnableClog THEN Initialized.logs ELSE el.logs
        /\ el'.counted = Initialized.counted /\ el'.enabled = el.enabled
        /\ el'.count = [l \in Levels |-> 0] /\ el'.total = 0 /\ el'.number = el.number
    BY <1>2 DEF ClearLogAll, ClearedStatistics, LogInv, IsLog, LogFields
  <2>2. DOMAIN el'.logs = Levels /\ \A l \in Levels : el'.logs[l] = EmptyLogs(l)
    BY <2>1, InitializedFields DEF LogInv, ClogOK
  <2>3. TlogOK(el')
    BY <2>1, TlogsEmptied DEF LogInv, TlogOK
  <2>4. ClogOK(el')
    BY <2>1, <2>2, ClogsEmptied
  <2>5. CountersOK(el')
    BY <2>1, SumOfNone DEF LogInv, CountersOK
  <2> QED BY <2>1, <2>3, <2>4, <2>5 DEF LogInv
<1>3. CASE ClearStatistics
  <2>1. /\ IsLog(el') /\ SameClog(el', el) /\ SameTlog(el', el) /\ el'.enabled = el.enabled
        /\ el'.count = [l \in Levels |-> 0] /\ el'.total = 0 /\ el'.number = el.number
    BY <1>3 DEF ClearStatistics, ClearedStatistics, LogInv, IsLog, LogFields, SameClog, SameTlog
  <2> QED BY <2>1, OthersChanged DEF LogInv, TlogOK, SameTlog, CountersOK
<1>4. ASSUME NEW log, LogInv(log) PROVE LogInv(Incomplete(log))
  <2> DEFINE new == Incomplete(log)
  <2>1. IsLog(new) /\ SameClog(new, log) /\ SameTlog(new, log) /\ SameCounters(new, log)
    BY <1>4 DEF Incomplete, LogInv, IsLog, LogFields, SameClog, SameTlog, SameCounters
  <2> HIDE DEF new
  <2>2. LogInv(new)
    BY <1>4, <2>1, OthersChanged DEF LogInv, TlogOK, SameTlog, CountersOK, SameCounters
  <2> QED BY <2>2 DEF new
<1>5. CASE \E level \in Levels : ClearLogByErrLevel(level) \/ ClearTlog(level) \/ ClearClog(level)
  <2>1. PICK level \in Levels : ClearLogByErrLevel(level) \/ ClearTlog(level) \/ ClearClog(level)
    BY <1>5
  <2>2. \/ el' = Incomplete(ClearedClog(ClearedTlog(el, level), level))
        \/ el' = Incomplete(ClearedTlog(el, level)) \/ el' = Incomplete(ClearedClog(el, level))
    BY <2>1 DEF ClearLogByErrLevel, ClearTlog, ClearClog
  <2>3. LogInv(ClearedTlog(el, level)) /\ LogInv(ClearedClog(el, level))
    BY TlogCleared, ClogCleared
  <2>4. LogInv(ClearedClog(ClearedTlog(el, level), level))
    BY <2>3, ClogCleared
  <2> HIDE DEF LogInv
  <2> QED BY <2>2, <2>3, <2>4, <1>4
<1>6. CASE LoggingCommand(EventGroups)
  <2>1. PICK groups \in SUBSET EventGroups : SetLogging(groups)
    <3>1. el.enabled \subseteq EventGroups
      BY DEF LogInv, CountersOK
    <3>2. \E groups : groups \subseteq EventGroups /\ SetLogging(groups)
      BY <1>6, <3>1 DEF LoggingCommand
    <3> QED BY <3>2
  <2>2. IsLog(el') /\ SameClog(el', el) /\ SameTlog(el', el) /\ el'.enabled = groups
        /\ el'.count = el.count /\ el'.total = el.total /\ el'.number = el.number
    BY <2>1 DEF SetLogging, LogInv, IsLog, LogFields, SameClog, SameTlog
  <2> QED BY <2>1, <2>2, OthersChanged DEF LogInv, TlogOK, SameTlog, CountersOK
<1>7. CASE \E flag \in BOOLEAN : SetOverwriteAll(flag) \/ \E level \in Levels : SetOverwrite(level, flag)
  <2>1. PICK flag \in BOOLEAN : SetOverwriteAll(flag) \/ \E level \in Levels : SetOverwrite(level, flag)
    BY <1>7
  <2>2. /\ IsLog(el') /\ SameClog(el', el) /\ SameCounters(el', el)
        /\ el'.ring = el.ring /\ el'.wp = el.wp /\ el'.overflow = el.overflow /\ el'.stored = el.stored
        /\ \/ el'.overwrite = [l \in Levels |-> IF l = "EH" THEN el.overwrite[l] ELSE flag]
           \/ \E level \in Levels : el'.overwrite = [el.overwrite EXCEPT ![level] = flag]
    BY <2>1 DEF SetOverwriteAll, SetOverwrite, LogInv, IsLog, LogFields, SameClog, SameCounters
  <2>3. el'.overwrite \in [Levels -> BOOLEAN]
    <3>1. el.overwrite \in [Levels -> BOOLEAN]
      BY DEF LogInv, TlogOK
    <3> QED BY <2>2, <3>1
  <2> QED BY <2>2, <2>3, OthersChanged DEF LogInv, CountersOK, SameCounters
<1> QED BY <1>1, <1>2, <1>3, <1>5, <1>6, <1>7 DEF LoggerCommand, ClearingCommand, KeepingCommand
-----------------------------------------------------------------------------
\* EH_get_oldest_event_excluding_eh_error_level_ goes through the levels in their order.
LEMMA ScanIsFiveSteps ==
  Scan = Scanned(Scanned(Scanned(Scanned(Scanned(ScanStart, "HIGH"), "MIDDLE"), "LOW"), "EL"), "EH")
<1> DEFINE s1 == Scanned(ScanStart, "HIGH")
           s2 == Scanned(s1, "MIDDLE")
           s3 == Scanned(s2, "LOW")
           s4 == Scanned(s3, "EL")
           s5 == Scanned(s4, "EH")
           Body(f) == [i \in 0..Len(LevelOrder) |->
                          IF i = 0 THEN ScanStart ELSE Scanned(f[i - 1], LevelOrder[i])]
           g == [i \in 0..5 |-> IF i = 0 THEN ScanStart ELSE IF i = 1 THEN s1 ELSE IF i = 2 THEN s2
                                ELSE IF i = 3 THEN s3 ELSE IF i = 4 THEN s4 ELSE s5]
           scan == CHOOSE f : f = Body(f)
<1>1. Scan = scan[Len(LevelOrder)]
  BY DEF Scan
<1>2. /\ Len(LevelOrder) = 5
      /\ LevelOrder[1] = "HIGH" /\ LevelOrder[2] = "MIDDLE" /\ LevelOrder[3] = "LOW"
      /\ LevelOrder[4] = "EL" /\ LevelOrder[5] = "EH"
  BY DEF LevelOrder
<1> HIDE DEF LevelOrder
<1>3. g = Body(g)
  <2>1. /\ g[0] = ScanStart /\ g[1] = Scanned(g[0], LevelOrder[1]) /\ g[2] = Scanned(g[1], LevelOrder[2])
        /\ g[3] = Scanned(g[2], LevelOrder[3]) /\ g[4] = Scanned(g[3], LevelOrder[4])
        /\ g[5] = Scanned(g[4], LevelOrder[5])
    BY <1>2
  <2>2. \A i \in 0..5 : i = 0 \/ i = 1 \/ i = 2 \/ i = 3 \/ i = 4 \/ i = 5
    OBVIOUS
  <2>3. g = [i \in 0..5 |-> g[i]]
    OBVIOUS
  <2> HIDE DEF g
  <2>4. \A i \in 0..5 : g[i] = IF i = 0 THEN ScanStart ELSE Scanned(g[i - 1], LevelOrder[i])
    BY <2>1, <2>2
  <2> QED BY <1>2, <2>3, <2>4
<1>4. scan = Body(scan)
  <2> HIDE DEF Body, g
  <2> QED BY <1>3
<1> HIDE DEF scan
<1>5. \A i \in 0..5 : scan[i] = IF i = 0 THEN ScanStart ELSE Scanned(scan[i - 1], LevelOrder[i])
  BY <1>2, <1>4
<1> HIDE DEF Body
<1>6. /\ scan[0] = ScanStart /\ scan[1] = Scanned(scan[0], "HIGH") /\ scan[2] = Scanned(scan[1], "MIDDLE")
      /\ scan[3] = Scanned(scan[2], "LOW") /\ scan[4] = Scanned(scan[3], "EL")
      /\ scan[5] = Scanned(scan[4], "EH")
  BY <1>2, <1>5
<1> QED BY <1>1, <1>2, <1>6

ScanFields == {"log", "seen", "total", "time", "oldest"}
ScanOK(s) == DOMAIN s = ScanFields /\ LogInv(s.log)

\* A level keeps the logs in order, also where a loss is recorded.
LEMMA ScannedStep ==
  ASSUME NEW s, ScanOK(s), NEW level
  PROVE  ScanOK(Scanned(s, level))
<1> DEFINE given == GivenUp(s, level)
<1>1. ScanOK(given)
  <2> DEFINE lost == LossRecorded(s.log)
  <2>1. LogInv(lost)
    <3>1. "HIGH" \in Levels
      BY LevelsFacts
    <3> QED BY <3>1, RecordedStep DEF ScanOK, LossRecorded, RecordError
  <2>2. given = s \/ (DOMAIN given = DOMAIN s /\ ("log" \in DOMAIN s => given.log = lost))
    <3> HIDE DEF lost
    <3> QED BY DEF GivenUp, lost
  <2> HIDE DEF given, lost
  <2> QED BY <2>1, <2>2 DEF ScanOK, ScanFields
<1> HIDE DEF given
<1> DEFINE with == WithOldestOf(given, level)
<1>2. ScanOK(with)
  <2>1. with = given \/ (DOMAIN with = DOMAIN given /\ with.log = given.log)
    BY <1>1 DEF WithOldestOf, ScanOK, ScanFields
  <2> HIDE DEF with
  <2> QED BY <1>1, <2>1 DEF ScanOK
<1> HIDE DEF with
<1> QED BY <1>2 DEF Scanned, with, given

\* So do all levels.
LEMMA ScanStep ==
  ASSUME LogInv(el)
  PROVE  LogInv(Scan.log)
<1>1. ScanOK(ScanStart)
  BY DEF ScanOK, ScanStart, ScanFields
<1> DEFINE s1 == Scanned(ScanStart, "HIGH")
           s2 == Scanned(s1, "MIDDLE")
           s3 == Scanned(s2, "LOW")
           s4 == Scanned(s3, "EL")
           s5 == Scanned(s4, "EH")
<1>2. Scan = s5
  BY ScanIsFiveSteps
<1>3. ScanOK(s1)
  BY <1>1, ScannedStep
<1> HIDE DEF s1
<1>4. ScanOK(s2)
  BY <1>3, ScannedStep
<1> HIDE DEF s2
<1>5. ScanOK(s3)
  BY <1>4, ScannedStep
<1> HIDE DEF s3
<1>6. ScanOK(s4)
  BY <1>5, ScannedStep
<1> HIDE DEF s4
<1>7. ScanOK(s5)
  BY <1>6, ScannedStep
<1> QED BY <1>2, <1>7 DEF ScanOK
-----------------------------------------------------------------------------
\* The handler records the events of its own, and what it finds out of turn, only by the logger.
LEMMA HandlerLogStep ==
  ASSUME LogInv(el), HandlerStep
  PROVE  LogInv(el')
<1>1. \A group, local, level, time : level \in Levels => LogInv(Recorded(el, group, local, level, time))
  BY RecordedStep
<1>2. "HIGH" \in Levels /\ "LOW" \in Levels /\ "EH" \in Levels
  BY LevelsFacts
<1>3. \A local : LogInv(RecordError(el, local, "HIGH"))
  BY <1>1, <1>2 DEF RecordError
<1> HIDE DEF LogInv
<1>4. CASE el' = el
  BY <1>4
<1>5. CASE ExecuteDisagrees \/ RuleIsStrange \/ HigherIsRefused
  BY <1>3, <1>5 DEF ExecuteDisagrees, RuleIsStrange, HigherIsRefused
<1>6. CASE RuleMatches \/ ReturnToLower
  BY <1>1, <1>2, <1>6 DEF RuleMatches, ReturnToLower
<1>7. CASE NextEvent
  BY <1>7, ScanStep DEF NextEvent
<1>8. CASE \E outcome \in {"SUCCESS", "ADJUSTED", "FAILURE"} : Respond(outcome)
  <2>1. PICK outcome : Respond(outcome)
    BY <1>8
  <2> DEFINE log == DeployRecorded(el, outcome)
  <2>2. LogInv(log)
    BY <1>1, <1>2 DEF DeployRecorded, RecordError
  <2>3. el' = log \/ el' = RecordError(log, LogTableFull, "HIGH")
    BY <2>1 DEF Respond
  <2> HIDE DEF log
  <2>4. LogInv(RecordError(log, LogTableFull, "HIGH"))
    BY <1>2, <2>2, RecordedStep DEF RecordError
  <2> QED BY <2>2, <2>3, <2>4
<1>9. HandlerStep =>
        \/ el' = el \/ ExecuteDisagrees \/ RuleIsStrange \/ HigherIsRefused \/ RuleMatches \/ ReturnToLower
        \/ NextEvent \/ \E outcome \in {"SUCCESS", "ADJUSTED", "FAILURE"} : Respond(outcome)
  BY DEF HandlerStep, Execute, ExecuteEnds, RuleIsSkipped, RuleCounts, HigherIsAsked,
         ReturnToRespond, ReturnToExecute
<1> QED BY <1>4, <1>5, <1>6, <1>7, <1>8, <1>9

\* The logs at the start.
LEMMA HandlerLogInit == HandlerInit => LogInv(el)
<1> SUFFICES ASSUME HandlerInit PROVE LogInv(el)
  OBVIOUS
<1>1. el = Initialized
  BY DEF HandlerInit, HandlerStart, LoggerInit
<1>2. IsLog(el) /\ el.number \in Nat /\ el.overwrite = Initialized.overwrite
  BY <1>1, InitializedFields
<1> HIDE DEF Initialized
<1> QED BY <1>1, <1>2, InitializedInv

\* The invariant of the logger in every step of the handler.
LEMMA HandlerNextLogStep == LogInv(el) /\ [HandlerNext]_handlerVars => LogInv(el')
<1> SUFFICES ASSUME LogInv(el), [HandlerNext]_handlerVars PROVE LogInv(el')
  OBVIOUS
<1>1. CASE HandlerStep
  BY <1>1, HandlerLogStep
<1>2. CASE HandlerCommand(EventGroups, Levels)
  <2>1. LoggerCommand(EventGroups, Levels) \/ el' = el
    BY <1>2 DEF HandlerCommand, ClearCounters, CommandLogger, MatchCounters, Set, CommandRule,
                CommandCounter, CommandMaxLevels, CommandTable, ClearTable, LoggerCommand
  <2>2. CASE LoggerCommand(EventGroups, Levels)
    BY <2>2, CommandLogStep
  <2> HIDE DEF LogInv
  <2> QED BY <2>1, <2>2
<1>3. CASE \E group \in EventGroups, local \in Locals, level \in Levels : RecordByUser(group, local, level)
  <2>1. PICK group \in EventGroups, local \in Locals, level \in Levels : RecordByUser(group, local, level)
    BY <1>3
  <2>2. el' = Recorded(el, group, local, level, clock)
    BY <2>1 DEF RecordByUser, RecordEvent
  <2> QED BY <2>2, RecordedStep
<1>4. CASE ClockTick \/ UNCHANGED handlerVars
  <2>1. el' = el
    BY <1>4 DEF ClockTick, Tick, handlerVars
  <2> HIDE DEF LogInv
  <2> QED BY <2>1
<1> QED BY <1>1, <1>2, <1>3, <1>4 DEF HandlerNext

\* What the invariant says of the logs.
LEMMA SoundLogs ==
  ASSUME LogInv(el)
  PROVE  LogsAreSound
<1>1. TlogOK(el) /\ ClogOK(el) /\ CountersOK(el)
  BY DEF LogInv
<1>2. ASSUME NEW l \in Levels
      PROVE  /\ el.wp[l] \in Slots(l)
             /\ \A n \in Slots(l) : NthFromLatest(el, l, n) =
                    IF n < Len(el.stored[l]) THEN el.stored[l][Len(el.stored[l]) - n] ELSE NoEvent
  <2> DEFINE c == TLogCapacity[l]
  <2>1. RingHolds(el.ring[l], el.wp[l], el.stored[l], c) /\ c \in Nat \ {0}
    BY <1>1, LevelsFacts DEF TlogOK
  <2> HIDE DEF NoEvent
  <2>2. ASSUME NEW n \in 0..(c - 1)
        PROVE  NthFromLatest(el, l, n) = el.ring[l][(el.wp[l] - 1 - n + c) % c]
    <3>1. ~(n >= c)
      BY <2>1
    <3> QED BY <3>1 DEF NthFromLatest, SlotFromLatest
  <2> QED BY <2>1, <2>2 DEF RingHolds, Slots
<1>3. ASSUME NEW l \in Levels PROVE ToSet(el.orders[l]) = 1..CLogCapacity[l]
  <2> DEFINE c == CLogCapacity[l]
             order == el.orders[l]
  <2>1. Permutes(order, c)
    BY <1>1 DEF ClogOK, ClogHolds
  <2> HIDE DEF order, c
  <2>2. order \in Seq(1..c) /\ Len(order) = c /\ \A v \in 1..c : \E a \in 1..c : order[a] = v
    BY <2>1 DEF Permutes
  <2>3. \A a \in 1..c : order[a] \in 1..c
    BY <2>2, ElementOfSeq
  <2>4. DOMAIN order = 1..c
    BY <2>2
  <2>5. ToSet(order) = 1..c
    BY <2>2, <2>3, <2>4 DEF ToSet
  <2> QED BY <2>5 DEF order, c
<1>4. LoggerTypeOK
  BY <1>1, <1>2, <1>3 DEF LoggerTypeOK, TlogOK, CountersOK
<1>5. RingIsRecent
  BY <1>2 DEF RingIsRecent
<1>6. ASSUME NEW l \in Levels, NEW i \in 1..CLogCapacity[l]
      PROVE  /\ IF i <= Cardinality(ToSet(el.counted[l]))
                THEN /\ Kind(LogAt(l, i).event) \in ToSet(el.counted[l])
                     /\ Cardinality(Newer(el.counted[l], Len(el.counted[l]), Kind(LogAt(l, i).event))) = i - 1
                ELSE LogAt(l, i) = [event |-> NoEvent, count |-> 0]
             /\ LogAt(l, i).count =
                    Cardinality(CountedFor(el.counted[l], CLogCapacity[l], Kind(LogAt(l, i).event)))
  <2> DEFINE c == CLogCapacity[l]
             logs == el.logs[l]
             order == el.orders[l]
             h == el.counted[l]
             K == KindsIn(logs, order, c)
             m == CountsIn(logs, order, c)
  <2>1. /\ Recent(K, h, c) /\ Counts(K, m, h, c)
        /\ K[i] = NoKind => logs[order[i]] = [event |-> NoEvent, count |-> 0]
    BY <1>1 DEF ClogOK, ClogHolds
  <2>2. K[i] = Kind(LogAt(l, i).event) /\ m[i] = LogAt(l, i).count /\ LogAt(l, i) = logs[order[i]]
    BY DEF KindsIn, CountsIn, LogAt
  <2> HIDE DEF K, m
  <2>3. m[i] = Cardinality(CountedFor(h, c, K[i]))
    BY <2>1 DEF Counts
  <2>4. IF i <= Cardinality(ToSet(h))
        THEN K[i] \in ToSet(h) /\ Cardinality(Newer(h, Len(h), K[i])) = i - 1
        ELSE K[i] = NoKind
    BY <2>1 DEF Recent
  <2> QED BY <2>1, <2>2, <2>3, <2>4
<1>7. ClogIsMostRecent /\ ClogCounts
  BY <1>6 DEF ClogIsMostRecent, ClogCounts
<1> QED BY <1>4, <1>5, <1>7 DEF LogsAreSound

\* TLog has the events stored last and CLog the kinds recorded last, each with its count, for
\* any sizes of the logs, any events and any commands: EL_record_event_ and all that the handler
\* records by it keep them so.
THEOREM TheLogsAreSound == HandlerSpec => []LogsAreSound
<1>1. HandlerInit => LogInv(el)
  BY HandlerLogInit
<1>2. LogInv(el) /\ [HandlerNext]_handlerVars => LogInv(el)'
  BY HandlerNextLogStep
<1>3. LogInv(el) => LogsAreSound
  BY SoundLogs
<1> QED BY <1>1, <1>2, <1>3, PTL DEF HandlerSpec

(***************************************************************************)
(* What recording adds to the logs.                                        *)
(***************************************************************************)

\* The events that new has in a level and log has not are of that level and have numbers of their own.
FreshEvents(new, log, l) ==
    \A k \in (Len(log.stored[l]) + 1)..Len(new.stored[l]) :
        /\ new.stored[l][k].level = l
        /\ new.stored[l][k].number > log.number /\ new.stored[l][k].number <= new.number
        /\ new.stored[l][k].number \in Nat
Grown(new, log) ==
    /\ log.number \in Nat /\ new.number \in Nat /\ log.number <= new.number
    /\ new.overwrite = log.overwrite /\ new.enabled = log.enabled /\ new.complete = log.complete
    /\ \A l \in Levels : /\ Continues(new.stored[l], log.stored[l])
                         /\ Continues(new.counted[l], log.counted[l])
                         /\ log.count[l] <= new.count[l]
                         /\ FreshEvents(new, log, l)
                         /\ \A i \in Slots(l) : log.ring[l][i].level = l => new.ring[l][i].level = l

\* Nothing was cleared and no logging or overwriting disabled: every event counted is stored.
Kept(log) ==
    /\ log.number \in Nat /\ log.enabled = EventGroups
    /\ \A l \in Levels : /\ log.overwrite[l] = TRUE /\ log.count[l] = Len(log.stored[l])
                         /\ \A k \in 1..Len(log.stored[l]) : /\ log.stored[l][k].level = l
                                                             /\ log.stored[l][k].number \in Nat
                                                             /\ log.stored[l][k].number <= log.number

Records(new, log) == LogInv(new) /\ Grown(new, log) /\ (Kept(log) => Kept(new))

\* What the invariant says of the types of the parts.
LEMMA LogInvFacts ==
  ASSUME NEW log, LogInv(log)
  PROVE  /\ IsLog(log) /\ TlogOK(log) /\ ClogOK(log) /\ CountersOK(log)
         /\ \A l \in Levels : /\ IsSequence(log.stored[l]) /\ Len(log.stored[l]) \in Nat
                              /\ IsSequence(log.counted[l]) /\ Len(log.counted[l]) \in Nat
                              /\ log.count[l] \in Nat /\ log.wp[l] \in Slots(l)
                              /\ DOMAIN log.ring[l] = Slots(l)
<1>1. IsLog(log) /\ TlogOK(log) /\ ClogOK(log) /\ CountersOK(log)
  BY DEF LogInv
<1>2. \A l \in Levels : /\ IsSequence(log.stored[l]) /\ log.wp[l] \in Slots(l)
                        /\ DOMAIN log.ring[l] = Slots(l)
  BY <1>1 DEF TlogOK, RingHolds, Slots
<1>3. \A l \in Levels : IsSequence(log.counted[l])
  BY <1>1 DEF ClogOK, ClogHolds
<1>4. \A l \in Levels : Len(log.stored[l]) \in Nat /\ Len(log.counted[l]) \in Nat
  BY <1>2, <1>3, StackFacts
<1>5. \A l \in Levels : log.count[l] \in Nat
  BY <1>1 DEF CountersOK
<1> QED BY <1>1, <1>2, <1>3, <1>4, <1>5

\* Nothing is recorded.
LEMMA RecordsNothing ==
  ASSUME NEW log, LogInv(log), log.number \in Nat
  PROVE  Records(log, log)
<1>1. \A l \in Levels : /\ Continues(log.stored[l], log.stored[l])
                        /\ Continues(log.counted[l], log.counted[l])
                        /\ log.count[l] \in Nat /\ Len(log.stored[l]) \in Nat
  BY LogInvFacts, ContinuesItself
<1>2. \A l \in Levels : FreshEvents(log, log, l)
  BY <1>1 DEF FreshEvents
<1> QED BY <1>1, <1>2 DEF Records, Grown

\* Recording after recording.
LEMMA RecordsMore ==
  ASSUME NEW log, NEW mid, NEW new, LogInv(log), Records(mid, log), Records(new, mid)
  PROVE  Records(new, log)
<1>1. Grown(mid, log) /\ Grown(new, mid) /\ LogInv(new) /\ LogInv(mid) /\ (Kept(log) => Kept(new))
  BY DEF Records
<1>2. /\ log.number \in Nat /\ mid.number \in Nat /\ new.number \in Nat
      /\ log.number <= mid.number /\ mid.number <= new.number
      /\ new.overwrite = log.overwrite /\ new.enabled = log.enabled /\ new.complete = log.complete
  BY <1>1 DEF Grown
<1>3. ASSUME NEW l \in Levels
      PROVE  /\ Continues(new.stored[l], log.stored[l]) /\ Continues(new.counted[l], log.counted[l])
             /\ log.count[l] <= new.count[l]
             /\ FreshEvents(new, log, l)
             /\ \A i \in Slots(l) : log.ring[l][i].level = l => new.ring[l][i].level = l
  <2>1. /\ Continues(mid.stored[l], log.stored[l]) /\ Continues(new.stored[l], mid.stored[l])
        /\ Continues(mid.counted[l], log.counted[l]) /\ Continues(new.counted[l], mid.counted[l])
        /\ FreshEvents(mid, log, l) /\ FreshEvents(new, mid, l)
        /\ log.count[l] <= mid.count[l] /\ mid.count[l] <= new.count[l]
        /\ \A i \in Slots(l) : log.ring[l][i].level = l => new.ring[l][i].level = l
    BY <1>1 DEF Grown
  <2>2. Continues(new.stored[l], log.stored[l]) /\ Continues(new.counted[l], log.counted[l])
    BY <2>1, ContinuesOn
  <2>3. log.count[l] <= new.count[l]
    <3>1. log.count[l] \in Nat /\ mid.count[l] \in Nat /\ new.count[l] \in Nat
      BY <1>1, LogInvFacts
    <3> QED BY <2>1, <3>1
  <2>4. ASSUME NEW k \in (Len(log.stored[l]) + 1)..Len(new.stored[l])
        PROVE  /\ new.stored[l][k].level = l
               /\ new.stored[l][k].number > log.number /\ new.stored[l][k].number <= new.number
               /\ new.stored[l][k].number \in Nat
    <3>1. Len(log.stored[l]) \in Nat /\ Len(mid.stored[l]) \in Nat /\ Len(new.stored[l]) \in Nat
      BY <1>1, LogInvFacts
    <3>2. CASE k <= Len(mid.stored[l])
      <4>1. k \in (Len(log.stored[l]) + 1)..Len(mid.stored[l]) /\ k \in 1..Len(mid.stored[l])
        BY <3>1, <3>2
      <4>2. new.stored[l][k] = mid.stored[l][k]
        BY <2>1, <4>1 DEF Continues
      <4>3. /\ mid.stored[l][k].level = l /\ mid.stored[l][k].number > log.number
            /\ mid.stored[l][k].number <= mid.number /\ mid.stored[l][k].number \in Nat
        BY <2>1, <4>1 DEF FreshEvents
      <4> QED BY <1>2, <4>2, <4>3
    <3>3. CASE ~(k <= Len(mid.stored[l]))
      <4>1. k \in (Len(mid.stored[l]) + 1)..Len(new.stored[l])
        BY <3>1, <3>3
      <4>2. /\ new.stored[l][k].level = l /\ new.stored[l][k].number > mid.number
            /\ new.stored[l][k].number <= new.number /\ new.stored[l][k].number \in Nat
        BY <2>1, <4>1 DEF FreshEvents
      <4> QED BY <1>2, <4>2
    <3> QED BY <3>2, <3>3
  <2>5. FreshEvents(new, log, l)
    BY <2>4 DEF FreshEvents
  <2> QED BY <2>1, <2>2, <2>3, <2>5
<1>4. Grown(new, log)
  <2>1. log.number <= new.number
    BY <1>2
  <2> QED BY <1>2, <1>3, <2>1 DEF Grown
<1> QED BY <1>1, <1>4 DEF Records

\* An event in its level.
HasEvent(new, log, e) ==
    LET s == log.stored[e.level]
    IN  Len(new.stored[e.level]) = Len(s) + 1 /\ new.stored[e.level][Len(s) + 1] = e

\* An event is counted and put into TLog.
LEMMA InTlogRecords ==
  ASSUME NEW log, LogInv(log), log.number \in Nat, NEW e, e.level \in Levels, e.number = log.number + 1
  PROVE  /\ Records(RecordedToTlog(Counted(log, e), e), log)
         /\ CanStore(log, e.level) => HasEvent(RecordedToTlog(Counted(log, e), e), log, e)
         /\ RecordedToTlog(Counted(log, e), e).counted = log.counted
<1> DEFINE cnt == Counted(log, e)
           new == RecordedToTlog(cnt, e)
           l == e.level
<1>1. /\ IsLog(cnt) /\ SameTlog(cnt, log) /\ SameClog(cnt, log) /\ cnt.enabled = log.enabled
      /\ cnt.count = [log.count EXCEPT ![l] = @ + 1]
      /\ cnt.number = log.number + 1 /\ cnt.complete = log.complete
  <2>1. IsLog(log)
    BY LogInvFacts
  <2>2. cnt = Counted(log, e)
    OBVIOUS
  <2> HIDE DEF cnt
  <2> QED BY <2>1, <2>2, CountedFields
<1>2. LogInv(cnt) /\ LogInv(new)
  BY CountedStep, TlogStep
<1> HIDE DEF cnt
<1>3. CanStore(cnt, l) <=> CanStore(log, l)
  BY <1>1 DEF CanStore, SameTlog
<1>4. /\ IsLog(new) /\ SameClog(new, log) /\ new.enabled = log.enabled
      /\ new.number = log.number + 1 /\ new.complete = log.complete /\ new.overwrite = log.overwrite
      /\ new.count = cnt.count
      /\ ~CanStore(log, l) => new.ring = log.ring /\ new.stored = log.stored
      /\ CanStore(log, l) => /\ new.ring = [log.ring EXCEPT ![l] = [@ EXCEPT ![log.wp[l]] = e]]
                             /\ new.stored = [log.stored EXCEPT ![l] = Append(@, e)]
  <2>1. CASE CanStore(log, l)
    <3>1. InTlog(new, cnt, e)
      BY <1>1, <1>3, <2>1, TlogFields
    <3> HIDE DEF new
    <3> QED BY <1>1, <2>1, <3>1 DEF InTlog, SameTlog, SameClog, SameCounters
  <2>2. CASE ~CanStore(log, l)
    <3>1. new = cnt
      BY <1>3, <2>2 DEF RecordedToTlog
    <3> HIDE DEF new
    <3> QED BY <1>1, <2>2, <3>1 DEF SameTlog, SameClog
  <2> QED BY <2>1, <2>2
<1> HIDE DEF new
<1>5. \A k \in Levels : /\ IsSequence(log.stored[k]) /\ Len(log.stored[k]) \in Nat
                        /\ IsSequence(log.counted[k]) /\ log.count[k] \in Nat
                        /\ log.wp[k] \in Slots(k) /\ DOMAIN log.ring[k] = Slots(k)
  BY LogInvFacts
<1>6. DOMAIN log.ring = Levels /\ DOMAIN log.stored = Levels /\ log.count \in [Levels -> Nat]
  BY LogInvFacts DEF TlogOK, CountersOK
<1>7. /\ \A k \in Levels : new.counted[k] = log.counted[k]
      /\ \A k \in Levels : k # l => /\ new.stored[k] = log.stored[k] /\ new.ring[k] = log.ring[k]
                                    /\ new.count[k] = log.count[k]
      /\ new.count[l] = log.count[l] + 1
  BY <1>1, <1>4, <1>6 DEF SameClog
<1>8. CASE CanStore(log, l)
  <2> DEFINE s == log.stored[l]
  <2>1. new.stored[l] = Append(s, e) /\ new.ring[l] = [log.ring[l] EXCEPT ![log.wp[l]] = e]
    BY <1>4, <1>6, <1>8
  <2>2. /\ Len(new.stored[l]) = Len(s) + 1 /\ new.stored[l][Len(s) + 1] = e /\ Continues(new.stored[l], s)
        /\ \A i \in 1..Len(s) : new.stored[l][i] = s[i]
    <3>1. IsSequence(s)
      BY <1>5
    <3> HIDE DEF s
    <3>2. /\ Len(Append(s, e)) = Len(s) + 1 /\ Append(s, e)[Len(s) + 1] = e
          /\ \A i \in 1..Len(s) : Append(s, e)[i] = s[i]
      BY <3>1, Appended
    <3>3. Continues(Append(s, e), s)
      BY <3>1, ContinuesItself
    <3> QED BY <2>1, <3>2, <3>3
  <2>3. \A i \in Slots(l) : log.ring[l][i].level = l => new.ring[l][i].level = l
    BY <1>5, <2>1
  <2>4. FreshEvents(new, log, l)
    <3> SUFFICES ASSUME NEW k \in (Len(log.stored[l]) + 1)..Len(new.stored[l])
                 PROVE  /\ new.stored[l][k].level = l
                        /\ new.stored[l][k].number > log.number /\ new.stored[l][k].number <= new.number
                        /\ new.stored[l][k].number \in Nat
      BY DEF FreshEvents
    <3>1. Len(s) \in Nat
      BY <1>5
    <3>2. k = Len(s) + 1
      BY <2>2, <3>1
    <3>3. new.stored[l][k] = e
      BY <2>2, <3>2
    <3> QED BY <3>3, <1>4
  <2>5. ASSUME NEW k \in Levels, k # l
        PROVE  /\ Continues(new.stored[k], log.stored[k]) /\ FreshEvents(new, log, k)
               /\ \A i \in Slots(k) : log.ring[k][i].level = k => new.ring[k][i].level = k
    <3>1. new.stored[k] = log.stored[k] /\ new.ring[k] = log.ring[k] /\ Len(log.stored[k]) \in Nat
      BY <1>5, <1>7, <2>5
    <3>2. Continues(new.stored[k], log.stored[k])
      BY <1>5, <3>1, ContinuesItself
    <3> QED BY <3>1, <3>2 DEF FreshEvents
  <2>6. Grown(new, log)
    <3>1. \A k \in Levels : Continues(new.counted[k], log.counted[k])
      BY <1>5, <1>7, ContinuesItself
    <3>2. \A k \in Levels : log.count[k] <= new.count[k]
      BY <1>5, <1>7
    <3>3. new.number \in Nat /\ log.number <= new.number
      BY <1>4
    <3>4. \A k \in Levels : /\ Continues(new.stored[k], log.stored[k]) /\ FreshEvents(new, log, k)
                            /\ \A i \in Slots(k) : log.ring[k][i].level = k => new.ring[k][i].level = k
      BY <2>2, <2>3, <2>4, <2>5
    <3> QED BY <1>4, <3>1, <3>2, <3>3, <3>4 DEF Grown
  <2>7. ASSUME Kept(log) PROVE Kept(new)
    <3>1. new.number \in Nat /\ new.enabled = EventGroups /\ \A k \in Levels : new.overwrite[k] = TRUE
      BY <1>4, <2>7 DEF Kept
    <3>2. ASSUME NEW k \in Levels
          PROVE  /\ new.count[k] = Len(new.stored[k])
                 /\ \A i \in 1..Len(new.stored[k]) :
                       /\ new.stored[k][i].level = k /\ new.stored[k][i].number \in Nat
                       /\ new.stored[k][i].number <= new.number
      <4>1. /\ log.count[k] = Len(log.stored[k])
            /\ \A i \in 1..Len(log.stored[k]) :
                  /\ log.stored[k][i].level = k /\ log.stored[k][i].number \in Nat
                  /\ log.stored[k][i].number <= log.number
        BY <2>7 DEF Kept
      <4>2. CASE k # l
        BY <1>4, <1>7, <4>1, <4>2
      <4>3. CASE k = l
        <5>1. new.count[k] = Len(new.stored[k])
          BY <1>7, <2>2, <4>1, <4>3
        <5>2. ASSUME NEW i \in 1..Len(new.stored[k])
              PROVE  /\ new.stored[k][i].level = k /\ new.stored[k][i].number \in Nat
                     /\ new.stored[k][i].number <= new.number
          <6>1. CASE i = Len(s) + 1
            <7>1. new.stored[k][i] = e
              BY <6>1, <2>2, <4>3
            <7>2. new.number \in Nat /\ e.number = new.number /\ e.level = k
              BY <1>4, <4>3
            <7> QED BY <7>1, <7>2
          <6>2. CASE i # Len(s) + 1
            <7>1. i \in 1..Len(s)
              BY <6>2, <5>2, <2>2, <4>3, <1>5
            <7>2. new.stored[k][i] = log.stored[k][i]
              BY <7>1, <2>2, <4>3
            <7> QED BY <7>1, <7>2, <4>1, <4>3, <1>4
          <6> QED BY <6>1, <6>2
        <5> QED BY <5>1, <5>2
      <4> QED BY <4>2, <4>3
    <3> QED BY <3>1, <3>2 DEF Kept
  <2>8. HasEvent(new, log, e)
    BY <2>2 DEF HasEvent
  <2>9. new.counted = log.counted
    BY <1>4 DEF SameClog
  <2>10. Records(new, log)
    BY <1>2, <2>6, <2>7 DEF Records, new
  <2> QED BY <1>8, <2>8, <2>9, <2>10 DEF new, cnt
<1>9. CASE ~CanStore(log, l)
  <2>1. ~Kept(log)
    BY <1>9 DEF Kept, CanStore
  <2>2. \A k \in Levels : /\ new.stored[k] = log.stored[k] /\ new.ring[k] = log.ring[k]
                          /\ log.count[k] <= new.count[k] /\ Len(log.stored[k]) \in Nat
    BY <1>4, <1>5, <1>7, <1>9
  <2>3. \A k \in Levels : /\ Continues(new.stored[k], log.stored[k])
                          /\ Continues(new.counted[k], log.counted[k])
    BY <1>5, <1>7, <2>2, ContinuesItself
  <2>4. \A k \in Levels : FreshEvents(new, log, k)
    BY <2>2 DEF FreshEvents
  <2>5. Grown(new, log)
    <3>1. new.number \in Nat /\ log.number <= new.number
      BY <1>4
    <3> QED BY <1>4, <2>2, <2>3, <2>4, <3>1 DEF Grown
  <2>6. Records(new, log) /\ new.counted = log.counted
    BY <1>2, <1>4, <2>1, <2>5 DEF Records, new, SameClog
  <2> QED BY <1>9, <2>6 DEF new, cnt
<1> QED BY <1>8, <1>9

\* An event is put into CLog.
LEMMA InClogRecords ==
  ASSUME NEW log, LogInv(log), log.number \in Nat, NEW e, e.level \in Levels, Kind(e) # NoKind
  PROVE  Records(RecordedToClog(log, e), log)
<1> DEFINE new == RecordedToClog(log, e)
           l == e.level
<1>1. LogInv(new)
  BY ClogRecordStep
<1>2. CASE ~EnableClog
  <2>1. new = log
    BY <1>2 DEF RecordedToClog
  <2>2. Records(log, log)
    BY RecordsNothing
  <2> QED BY <2>1, <2>2
<1>3. CASE EnableClog
  <2>1. InClog(new, log, e)
    BY <1>3, LogInvFacts, ClogFields
  <2> HIDE DEF new
  <2>2. /\ SameTlog(new, log) /\ SameCounters(new, log) /\ new.number = log.number
        /\ new.complete = log.complete
        /\ new.counted = [log.counted EXCEPT ![l] = Append(@, Kind(e))]
    BY <2>1 DEF InClog, SameCounters
  <2>3. /\ DOMAIN log.counted = Levels
        /\ \A k \in Levels : /\ IsSequence(log.stored[k]) /\ Len(log.stored[k]) \in Nat
                             /\ IsSequence(log.counted[k]) /\ log.count[k] \in Nat
    BY LogInvFacts DEF ClogOK
  <2>4. ASSUME NEW k \in Levels PROVE Continues(new.counted[k], log.counted[k])
    <3>1. new.counted[k] = IF k = l THEN Append(log.counted[k], Kind(e)) ELSE log.counted[k]
      BY <2>2, <2>3
    <3>2. Continues(log.counted[k], log.counted[k]) /\ Continues(Append(log.counted[k], Kind(e)), log.counted[k])
      BY <2>3, ContinuesItself
    <3> QED BY <3>1, <3>2
  <2>5. ASSUME NEW k \in Levels
        PROVE  Continues(new.stored[k], log.stored[k]) /\ FreshEvents(new, log, k)
    <3>1. new.stored[k] = log.stored[k]
      BY <2>2 DEF SameTlog
    <3>2. Continues(log.stored[k], log.stored[k])
      BY <2>3, ContinuesItself
    <3> QED BY <2>3, <3>1, <3>2 DEF FreshEvents
  <2>6. Grown(new, log)
    BY <2>2, <2>3, <2>4, <2>5 DEF Grown, SameTlog, SameCounters
  <2>7. Kept(log) => Kept(new)
    BY <2>2 DEF Kept, SameTlog, SameCounters
  <2> QED BY <1>1, <2>6, <2>7 DEF Records, new
<1> QED BY <1>2, <1>3

\* An event of the logger itself.
LEMMA RecordedELRecords ==
  ASSUME NEW log, LogInv(log), log.number \in Nat, NEW group, NEW local, NEW time
  PROVE  Records(RecordedEL(log, group, local, time), log)
<1> DEFINE e == Event(group, local, "EL", time, log.number + 1)
           inTlog == RecordedToTlog(Counted(log, e), e)
           new == RecordedToClog(inTlog, e)
<1>1. CASE "EL" \notin Levels \/ group \notin log.enabled
  <2>1. RecordedEL(log, group, local, time) = log
    BY <1>1 DEF RecordedEL
  <2>2. Records(log, log)
    BY RecordsNothing
  <2> QED BY <2>1, <2>2
<1>2. CASE "EL" \in Levels /\ group \in log.enabled
  <2>1. group \in EventGroups
    BY <1>2 DEF LogInv, CountersOK
  <2>2. Kind(e) # NoKind /\ e.level = "EL" /\ e.number = log.number + 1
    BY <2>1, EventFacts
  <2> HIDE DEF e
  <2>3. Records(inTlog, log)
    BY <1>2, <2>2, InTlogRecords
  <2> HIDE DEF inTlog
  <2>4. LogInv(inTlog) /\ inTlog.number \in Nat
    BY <2>3 DEF Records, Grown
  <2>5. Records(new, inTlog)
    BY <1>2, <2>2, <2>4, InClogRecords
  <2> HIDE DEF new
  <2>6. Records(new, log)
    BY <2>3, <2>5, RecordsMore
  <2> QED BY <1>2, <2>6 DEF RecordedEL, new, inTlog, e
<1> QED BY <1>1, <1>2

\* The two events about a kind that is dropped.
LEMMA DropRecords ==
  ASSUME NEW log, LogInv(log), log.number \in Nat, NEW e
  PROVE  Records(DropRecorded(log, e), log)
<1> DEFINE old == Oldest(log, e.level).event
           mid == RecordedEL(log, DropClog1, old.group, e.time)
           new == RecordedEL(mid, DropClog2, old.local, e.time)
<1>1. Records(mid, log)
  BY RecordedELRecords
<1>2. DropRecorded(log, e) = new \/ DropRecorded(log, e) = log
  BY DEF DropRecorded
<1> HIDE DEF mid
<1>3. LogInv(mid) /\ mid.number \in Nat
  BY <1>1 DEF Records, Grown
<1>4. Records(new, mid)
  BY <1>3, RecordedELRecords
<1> HIDE DEF new
<1>5. Records(new, log)
  BY <1>1, <1>4, RecordsMore
<1>6. Records(log, log)
  BY RecordsNothing
<1> QED BY <1>2, <1>5, <1>6

\* The event about a ring that has gone round.
LEMMA WpRecords ==
  ASSUME NEW log, LogInv(log), log.number \in Nat, NEW e, NEW stored
  PROVE  Records(WpChecked(log, e, stored), log)
<1>1. \A local : Records(RecordedEL(log, LoggerGroup, local, e.time), log)
  BY RecordedELRecords
<1>2. Records(log, log)
  BY RecordsNothing
<1>3. \/ WpChecked(log, e, stored) = log
      \/ \E local : WpChecked(log, e, stored) = RecordedEL(log, LoggerGroup, local, e.time)
  BY DEF WpChecked
<1> QED BY <1>1, <1>2, <1>3

\* Recording an event adds it to its level with the next number, and perhaps others after it.
Put(new, log, e) ==
    LET s == log.stored[e.level]
    IN  Len(s) + 1 <= Len(new.stored[e.level]) /\ new.stored[e.level][Len(s) + 1] = e

\* EL_record_event_ only adds to the logs, the event itself first.
LEMMA RecordedRecords ==
  ASSUME NEW log, LogInv(log), log.number \in Nat, NEW group, NEW local, NEW level \in Levels, NEW time
  PROVE  /\ Records(Recorded(log, group, local, level, time), log)
         /\ group \in log.enabled /\ CanStore(log, level) =>
               Put(Recorded(log, group, local, level, time), log,
                   Event(group, local, level, time, log.number + 1))
<1> DEFINE e == Event(group, local, level, time, log.number + 1)
           inTlog == RecordedToTlog(Counted(log, e), e)
           dropped == DropRecorded(inTlog, e)
           inClog == RecordedToClog(dropped, e)
           new == WpChecked(inClog, e, CanStore(log, level))
<1>1. CASE group \notin log.enabled
  <2>1. Recorded(log, group, local, level, time) = log
    BY <1>1 DEF Recorded
  <2>2. Records(log, log)
    BY RecordsNothing
  <2> QED BY <1>1, <2>1, <2>2
<1>2. CASE group \in log.enabled
  <2>1. group \in EventGroups
    BY <1>2 DEF LogInv, CountersOK
  <2>2. Kind(e) # NoKind /\ e.level = level /\ e.number = log.number + 1
    BY <2>1, EventFacts
  <2>3. Recorded(log, group, local, level, time) = new
    BY <1>2 DEF Recorded
  <2> HIDE DEF e
  <2>4. Records(inTlog, log) /\ (CanStore(log, level) => HasEvent(inTlog, log, e))
    BY <2>2, InTlogRecords
  <2> HIDE DEF inTlog
  <2>5. LogInv(inTlog) /\ inTlog.number \in Nat
    BY <2>4 DEF Records, Grown
  <2>6. Records(dropped, inTlog)
    BY <2>5, DropRecords
  <2> HIDE DEF dropped
  <2>7. LogInv(dropped) /\ dropped.number \in Nat
    BY <2>6 DEF Records, Grown
  <2>8. Records(inClog, dropped)
    BY <2>2, <2>7, InClogRecords
  <2> HIDE DEF inClog
  <2>9. LogInv(inClog) /\ inClog.number \in Nat
    BY <2>8 DEF Records, Grown
  <2>10. Records(new, inClog)
    BY <2>9, WpRecords
  <2> HIDE DEF new
  <2>11. Records(inClog, inTlog)
    BY <2>5, <2>6, <2>8, RecordsMore
  <2>12. Records(new, inTlog)
    BY <2>5, <2>10, <2>11, RecordsMore
  <2>13. Records(new, log)
    BY <2>4, <2>12, RecordsMore
  <2>14. ASSUME CanStore(log, level) PROVE Put(new, log, e)
    <3> DEFINE s == log.stored[level]
               t == inTlog.stored[level]
               u == new.stored[level]
    <3>1. Len(t) = Len(s) + 1 /\ t[Len(s) + 1] = e
      BY <2>2, <2>4, <2>14 DEF HasEvent
    <3>2. Continues(u, t)
      BY <2>12 DEF Records, Grown
    <3>3. Len(s) \in Nat
      BY LogInvFacts
    <3> HIDE DEF s, t, u
    <3>4. Len(s) + 1 <= Len(u) /\ u[Len(s) + 1] = e
      BY <3>1, <3>2, <3>3 DEF Continues
    <3> QED BY <2>2, <3>4 DEF Put, s, u
  <2> QED BY <2>3, <2>13, <2>14 DEF e
<1> QED BY <1>1, <1>2

(***************************************************************************)
(* What the event handler has seen of the logs.                            *)
(***************************************************************************)

\* A loss on record that was recorded after the event with the number n.
Announced(log, n) ==
    \E k \in 1..Len(log.stored["HIGH"]) :
        IsLoss(log.stored["HIGH"][k]) /\ log.stored["HIGH"][k].number > n

\* The counters of the handler are behind those of the logger, and their total is their sum.
Behind(log, seen, total) ==
    seen \in [Levels -> Nat] /\ total = Sum(seen) /\ \A l \in Levels : seen[l] <= log.count[l]

\* Every event that is behind the counters was checked or given up for a loss on record.
Accounted(log, seen, done) ==
    \A l \in Levels \ {"EH"} : \A k \in 1..seen[l] :
        log.stored[l][k].number \in ToSet(done) \/ Announced(log, log.stored[l][k].number)

Undisturbed(log, seen, total, done) ==
    Kept(log) /\ Behind(log, seen, total) /\ Accounted(log, seen, done)

\* One counter and the total advance by the same.
LEMMA SumChanged ==
  ASSUME NEW f \in [Levels -> Nat], NEW l \in Levels, NEW d \in Nat
  PROVE  [f EXCEPT ![l] = @ + d] \in [Levels -> Nat] /\ Sum([f EXCEPT ![l] = @ + d]) = Sum(f) + d
<1> DEFINE g == [f EXCEPT ![l] = @ + d]
<1>1. g \in [Levels -> Nat] /\ g[l] = f[l] + d /\ \A k \in Levels : k # l => g[k] = f[k]
  OBVIOUS
<1>2. l \in Names
  BY LevelsFacts
<1> HIDE DEF g
<1>3. /\ \A k : OfLevel(f, k) \in Nat
      /\ OfLevel(g, l) = OfLevel(f, l) + d /\ \A k : k # l => OfLevel(g, k) = OfLevel(f, k)
  BY <1>1 DEF OfLevel
<1>4. Sum(g) = Sum(f) + d
  BY <1>2, <1>3 DEF Sum, Names
<1> QED BY <1>1, <1>4 DEF g

\* The total difference is the sum of the differences.
LEMMA SumOfDifferences ==
  ASSUME NEW f \in [Levels -> Nat], NEW g \in [Levels -> Nat], \A l \in Levels : g[l] <= f[l],
         NEW d, d = [l \in Levels |-> f[l] - g[l]]
  PROVE  Sum(g) <= Sum(f) /\ Sum(f) - Sum(g) = Sum(d)
<1>1. \A k : /\ OfLevel(f, k) \in Nat /\ OfLevel(g, k) \in Nat /\ OfLevel(g, k) <= OfLevel(f, k)
             /\ OfLevel(d, k) = OfLevel(f, k) - OfLevel(g, k)
  <2> SUFFICES ASSUME NEW k
               PROVE  /\ OfLevel(f, k) \in Nat /\ OfLevel(g, k) \in Nat /\ OfLevel(g, k) <= OfLevel(f, k)
                      /\ OfLevel(d, k) = OfLevel(f, k) - OfLevel(g, k)
    OBVIOUS
  <2>1. CASE k \in Levels
    BY <2>1 DEF OfLevel
  <2>2. CASE k \notin Levels
    BY <2>2 DEF OfLevel
  <2> QED BY <2>1, <2>2
<1> QED BY <1>1 DEF Sum

\* A loss that stays on record.
LEMMA StaysAnnounced ==
  ASSUME NEW log, LogInv(log), NEW new, Records(new, log), NEW n, Announced(log, n)
  PROVE  Announced(new, n)
<1>1. "HIGH" \in Levels
  BY LevelsFacts
<1>2. PICK k \in 1..Len(log.stored["HIGH"]) :
         IsLoss(log.stored["HIGH"][k]) /\ log.stored["HIGH"][k].number > n
  BY DEF Announced
<1>3. Continues(new.stored["HIGH"], log.stored["HIGH"]) /\ Len(new.stored["HIGH"]) \in Nat
  BY <1>1, LogInvFacts DEF Records, Grown
<1>4. k \in 1..Len(new.stored["HIGH"]) /\ new.stored["HIGH"][k] = log.stored["HIGH"][k]
  BY <1>2, <1>3 DEF Continues
<1> QED BY <1>2, <1>4 DEF Announced

\* Recording leaves the handler behind.
LEMMA RecordsUndisturbed ==
  ASSUME NEW log, LogInv(log), NEW new, Records(new, log), NEW seen, NEW total, NEW done,
         Undisturbed(log, seen, total, done)
  PROVE  Undisturbed(new, seen, total, done)
<1>1. Kept(log) /\ Behind(log, seen, total) /\ Accounted(log, seen, done) /\ Kept(new) /\ LogInv(new)
  BY DEF Undisturbed, Records
<1>2. \A l \in Levels : /\ log.count[l] \in Nat /\ new.count[l] \in Nat /\ log.count[l] <= new.count[l]
                        /\ seen[l] \in Nat /\ seen[l] <= log.count[l]
                        /\ log.count[l] = Len(log.stored[l])
                        /\ Continues(new.stored[l], log.stored[l])
  BY <1>1, LogInvFacts DEF Records, Grown, Behind, Kept
<1>3. Behind(new, seen, total)
  <2>1. \A l \in Levels : seen[l] <= new.count[l]
    BY <1>2
  <2> QED BY <1>1, <2>1 DEF Behind
<1>4. Accounted(new, seen, done)
  <2> SUFFICES ASSUME NEW l \in Levels \ {"EH"}, NEW k \in 1..seen[l]
               PROVE  new.stored[l][k].number \in ToSet(done) \/ Announced(new, new.stored[l][k].number)
    BY DEF Accounted
  <2>1. k \in 1..Len(log.stored[l])
    BY <1>2
  <2>2. new.stored[l][k] = log.stored[l][k]
    BY <1>2, <2>1 DEF Continues
  <2>3. log.stored[l][k].number \in ToSet(done) \/ Announced(log, log.stored[l][k].number)
    BY <1>1 DEF Accounted
  <2>4. Announced(log, log.stored[l][k].number) => Announced(new, log.stored[l][k].number)
    BY StaysAnnounced
  <2> QED BY <2>2, <2>3, <2>4
<1> QED BY <1>1, <1>3, <1>4 DEF Undisturbed

\* A loss that is recorded announces all events before it.
LEMMA LossAnnounces ==
  ASSUME NEW log, LogInv(log), Kept(log), NEW new, new = LossRecorded(log)
  PROVE  Records(new, log) /\ \A n \in Nat : n <= log.number => Announced(new, n)
<1> DEFINE e == Event(HandlerGroup, TooManyEvent, "HIGH", clock, log.number + 1)
           s == log.stored["HIGH"]
<1>1. "HIGH" \in Levels /\ HandlerGroup \in EventGroups
  BY LevelsFacts, HandlerAssumption
<1>2. log.number \in Nat /\ HandlerGroup \in log.enabled /\ CanStore(log, "HIGH")
  BY <1>1 DEF Kept, CanStore
<1>3. new = Recorded(log, HandlerGroup, TooManyEvent, "HIGH", clock)
  BY DEF LossRecorded, RecordError
<1>4. Records(new, log) /\ Put(new, log, e)
  BY <1>1, <1>2, <1>3, RecordedRecords
<1>5. e.level = "HIGH" /\ e.number = log.number + 1 /\ e.group = HandlerGroup /\ e.local = TooManyEvent
  BY <1>1, EventFacts
<1> HIDE DEF e
<1>6. Len(s) + 1 <= Len(new.stored["HIGH"]) /\ new.stored["HIGH"][Len(s) + 1] = e
  BY <1>4, <1>5 DEF Put
<1>7. Len(s) + 1 \in 1..Len(new.stored["HIGH"])
  <2>1. LogInv(new)
    BY <1>4 DEF Records
  <2>2. Len(s) \in Nat /\ Len(new.stored["HIGH"]) \in Nat
    BY <1>1, <2>1, LogInvFacts
  <2> QED BY <1>6, <2>2
<1>8. IsLoss(e)
  BY <1>5 DEF IsLoss, Kind
<1>9. \A n \in Nat : n <= log.number => e.number > n
  BY <1>2, <1>5
<1> QED BY <1>4, <1>6, <1>7, <1>8, <1>9 DEF Announced
-----------------------------------------------------------------------------
\* The event at the slot is the first that was not seen yet, or that one is announced as lost:
\* what was recorded meanwhile may have been written over it.
FoundOrLost(log, e, first) == e = first \/ Announced(log, first.number)
Found(log, seen, oldest) ==
    oldest # <<>> =>
        \E l \in Levels : \E slot \in Slots(l) :
            /\ oldest = <<l, slot>> /\ l # "EH"
            /\ seen[l] < log.count[l]
            /\ log.ring[l][slot].level = l
            /\ FoundOrLost(log, log.ring[l][slot], log.stored[l][seen[l] + 1])
Scans(s) ==
    ScanOK(s) /\ Undisturbed(s.log, s.seen, s.total, hist.done) /\ Found(s.log, s.seen, s.oldest)

\* The first event of a level that was not seen is still in the ring, or announced as lost.
Ready(s, level) ==
    /\ s.seen[level] < s.log.count[level]
    /\ \/ s.log.count[level] - s.seen[level] <= TLogCapacity[level]
       \/ Announced(s.log, s.log.stored[level][s.seen[level] + 1].number)

\* Events are given up for a loss that is recorded after them.
LEMMA GivenUpStep ==
  ASSUME NEW s, Scans(s), NEW level \in Levels, s.seen[level] < s.log.count[level]
  PROVE  Scans(GivenUp(s, level)) /\ Ready(GivenUp(s, level), level)
<1> DEFINE log == s.log
           seen == s.seen
           cap == TLogCapacity[level]
           delta == log.count[level] - seen[level]
           drop == delta - (cap \div 2)
           g == GivenUp(s, level)
<1>1. /\ DOMAIN s = ScanFields /\ LogInv(log) /\ Kept(log) /\ Behind(log, seen, s.total)
      /\ Accounted(log, seen, hist.done) /\ Found(log, seen, s.oldest)
  BY DEF Scans, ScanOK, Undisturbed
<1>2. cap \in Nat /\ cap > 1
  BY LevelsFacts
<1>3. cap \div 2 \in Nat /\ cap \div 2 >= 1 /\ cap \div 2 < cap
  BY <1>2
<1>4. \A l \in Levels : /\ log.count[l] \in Nat /\ seen[l] \in Nat /\ seen[l] <= log.count[l]
                        /\ log.count[l] = Len(log.stored[l])
  BY <1>1, LogInvFacts DEF Behind, Kept
<1>5. CASE delta <= cap
  <2>1. g = s
    BY <1>5 DEF GivenUp
  <2> HIDE DEF g
  <2> QED BY <1>5, <2>1 DEF Ready, g
<1>6. CASE ~(delta <= cap)
  <2> DEFINE lost == LossRecorded(log)
             seen2 == [seen EXCEPT ![level] = @ + drop]
  <2>1. /\ DOMAIN g = ScanFields /\ g.log = lost /\ g.seen = seen2 /\ g.total = s.total + drop
        /\ g.oldest = s.oldest
    <3> HIDE DEF lost
    <3>1. g = [s EXCEPT !.log = lost, !.seen[level] = @ + drop, !.total = @ + drop]
      BY <1>6 DEF GivenUp, lost
    <3> HIDE DEF g
    <3> QED BY <1>1, <3>1 DEF ScanFields
  <2>2. Records(lost, log) /\ \A n \in Nat : n <= log.number => Announced(lost, n)
    BY <1>1, LossAnnounces
  <2>3. drop \in Nat /\ seen[level] + drop < log.count[level]
    <3>1. delta \in Int /\ log.count[level] = seen[level] + delta /\ seen[level] \in Nat
      BY <1>4
    <3> HIDE DEF delta
    <3> QED BY <1>2, <1>3, <1>6, <3>1
  <2> HIDE DEF g, lost, drop, delta
  <2>4. Undisturbed(lost, seen, s.total, hist.done)
    BY <1>1, <2>2, RecordsUndisturbed DEF Undisturbed
  <2>5. seen2 \in [Levels -> Nat] /\ Sum(seen2) = Sum(seen) + drop
    BY <1>1, <2>3, SumChanged DEF Behind
  <2>6. /\ seen2[level] = seen[level] + drop
        /\ \A l \in Levels : l # level => seen2[l] = seen[l]
    BY <1>1 DEF Behind
  <2>7. LogInv(lost) /\ Kept(lost)
    BY <2>2, <2>4 DEF Records, Undisturbed
  <2>8. \A l \in Levels : lost.count[l] \in Nat /\ log.count[l] <= lost.count[l]
                          /\ Continues(lost.stored[l], log.stored[l])
    BY <2>2, <2>7, LogInvFacts DEF Records, Grown
  <2> HIDE DEF seen2
  <2>9. \A l \in Levels : /\ seen2[l] \in Nat /\ seen2[l] <= log.count[l] /\ seen2[l] <= lost.count[l]
                          /\ seen[l] < log.count[l] => seen2[l] < log.count[l]
    <3> SUFFICES ASSUME NEW l \in Levels
                 PROVE  /\ seen2[l] \in Nat /\ seen2[l] <= log.count[l] /\ seen2[l] <= lost.count[l]
                        /\ seen[l] < log.count[l] => seen2[l] < log.count[l]
      OBVIOUS
    <3>1. CASE l = level
      BY <3>1, <1>4, <2>3, <2>5, <2>6, <2>8
    <3>2. CASE l # level
      BY <3>2, <1>4, <2>6, <2>8
    <3> QED BY <3>1, <3>2
  <2>10. Behind(lost, seen2, s.total + drop)
    <3>1. s.total + drop = Sum(seen2)
      BY <1>1, <2>5 DEF Behind
    <3> QED BY <2>5, <2>9, <3>1 DEF Behind
  <2>11. ASSUME NEW l \in Levels, NEW k \in 1..log.count[l]
         PROVE  lost.stored[l][k] = log.stored[l][k] /\ Announced(lost, lost.stored[l][k].number)
    <3>1. k \in 1..Len(log.stored[l])
      BY <1>4
    <3>2. lost.stored[l][k] = log.stored[l][k]
      BY <2>8, <3>1 DEF Continues
    <3>3. log.stored[l][k].number \in Nat /\ log.stored[l][k].number <= log.number
      BY <1>1, <3>1 DEF Kept
    <3> QED BY <2>2, <3>2, <3>3
  <2>12. Accounted(lost, seen2, hist.done)
    <3> SUFFICES ASSUME NEW l \in Levels \ {"EH"}, NEW k \in 1..seen2[l]
                 PROVE  Announced(lost, lost.stored[l][k].number)
      BY DEF Accounted
    <3>1. k \in 1..log.count[l]
      BY <1>4, <2>9
    <3> QED BY <2>11, <3>1
  <2>13. ASSUME NEW l \in Levels, seen[l] < log.count[l]
         PROVE  /\ seen2[l] < lost.count[l]
                /\ Announced(lost, lost.stored[l][seen2[l] + 1].number)
    <3>1. seen2[l] < log.count[l] /\ seen2[l] + 1 \in 1..log.count[l] /\ seen2[l] < lost.count[l]
      BY <1>4, <2>8, <2>9, <2>13
    <3> QED BY <2>11, <3>1
  <2>14. Found(lost, seen2, s.oldest)
    <3> SUFFICES ASSUME s.oldest # <<>>
                 PROVE  \E l \in Levels : \E slot \in Slots(l) :
                            /\ s.oldest = <<l, slot>> /\ l # "EH"
                            /\ seen2[l] < lost.count[l]
                            /\ lost.ring[l][slot].level = l
                            /\ FoundOrLost(lost, lost.ring[l][slot], lost.stored[l][seen2[l] + 1])
      BY DEF Found
    <3>0. PICK l \in Levels : \E slot \in Slots(l) :
             /\ s.oldest = <<l, slot>> /\ l # "EH" /\ seen[l] < log.count[l]
             /\ log.ring[l][slot].level = l
      BY <1>1 DEF Found
    <3>1. PICK slot \in Slots(l) :
             /\ s.oldest = <<l, slot>> /\ l # "EH" /\ seen[l] < log.count[l]
             /\ log.ring[l][slot].level = l
      BY <3>0
    <3>2. lost.ring[l][slot].level = l
      BY <2>2, <3>1 DEF Records, Grown
    <3>3. seen2[l] < lost.count[l] /\ Announced(lost, lost.stored[l][seen2[l] + 1].number)
      BY <2>13, <3>1
    <3> QED BY <3>1, <3>2, <3>3 DEF FoundOrLost
  <2>15. Scans(g)
    BY <2>1, <2>7, <2>10, <2>12, <2>14 DEF Scans, ScanOK, Undisturbed
  <2>16. Ready(g, level)
    BY <2>1, <2>13 DEF Ready
  <2> QED BY <2>15, <2>16 DEF g
<1> QED BY <1>5, <1>6

\* Every slot of a ring has an event of its level, once as many were stored.
LEMMA RingIsFull ==
  ASSUME NEW log, LogInv(log), Kept(log), NEW level \in Levels,
         TLogCapacity[level] <= Len(log.stored[level]), NEW i \in Slots(level)
  PROVE  log.ring[level][i].level = level
<1> DEFINE c == TLogCapacity[level]
           w == log.wp[level]
           n == IF i < w THEN w - 1 - i ELSE w - 1 - i + c
           s == log.stored[level]
<1>1. c \in Nat \ {0} /\ w \in 0..(c - 1) /\ i \in 0..(c - 1) /\ Len(s) \in Nat
  BY LevelsFacts, LogInvFacts DEF Slots
<1>2. RingHolds(log.ring[level], w, s, c)
  BY LogInvFacts DEF TlogOK
<1> HIDE DEF c, w, s
<1>3. n \in 0..(c - 1)
  BY <1>1
<1>4. (w - 1 - n + c) % c = IF n < w THEN w - 1 - n ELSE (w - 1 - n) + c
  <2> HIDE DEF n
  <2> QED BY <1>1, <1>3, SlotIs
<1>5. (IF n < w THEN w - 1 - n ELSE (w - 1 - n) + c) = i
  BY <1>1
<1> HIDE DEF n
<1>6. c <= Len(s)
  BY DEF c, s
<1>7. n < Len(s) /\ Len(s) - n \in 1..Len(s)
  BY <1>1, <1>3, <1>6
<1>8. log.ring[level][i] = s[Len(s) - n]
  BY <1>2, <1>3, <1>4, <1>5, <1>7 DEF RingHolds
<1>9. s[Len(s) - n].level = level
  BY <1>7 DEF Kept, s
<1> QED BY <1>8, <1>9

\* The oldest event that was found so far is one that the counters come to next.
LEMMA WithOldestStep ==
  ASSUME NEW s, Scans(s), NEW level \in Levels, level # "EH", Ready(s, level)
  PROVE  Scans(WithOldestOf(s, level))
<1> DEFINE log == s.log
           seen == s.seen
           cap == TLogCapacity[level]
           d == log.count[level] - seen[level] - 1
           slot == OldestSlot(log, seen, level)
           with == WithOldestOf(s, level)
           t == log.stored[level]
<1>1. /\ DOMAIN s = ScanFields /\ LogInv(log) /\ Kept(log) /\ Undisturbed(log, seen, s.total, hist.done)
      /\ seen[level] \in Nat /\ log.count[level] \in Nat /\ log.count[level] = Len(t)
      /\ seen[level] < log.count[level]
  BY LogInvFacts DEF Scans, ScanOK, Undisturbed, Behind, Kept, Ready
<1>2. cap \in Nat \ {0} /\ d \in Nat
  BY <1>1, LevelsFacts
<1>3. slot = IF d >= cap THEN 0 ELSE (log.wp[level] - 1 - d + cap) % cap
  BY DEF OldestSlot, SlotFromLatest
<1>4. CASE d >= cap
  <2>1. slot \in Slots(level)
    BY <1>2, <1>3, <1>4 DEF Slots
  <2>2. cap <= Len(t)
    BY <1>1, <1>2, <1>4
  <2>3. log.ring[level][slot].level = level
    <3> HIDE DEF slot
    <3> QED BY <1>1, <2>1, <2>2, RingIsFull
  <2>4. Announced(log, t[seen[level] + 1].number)
    <3>1. ~(log.count[level] - seen[level] <= cap)
      BY <1>1, <1>2, <1>4
    <3> QED BY <3>1 DEF Ready
  <2> QED
    <3>1. Found(log, seen, <<level, slot>>)
      <4> HIDE DEF slot
      <4> QED BY <1>1, <2>1, <2>3, <2>4 DEF Found, FoundOrLost
    <3>2. \/ with = s
          \/ /\ DOMAIN with = ScanFields /\ with.log = log /\ with.seen = seen /\ with.total = s.total
             /\ with.oldest = <<level, slot>>
      <4> HIDE DEF slot
      <4> QED BY <1>1 DEF WithOldestOf, ScanFields, slot
    <3> HIDE DEF with
    <3>3. Scans(with)
      BY <1>1, <3>1, <3>2 DEF Scans, ScanOK
    <3> QED BY <3>3 DEF with
<1>5. CASE ~(d >= cap)
  <2>1. d \in 0..(cap - 1) /\ log.wp[level] \in 0..(cap - 1)
    BY <1>1, <1>2, <1>5, LogInvFacts DEF Slots
  <2>2. slot \in Slots(level)
    <3> HIDE DEF d
    <3>1. slot = IF d < log.wp[level] THEN log.wp[level] - 1 - d ELSE (log.wp[level] - 1 - d) + cap
      BY <1>2, <1>3, <1>5, <2>1, SlotIs
    <3> HIDE DEF slot
    <3> QED BY <1>2, <2>1, <3>1 DEF Slots
  <2>3. log.ring[level][slot] = t[Len(t) - d]
    <3>1. RingHolds(log.ring[level], log.wp[level], t, cap)
      BY <1>1, LogInvFacts DEF TlogOK
    <3>2. d < Len(t)
      BY <1>1
    <3> HIDE DEF d
    <3> QED BY <1>3, <1>5, <2>1, <3>1, <3>2 DEF RingHolds
  <2>4. Len(t) - d = seen[level] + 1 /\ seen[level] + 1 \in 1..Len(t)
    <3> DEFINE n == seen[level]
               m == log.count[level]
    <3>1. n \in Nat /\ m \in Nat /\ m = Len(t) /\ n < m /\ d = m - n - 1
      BY <1>1
    <3> HIDE DEF n, m, t, d
    <3>2. Len(t) - d = n + 1 /\ n + 1 \in 1..Len(t)
      BY <3>1
    <3> QED BY <3>2 DEF n
  <2>5. log.ring[level][slot] = t[seen[level] + 1] /\ log.ring[level][slot].level = level
    <3>1. log.ring[level][slot] = t[seen[level] + 1]
      <4> HIDE DEF d, slot, t
      <4> QED BY <2>3, <2>4
    <3>2. t[seen[level] + 1].level = level
      BY <1>1, <2>4 DEF Kept
    <3> HIDE DEF slot, t
    <3> QED BY <3>1, <3>2
  <2> QED
    <3>1. Found(log, seen, <<level, slot>>)
      <4> HIDE DEF slot
      <4> QED BY <1>1, <2>2, <2>5 DEF Found, FoundOrLost
    <3>2. \/ with = s
          \/ /\ DOMAIN with = ScanFields /\ with.log = log /\ with.seen = seen /\ with.total = s.total
             /\ with.oldest = <<level, slot>>
      <4> HIDE DEF slot
      <4> QED BY <1>1 DEF WithOldestOf, ScanFields, slot
    <3> HIDE DEF with
    <3>3. Scans(with)
      BY <1>1, <3>1, <3>2 DEF Scans, ScanOK
    <3> QED BY <3>3 DEF with
<1> QED BY <1>4, <1>5

\* One level.
LEMMA ScannedScans ==
  ASSUME NEW s, Scans(s), NEW level
  PROVE  Scans(Scanned(s, level))
<1>1. CASE level \notin CheckedLevels \/ s.log.count[level] <= s.seen[level]
  BY <1>1 DEF Scanned
<1>2. CASE level \in CheckedLevels /\ ~(s.log.count[level] <= s.seen[level])
  <2>1. level \in Levels /\ level # "EH"
    BY <1>2 DEF CheckedLevels
  <2>2. s.seen[level] < s.log.count[level]
    <3>1. s.seen[level] \in Nat /\ s.log.count[level] \in Nat
      BY <2>1, LogInvFacts DEF Scans, ScanOK, Undisturbed, Behind
    <3> QED BY <1>2, <3>1
  <2> DEFINE g == GivenUp(s, level)
  <2>3. Scans(g) /\ Ready(g, level)
    BY <2>1, <2>2, GivenUpStep
  <2> HIDE DEF g
  <2>4. Scans(WithOldestOf(g, level))
    BY <2>1, <2>3, WithOldestStep
  <2> QED BY <1>2, <2>4 DEF Scanned, g
<1> QED BY <1>1, <1>2

\* All levels.
LEMMA ScanScans ==
  ASSUME LogInv(el), Undisturbed(el, eh.seen, eh.total, hist.done)
  PROVE  Scans(Scan)
<1> DEFINE s1 == Scanned(ScanStart, "HIGH")
           s2 == Scanned(s1, "MIDDLE")
           s3 == Scanned(s2, "LOW")
           s4 == Scanned(s3, "EL")
           s5 == Scanned(s4, "EH")
<1>1. Scans(ScanStart)
  <2>1. /\ DOMAIN ScanStart = ScanFields /\ ScanStart.log = el /\ ScanStart.seen = eh.seen
        /\ ScanStart.total = eh.total /\ ScanStart.oldest = <<>>
    BY DEF ScanStart, ScanFields
  <2> QED BY <2>1 DEF Scans, ScanOK, Found
<1>2. Scan = s5
  BY ScanIsFiveSteps
<1>3. Scans(s1)
  BY <1>1, ScannedScans
<1> HIDE DEF s1
<1>4. Scans(s2)
  BY <1>3, ScannedScans
<1> HIDE DEF s2
<1>5. Scans(s3)
  BY <1>4, ScannedScans
<1> HIDE DEF s3
<1>6. Scans(s4)
  BY <1>5, ScannedScans
<1> HIDE DEF s4
<1>7. Scans(s5)
  BY <1>6, ScannedScans
<1> QED BY <1>2, <1>7
-----------------------------------------------------------------------------
\* The fields of the handler, and the invariant of what it has seen.
EhFields == {"seen", "total", "maxResponse", "maxCheck", "logWp", "enabled"}
HistoryFields == {"done", "answers", "responses", "activations", "missed", "recounted", "disturbed"}
SeenInv ==
    /\ LogInv(el) /\ DOMAIN eh = EhFields /\ DOMAIN hist = HistoryFields /\ IsSequence(hist.done)
    /\ ~hist.disturbed => Undisturbed(el, eh.seen, eh.total, hist.done)

\* What the handler has seen of the logs is as before, and more was recorded.
LEMMA SeenKept ==
  ASSUME SeenInv, Records(el', el) \/ el' = el, DOMAIN eh' = EhFields, DOMAIN hist' = HistoryFields,
         eh'.seen = eh.seen, eh'.total = eh.total, hist'.done = hist.done,
         hist'.disturbed = hist.disturbed
  PROVE  SeenInv'
<1>1. LogInv(el) /\ el.number \in Nat
  BY DEF SeenInv, LogInv, CountersOK
<1>2. Records(el', el)
  BY <1>1, RecordsNothing
<1>3. LogInv(el')
  BY <1>2 DEF Records
<1>4. ASSUME ~hist'.disturbed PROVE Undisturbed(el', eh'.seen, eh'.total, hist'.done)
  <2>1. Undisturbed(el, eh.seen, eh.total, hist.done)
    BY <1>4 DEF SeenInv
  <2>2. Undisturbed(el', eh.seen, eh.total, hist.done)
    BY <1>1, <1>2, <2>1, RecordsUndisturbed
  <2> QED BY <2>2
<1> QED BY <1>3, <1>4 DEF SeenInv

\* What was disturbed says nothing any more.
LEMMA SeenDisturbed ==
  ASSUME SeenInv, LogInv(el'), DOMAIN eh' = EhFields, DOMAIN hist' = HistoryFields,
         hist'.done = hist.done, hist'.disturbed = TRUE
  PROVE  SeenInv'
BY DEF SeenInv

\* The event that is checked next is accounted for.
LEMMA AccountedNext ==
  ASSUME NEW log, LogInv(log), NEW seen, NEW total, NEW done, Undisturbed(log, seen, total, done),
         NEW l \in Levels, seen[l] < log.count[l], NEW e, FoundOrLost(log, e, log.stored[l][seen[l] + 1]),
         NEW new, \A n : n \in ToSet(done) => n \in ToSet(new), e.number \in ToSet(new)
  PROVE  Undisturbed(log, [seen EXCEPT ![l] = @ + 1], total + 1, new)
<1> DEFINE seen2 == [seen EXCEPT ![l] = @ + 1]
<1>1. /\ Kept(log) /\ seen \in [Levels -> Nat] /\ total = Sum(seen) /\ Accounted(log, seen, done)
      /\ \A k \in Levels : seen[k] <= log.count[k] /\ log.count[k] \in Nat /\ seen[k] \in Nat
  BY LogInvFacts DEF Undisturbed, Behind
<1>2. seen2 \in [Levels -> Nat] /\ Sum(seen2) = Sum(seen) + 1
  BY <1>1, SumOneMore
<1>3. seen2[l] = seen[l] + 1 /\ \A k \in Levels : k # l => seen2[k] = seen[k]
  BY <1>1
<1> HIDE DEF seen2
<1>4. Behind(log, seen2, total + 1)
  <2>1. \A k \in Levels : seen2[k] <= log.count[k]
    <3> SUFFICES ASSUME NEW k \in Levels PROVE seen2[k] <= log.count[k]
      OBVIOUS
    <3>1. CASE k = l
      BY <1>1, <1>3, <3>1
    <3>2. CASE k # l
      BY <1>1, <1>3, <3>2
    <3> QED BY <3>1, <3>2
  <2>2. total + 1 = Sum(seen2)
    BY <1>1, <1>2
  <2> QED BY <1>2, <2>1, <2>2 DEF Behind
<1>5. Accounted(log, seen2, new)
  <2> SUFFICES ASSUME NEW k \in Levels \ {"EH"}, NEW i \in 1..seen2[k]
               PROVE  log.stored[k][i].number \in ToSet(new) \/ Announced(log, log.stored[k][i].number)
    BY DEF Accounted
  <2>1. CASE i \in 1..seen[k]
    BY <1>1, <2>1 DEF Accounted
  <2>2. CASE i \notin 1..seen[k]
    <3>1. k = l /\ i = seen[l] + 1
      BY <1>1, <1>3, <2>2
    <3> QED BY <3>1 DEF FoundOrLost
  <2> QED BY <2>1, <2>2
<1> QED BY <1>1, <1>4, <1>5 DEF Undisturbed, seen2

\* EH_get_oldest_event_excluding_eh_error_level_ advances the counters past the event that it found.
LEMMA NextEventSees ==
  ASSUME SeenInv, NextEvent
  PROVE  SeenInv'
<1> DEFINE found == Scan
           event == found.log.ring[found.oldest[1]][found.oldest[2]]
           seen2 == [found.seen EXCEPT ![event.level] = @ + 1]
           done2 == Append(hist.done, event.number)
<1>1. /\ found.oldest # <<>> /\ el' = found.log
      /\ eh' = [eh EXCEPT !.seen = seen2, !.total = found.total + 1]
      /\ hist' = [hist EXCEPT !.done = Append(@, event.number), !.answers = {}]
  BY DEF NextEvent
<1>2. LogInv(found.log)
  BY ScanStep DEF SeenInv
<1> HIDE DEF found, seen2
<1>3. /\ DOMAIN eh' = EhFields /\ eh'.seen = seen2 /\ eh'.total = found.total + 1
      /\ DOMAIN hist' = HistoryFields /\ hist'.done = done2 /\ hist'.disturbed = hist.disturbed
  <2> HIDE DEF event
  <2> QED BY <1>1 DEF SeenInv, EhFields, HistoryFields
<1>4. /\ IsSequence(done2) /\ \A n : n \in ToSet(hist.done) => n \in ToSet(done2)
      /\ event.number \in ToSet(done2)
  <2>1. IsSequence(hist.done)
    BY DEF SeenInv
  <2> DEFINE s == hist.done
             n == event.number
  <2> HIDE DEF s, n
  <2>2. IsSequence(Append(s, n)) /\ Follows(Append(s, n), s, n)
    BY <2>1, Appended, NewerAfter DEF s
  <2>3. ToSet(Append(s, n)) = ToSet(s) \cup {n}
    BY <2>2 DEF Follows
  <2> QED BY <2>2, <2>3 DEF s, n
<1>5. ASSUME ~hist'.disturbed PROVE Undisturbed(el', eh'.seen, eh'.total, hist'.done)
  <2>1. LogInv(el) /\ Undisturbed(el, eh.seen, eh.total, hist.done)
    BY <1>3, <1>5 DEF SeenInv
  <2>2. Scans(found)
    BY <2>1, ScanScans DEF found
  <2>3. Undisturbed(found.log, found.seen, found.total, hist.done)
    BY <2>2 DEF Scans
  <2> HIDE DEF event, done2
  <2>4. PICK l \in Levels : \E slot \in Slots(l) :
            /\ found.oldest = <<l, slot>> /\ found.seen[l] < found.log.count[l]
            /\ found.log.ring[l][slot].level = l
            /\ FoundOrLost(found.log, found.log.ring[l][slot], found.log.stored[l][found.seen[l] + 1])
    BY <1>1, <2>2 DEF Scans, Found
  <2>5. /\ found.seen[l] < found.log.count[l] /\ event.level = l
        /\ FoundOrLost(found.log, event, found.log.stored[l][found.seen[l] + 1])
    BY <2>4 DEF event
  <2>6. Undisturbed(found.log, [found.seen EXCEPT ![l] = @ + 1], found.total + 1, done2)
    BY <1>2, <1>4, <2>3, <2>5, AccountedNext
  <2>7. seen2 = [found.seen EXCEPT ![l] = @ + 1]
    BY <2>5 DEF seen2
  <2> QED BY <1>1, <1>3, <2>6, <2>7
<1> QED BY <1>1, <1>2, <1>3, <1>4, <1>5 DEF SeenInv

\* Going to a rule above advances the counters past the event of the match.
LEMMA HigherIsAskedSees ==
  ASSUME SeenInv, HigherIsAsked
  PROVE  SeenInv'
<1> DEFINE d == Delta("EH")
           seen2 == [eh.seen EXCEPT !["EH"] = @ + d]
<1>1. /\ el' = el /\ hist' = hist
      /\ DOMAIN eh' = EhFields /\ eh'.seen = seen2 /\ eh'.total = eh.total + d
  <2>1. eh' = [eh EXCEPT !.seen["EH"] = @ + d, !.total = @ + d] /\ el' = el /\ hist' = hist
    BY DEF HigherIsAsked
  <2> HIDE DEF d
  <2> QED BY <2>1 DEF SeenInv, EhFields
<1>2. ASSUME ~hist.disturbed PROVE Undisturbed(el, seen2, eh.total + d, hist.done)
  <2>1. LogInv(el) /\ Kept(el) /\ Behind(el, eh.seen, eh.total) /\ Accounted(el, eh.seen, hist.done)
    BY <1>2 DEF SeenInv, Undisturbed
  <2>2. /\ "EH" \in Levels
        /\ \A k \in Levels : eh.seen[k] <= el.count[k] /\ el.count[k] \in Nat /\ eh.seen[k] \in Nat
    BY <2>1, LogInvFacts, LevelsFacts DEF Behind
  <2>3. d \in Nat /\ eh.seen["EH"] + d = el.count["EH"]
    BY <2>2 DEF Delta
  <2> HIDE DEF d
  <2>4. seen2 \in [Levels -> Nat] /\ Sum(seen2) = Sum(eh.seen) + d
    BY <2>1, <2>2, <2>3, SumChanged DEF Behind
  <2>5. seen2["EH"] = el.count["EH"] /\ \A k \in Levels : k # "EH" => seen2[k] = eh.seen[k]
    BY <2>1, <2>2, <2>3 DEF Behind
  <2> HIDE DEF seen2
  <2>6. Behind(el, seen2, eh.total + d)
    <3>1. \A k \in Levels : seen2[k] <= el.count[k]
      BY <2>2, <2>5
    <3>2. eh.total + d = Sum(seen2)
      BY <2>1, <2>4 DEF Behind
    <3> QED BY <2>4, <3>1, <3>2 DEF Behind
  <2>7. Accounted(el, seen2, hist.done)
    BY <2>1, <2>5 DEF Accounted
  <2> QED BY <2>1, <2>6, <2>7 DEF Undisturbed
<1> HIDE DEF seen2, d
<1> QED BY <1>1, <1>2 DEF SeenInv

\* An event is recorded, and the counters of the handler stay.
LEMMA RecordedSees ==
  ASSUME SeenInv, NEW group, NEW local, NEW level \in Levels, NEW time,
         el' = Recorded(el, group, local, level, time),
         DOMAIN eh' = EhFields, DOMAIN hist' = HistoryFields,
         eh'.seen = eh.seen, eh'.total = eh.total, hist'.done = hist.done,
         hist'.disturbed = hist.disturbed
  PROVE  SeenInv'
<1>1. LogInv(el) /\ el.number \in Nat
  BY DEF SeenInv, LogInv, CountersOK
<1>2. Records(el', el)
  BY <1>1, RecordedRecords
<1> QED BY <1>2, SeenKept

\* What SeenInv is about, as the steps of the handler leave it.
HistKept == DOMAIN hist' = HistoryFields /\ hist'.done = hist.done /\ hist'.disturbed = hist.disturbed
EhKept == DOMAIN eh' = EhFields /\ eh'.seen = eh.seen /\ eh'.total = eh.total

\* Which assignments leave these fields alone.
LEMMA FieldsKept ==
  ASSUME SeenInv
  PROVE  /\ UNCHANGED hist => HistKept
         /\ UNCHANGED eh => EhKept
         /\ hist' = [hist EXCEPT !.missed = TRUE] => HistKept
         /\ hist' = [hist EXCEPT !.missed = @ \/ ~active[Rule]] => HistKept
         /\ hist' = [hist EXCEPT !.recounted = TRUE] => HistKept
         /\ hist' = [hist EXCEPT !.activations = ActivationsSeen, !.recounted = TRUE] => HistKept
         /\ \A x : hist' = [hist EXCEPT !.activations = ActivationsSeen, !.recounted = x] => HistKept
         /\ \A x, y : hist' = [hist EXCEPT !.answers = x, !.responses = y] => HistKept
         /\ \A x : eh' = [eh EXCEPT !.logWp = x] => EhKept
         /\ \A x : eh' = [eh EXCEPT !.maxResponse = x] => EhKept
         /\ \A x : eh' = [eh EXCEPT !.maxCheck = x] => EhKept
         /\ \A x : eh' = [eh EXCEPT !.enabled = x] => EhKept
<1>1. DOMAIN eh = EhFields /\ DOMAIN hist = HistoryFields
  BY DEF SeenInv
<1>2. /\ \A x : hist' = [hist EXCEPT !.missed = x] => HistKept
      /\ \A x : hist' = [hist EXCEPT !.recounted = x] => HistKept
      /\ \A x, y : hist' = [hist EXCEPT !.activations = y, !.recounted = x] => HistKept
      /\ \A x, y : hist' = [hist EXCEPT !.answers = x, !.responses = y] => HistKept
      /\ UNCHANGED hist => HistKept
  BY <1>1 DEF HistKept, HistoryFields
<1>3. /\ \A x : eh' = [eh EXCEPT !.logWp = x] => EhKept
      /\ \A x : eh' = [eh EXCEPT !.maxResponse = x] => EhKept
      /\ \A x : eh' = [eh EXCEPT !.maxCheck = x] => EhKept
      /\ \A x : eh' = [eh EXCEPT !.enabled = x] => EhKept
      /\ UNCHANGED eh => EhKept
  BY <1>1 DEF EhKept, EhFields
<1> QED BY <1>2, <1>3

\* Nothing is recorded.
LEMMA NothingSeen ==
  ASSUME SeenInv, el' = el, EhKept, HistKept
  PROVE  SeenInv'
BY SeenKept DEF EhKept, HistKept

\* A response records what it could not do.
LEMMA RespondRecords ==
  ASSUME LogInv(el), NEW outcome, Respond(outcome)
  PROVE  Records(el', el)
<1> DEFINE log == DeployRecorded(el, outcome)
<1>1. el.number \in Nat /\ "HIGH" \in Levels /\ "LOW" \in Levels
  BY LevelsFacts DEF LogInv, CountersOK
<1>2. Records(log, el)
  <2>1. Records(el, el)
    BY <1>1, RecordsNothing
  <2>2. \A level \in Levels : Records(RecordError(el, FailToRespond, level), el)
    BY <1>1, RecordedRecords DEF RecordError
  <2> QED BY <1>1, <2>1, <2>2 DEF DeployRecorded
<1>3. el' = log \/ el' = RecordError(log, LogTableFull, "HIGH")
  BY DEF Respond
<1> HIDE DEF log
<1>4. LogInv(log) /\ log.number \in Nat
  BY <1>2 DEF Records, Grown
<1>5. Records(RecordError(log, LogTableFull, "HIGH"), log)
  BY <1>1, <1>4, RecordedRecords DEF RecordError
<1>6. Records(RecordError(log, LogTableFull, "HIGH"), el)
  BY <1>1, <1>2, <1>5, RecordsMore
<1> QED BY <1>2, <1>3, <1>6

\* What the handler has seen stays.
LEMMA RespondSees ==
  ASSUME SeenInv, NEW outcome, Respond(outcome)
  PROVE  SeenInv'
<1>1. EhKept /\ HistKept
  <2>1. eh' = [eh EXCEPT !.logWp = (eh.logWp + 1) % LogMax]
    BY DEF Respond
  <2>2. \E x, y : hist' = [hist EXCEPT !.answers = x, !.responses = y]
    BY DEF Respond
  <2> QED BY <2>1, <2>2, FieldsKept
<1>2. Records(el', el)
  BY RespondRecords DEF SeenInv
<1> QED BY <1>1, <1>2, SeenKept DEF EhKept, HistKept

\* Every step of the handler.
LEMMA HandlerStepSees ==
  ASSUME SeenInv, HandlerStep
  PROVE  SeenInv'
<1>1. "HIGH" \in Levels /\ "EH" \in Levels
  BY LevelsFacts
<1>2. CASE Execute \/ ExecuteEnds \/ RuleIsSkipped \/ RuleCounts \/ ReturnToRespond \/ ReturnToExecute
  <2>1. el' = el /\ EhKept /\ HistKept
    BY <1>2, FieldsKept
       DEF Execute, ExecuteEnds, RuleIsSkipped, RuleCounts, ReturnToRespond, ReturnToExecute
  <2> QED BY <2>1, NothingSeen
<1>3. CASE ExecuteDisagrees
  <2>1. LogInv(el')
    BY <1>1, <1>3, RecordedStep DEF ExecuteDisagrees, RecordError, SeenInv
  <2>2. DOMAIN eh' = EhFields
    BY <1>3 DEF ExecuteDisagrees, Matched, SeenInv
  <2>3. DOMAIN hist' = HistoryFields /\ hist'.done = hist.done /\ hist'.disturbed = TRUE
    BY <1>3 DEF ExecuteDisagrees, SeenInv, HistoryFields
  <2> QED BY <2>1, <2>2, <2>3, SeenDisturbed
<1>4. CASE RuleIsStrange \/ HigherIsRefused
  <2>1. EhKept /\ HistKept
    BY <1>4, FieldsKept DEF RuleIsStrange, HigherIsRefused
  <2>2. \E local : el' = Recorded(el, HandlerGroup, local, "HIGH", clock)
    BY <1>4 DEF RuleIsStrange, HigherIsRefused, RecordError
  <2> QED BY <1>1, <2>1, <2>2, RecordedSees DEF EhKept, HistKept
<1>5. CASE RuleMatches \/ ReturnToLower
  <2>1. EhKept /\ HistKept
    BY <1>5, FieldsKept DEF RuleMatches, ReturnToLower
  <2>2. \E group, local : el' = Recorded(el, group, local, "EH", clock)
    BY <1>5 DEF RuleMatches, ReturnToLower
  <2> QED BY <1>1, <2>1, <2>2, RecordedSees DEF EhKept, HistKept
<1>6. CASE NextEvent
  BY <1>6, NextEventSees
<1>7. CASE HigherIsAsked
  BY <1>7, HigherIsAskedSees
<1>8. CASE \E outcome \in {"SUCCESS", "ADJUSTED", "FAILURE"} : Respond(outcome)
  BY <1>8, RespondSees
<1> QED BY <1>2, <1>3, <1>4, <1>5, <1>6, <1>7, <1>8 DEF HandlerStep

\* Every command.
LEMMA HandlerCommandSees ==
  ASSUME SeenInv, HandlerCommand(EventGroups, Levels)
  PROVE  SeenInv'
<1>1. DOMAIN eh = EhFields /\ DOMAIN hist = HistoryFields /\ LogInv(el)
  BY DEF SeenInv
<1>2. hist' = [hist EXCEPT !.disturbed = TRUE] =>
         DOMAIN hist' = HistoryFields /\ hist'.done = hist.done /\ hist'.disturbed = TRUE
  BY <1>1 DEF HistoryFields
<1>3. \A log : eh' = Matched(log) => DOMAIN eh' = EhFields
  BY <1>1 DEF Matched
<1>4. CASE ClearCounters \/ CommandLogger(EventGroups, Levels)
  <2>1. LoggerCommand(EventGroups, Levels) /\ hist' = [hist EXCEPT !.disturbed = TRUE]
        /\ (eh' = Matched(el') \/ eh' = eh)
    BY <1>4 DEF ClearCounters, CommandLogger, LoggerCommand
  <2>2. LogInv(el')
    BY <1>1, <2>1, CommandLogStep
  <2>3. DOMAIN eh' = EhFields
    BY <1>1, <1>3, <2>1
  <2> QED BY <1>2, <2>1, <2>2, <2>3, SeenDisturbed
<1>5. CASE MatchCounters
  <2>1. el' = el /\ eh' = Matched(el) /\ hist' = [hist EXCEPT !.disturbed = TRUE]
    BY <1>5 DEF MatchCounters
  <2>2. LogInv(el')
    BY <1>1, <2>1
  <2> QED BY <1>2, <1>3, <2>1, <2>2, SeenDisturbed
<1>6. CASE ClearTable
  <2>1. el' = el /\ hist' = [hist EXCEPT !.recounted = TRUE, !.disturbed = TRUE]
        /\ (eh' = eh \/ eh' = [Matched(el) EXCEPT !.maxResponse = Largest(MaxResponses),
                                                  !.maxCheck = Largest(MaxChecks), !.logWp = 0])
    BY <1>6 DEF ClearTable
  <2>2. DOMAIN eh' = EhFields
    BY <1>1, <2>1 DEF Matched
  <2>3. DOMAIN hist' = HistoryFields /\ hist'.done = hist.done /\ hist'.disturbed = TRUE
    BY <1>1, <2>1 DEF HistoryFields
  <2>4. LogInv(el')
    BY <1>1, <2>1
  <2> QED BY <2>2, <2>3, <2>4, SeenDisturbed
<1>7. CASE Set
  <2>1. el' = el /\ EhKept /\ HistKept
    BY <1>7, FieldsKept DEF Set
  <2> QED BY <2>1, NothingSeen
<1>8. CASE \E op \in Ops, id \in RuleIds, multiLevel \in BOOLEAN : CommandRule(op, id, multiLevel)
  <2>1. el' = el /\ EhKept /\ HistKept
    BY <1>8, FieldsKept DEF CommandRule
  <2> QED BY <2>1, NothingSeen
<1>9. CASE \/ \E id \in RuleIds, n \in CounterValues : CommandCounter(id, n)
           \/ \E n \in MultiLevels : CommandMaxLevels(n)
  <2>1. el' = el /\ EhKept /\ HistKept
    BY <1>9, FieldsKept DEF CommandCounter, CommandMaxLevels
  <2> QED BY <2>1, NothingSeen
<1>10. CASE CommandTable
  <2>1. el' = el /\ EhKept /\ HistKept
    BY <1>10, FieldsKept DEF CommandTable
  <2> QED BY <2>1, NothingSeen
<1> QED BY <1>4, <1>5, <1>6, <1>7, <1>8, <1>9, <1>10 DEF HandlerCommand

\* At the start nothing was recorded and nothing seen.
LEMMA SeenInit == HandlerInit => SeenInv
<1> SUFFICES ASSUME HandlerInit PROVE SeenInv
  OBVIOUS
<1>1. el = Initialized /\ LogInv(el)
  BY HandlerLogInit DEF HandlerInit, HandlerStart, LoggerInit
<1>2. /\ DOMAIN eh = EhFields /\ DOMAIN hist = HistoryFields
      /\ eh.seen = el.count /\ eh.total = 0 /\ hist.done = <<>>
  BY DEF HandlerInit, HandlerStart, EhFields, HistoryFields
<1>3. /\ el.overwrite = [l \in Levels |-> TRUE] /\ el.count = [l \in Levels |-> 0]
      /\ el.stored = [l \in Levels |-> <<>>] /\ el.enabled = EventGroups /\ el.number = 0
  BY <1>1, InitializedFields
<1>4. Kept(el)
  <2>1. \A l \in Levels : el.overwrite[l] = TRUE /\ el.count[l] = 0 /\ Len(el.stored[l]) = 0
    BY <1>3, NoFrame
  <2> QED BY <1>3, <2>1 DEF Kept
<1>5. Behind(el, eh.seen, eh.total)
  BY <1>2, <1>3, SumOfNone DEF Behind
<1>6. Accounted(el, eh.seen, hist.done)
  BY <1>2, <1>3 DEF Accounted
<1> QED BY <1>1, <1>2, <1>4, <1>5, <1>6, NoFrame DEF SeenInv, Undisturbed

\* Every step of the handler and around it.
LEMMA SeenNext == SeenInv /\ [HandlerNext]_handlerVars => SeenInv'
<1> SUFFICES ASSUME SeenInv, [HandlerNext]_handlerVars PROVE SeenInv'
  OBVIOUS
<1>1. CASE HandlerStep
  BY <1>1, HandlerStepSees
<1>2. CASE HandlerCommand(EventGroups, Levels)
  BY <1>2, HandlerCommandSees
<1>3. CASE \E group \in EventGroups, local \in Locals, level \in Levels : RecordByUser(group, local, level)
  <2>1. PICK group \in EventGroups, local \in Locals, level \in Levels : RecordByUser(group, local, level)
    BY <1>3
  <2>2. el' = Recorded(el, group, local, level, clock) /\ UNCHANGED <<eh, hist>>
    BY <2>1 DEF RecordByUser, RecordEvent
  <2>3. EhKept /\ HistKept
    BY <2>2, FieldsKept
  <2> QED BY <2>2, <2>3, RecordedSees DEF EhKept, HistKept
<1>4. CASE ClockTick \/ UNCHANGED handlerVars
  <2>1. el' = el /\ UNCHANGED <<eh, hist>>
    BY <1>4 DEF ClockTick, Tick, handlerVars
  <2>2. EhKept /\ HistKept
    BY <2>1, FieldsKept
  <2> QED BY <2>1, <2>2, NothingSeen
<1> QED BY <1>1, <1>2, <1>3, <1>4 DEF HandlerNext

\* What the handler has seen of the logs is theirs, in all states.
THEOREM SeenInvariance == HandlerSpec => []SeenInv
<1>1. HandlerInit => SeenInv
  BY SeenInit
<1>2. SeenInv /\ [HandlerNext]_handlerVars => SeenInv'
  BY SeenNext
<1> QED BY <1>1, <1>2, PTL DEF HandlerSpec

\* What the invariant says of the counters.
LEMMA AgreementFromSeen ==
  ASSUME SeenInv
  PROVE  CountersAgree
<1> SUFFICES ASSUME ~hist.disturbed PROVE Disagreement = -1
  BY DEF CountersAgree
<1>1. /\ el.count \in [Levels -> Nat] /\ el.total = Sum(el.count)
      /\ eh.seen \in [Levels -> Nat] /\ eh.total = Sum(eh.seen)
      /\ \A l \in Levels : eh.seen[l] <= el.count[l]
  BY DEF SeenInv, LogInv, CountersOK, Undisturbed, Behind
<1> DEFINE d == [l \in Levels |-> el.count[l] - eh.seen[l]]
<1>2. Sum(eh.seen) <= Sum(el.count) /\ Sum(el.count) - Sum(eh.seen) = Sum(d)
  BY <1>1, SumOfDifferences
<1>3. Sum(eh.seen) \in Nat /\ Sum(el.count) \in Nat
  BY <1>1, SumIsNat
<1>4. d = [l \in Levels |-> Delta(l)]
  BY DEF Delta
<1>5. \A l \in Levels : ~(Delta(l) < 0)
  BY <1>1 DEF Delta
<1> HIDE DEF d
<1>6. ~(el.total < eh.total) /\ el.total - eh.total = Sum([l \in Levels |-> Delta(l)])
  BY <1>1, <1>2, <1>3, <1>4
<1> QED BY <1>5, <1>6 DEF Disagreement

\* What the invariant says of the events behind the counters.
LEMMA SkipsFromSeen ==
  ASSUME SeenInv
  PROVE  SkipsAreAnnounced
<1> SUFFICES ASSUME ~hist.disturbed, NEW l \in Levels \ {"EH"}, NEW e \in Had(l) \ Waits(l)
             PROVE  \/ e.number \in ToSet(hist.done)
                    \/ \E loss \in Had("HIGH") : IsLoss(loss) /\ loss.number > e.number
  BY DEF SkipsAreAnnounced
<1>1. /\ LogInv(el) /\ Accounted(el, eh.seen, hist.done)
      /\ el.count[l] = Len(el.stored[l]) /\ eh.seen[l] \in Nat /\ el.count[l] \in Nat
  BY LogInvFacts DEF SeenInv, Undisturbed, Kept, Behind
<1>2. PICK k \in 1..Len(el.stored[l]) : e = el.stored[l][k]
  BY DEF Had
<1>3. k \notin (Len(el.stored[l]) - Delta(l) + 1)..Len(el.stored[l])
  BY <1>2 DEF Waits
<1>4. k \in 1..eh.seen[l]
  <2>1. Len(el.stored[l]) - Delta(l) = eh.seen[l]
    BY <1>1 DEF Delta
  <2> QED BY <1>1, <1>2, <1>3, <2>1
<1>5. e.number \in ToSet(hist.done) \/ Announced(el, e.number)
  BY <1>1, <1>2, <1>4 DEF Accounted
<1> QED BY <1>5 DEF Announced, Had

\* While nobody disturbs them, the counters of the handler agree with those of the logger: all the
\* ways to advance them do, also where events are given up and where recording that records more.
THEOREM TheCountersAgree == HandlerSpec => []CountersAgree
<1>1. SeenInv => CountersAgree
  BY AgreementFromSeen
<1> QED BY <1>1, SeenInvariance, PTL

\* No event is passed over in silence: it was checked, or a loss was recorded after it, for all
\* sizes of the rings, also where the record of the loss is written over the event just found.
THEOREM NoSilentSkip == HandlerSpec => []SkipsAreAnnounced
<1>1. SeenInv => SkipsAreAnnounced
  BY SkipsFromSeen
<1> QED BY <1>1, SeenInvariance, PTL

(***************************************************************************)
(* What the logger records about its own losses.                           *)
(***************************************************************************)

-----------------------------------------------------------------------------
\* The kinds that are in CLog.
KindsOfLevel(log, l) == {Kind(log.logs[l][log.orders[l][i]].event) : i \in 1..CLogCapacity[l]}

\* The two events about a kind that was dropped, one directly behind the other.
PairAt(h, k, kind) ==
    /\ k \in 1..(Len(h) - 1)
    /\ h[k] = <<DropClog1, kind[1]>> /\ h[k + 1] = <<DropClog2, kind[2]>>
OnRecord(h, kind) == \E k : PairAt(h, k, kind)

DropsAnnounced(log) ==
    \A l \in Levels \ {"EL"} : \A i \in 1..Len(log.counted[l]) :
        log.counted[l][i] \notin KindsOfLevel(log, l) => OnRecord(log.counted["EL"], log.counted[l][i])
RoundsAnnounced(log) ==
    \A l \in DOMAIN FullLocal \cap Levels :
        Tally(log.counted["EL"], <<LoggerGroup, FullLocal[l]>>) = Len(log.stored[l]) \div TLogCapacity[l]
\* The write pointers are where the numbers of events say, and no kind is that of an unused log.
InStep(log) ==
    /\ log.enabled = EventGroups
    /\ \A l \in Levels \ {"EL"} : /\ log.wp[l] = Len(log.stored[l]) % TLogCapacity[l]
                                  /\ \A i \in 1..Len(log.counted[l]) : log.counted[l][i][1] # 0
Lossless(log) == InStep(log) /\ RoundsAnnounced(log) /\ DropsAnnounced(log)

\* The inductive invariant of what is on record.
LossInv(log) ==
    LogInv(log) /\ (log.complete /\ EnableClog /\ "EL" \in Levels => Lossless(log))

\* What an event of the logger itself leaves alone.
OnlyEL(new, log) ==
    /\ LogInv(new) /\ new.enabled = log.enabled /\ new.complete = log.complete
    /\ \A l \in Levels \ {"EL"} : /\ new.stored[l] = log.stored[l] /\ new.wp[l] = log.wp[l]
                                  /\ new.logs[l] = log.logs[l] /\ new.orders[l] = log.orders[l]
                                  /\ new.counted[l] = log.counted[l]

\* Where an event goes in TLog.
PutInTlog(new, log, e) ==
    /\ LogInv(new) /\ SameClog(new, log) /\ new.enabled = log.enabled /\ new.complete = log.complete
    /\ \A k \in Levels : k # e.level => new.stored[k] = log.stored[k] /\ new.wp[k] = log.wp[k]
    /\ IF CanStore(log, e.level)
       THEN /\ new.stored[e.level] = Append(log.stored[e.level], e)
            /\ new.wp[e.level] = (log.wp[e.level] + 1) % TLogCapacity[e.level]
       ELSE new.stored = log.stored /\ new.wp = log.wp

\* EL_record_event_to_tlog_
LEMMA TlogEffect ==
  ASSUME NEW log, LogInv(log), NEW e, e.level \in Levels, NEW new, new = RecordedToTlog(Counted(log, e), e)
  PROVE  PutInTlog(new, log, e)
<1> DEFINE cnt == Counted(log, e)
           l == e.level
<1>1. /\ IsLog(cnt) /\ SameTlog(cnt, log) /\ SameClog(cnt, log) /\ cnt.enabled = log.enabled
      /\ cnt.complete = log.complete
  <2>1. IsLog(log)
    BY LogInvFacts
  <2>2. cnt = Counted(log, e)
    OBVIOUS
  <2> HIDE DEF cnt
  <2> QED BY <2>1, <2>2 DEF Counted, IsLog, LogFields, SameTlog, SameClog
<1>2. LogInv(cnt) /\ LogInv(new)
  BY CountedStep, TlogStep
<1>3. new = RecordedToTlog(cnt, e)
  OBVIOUS
<1> HIDE DEF cnt
<1>4. CanStore(cnt, l) <=> CanStore(log, l)
  BY <1>1 DEF CanStore, SameTlog
<1>5. DOMAIN log.stored = Levels /\ DOMAIN log.wp = Levels
  BY LogInvFacts DEF TlogOK
<1>6. CASE CanStore(log, l)
  <2>1. InTlog(new, cnt, e)
    BY <1>1, <1>3, <1>4, <1>6, TlogFields
  <2>2. /\ SameClog(new, log) /\ new.enabled = log.enabled /\ new.complete = log.complete
        /\ new.wp = [log.wp EXCEPT ![l] = (log.wp[l] + 1) % TLogCapacity[l]]
        /\ new.stored = [log.stored EXCEPT ![l] = Append(@, e)]
    BY <1>1, <2>1 DEF InTlog, SameTlog, SameClog, SameCounters, NextSlot
  <2> QED BY <1>2, <1>5, <1>6, <2>2 DEF PutInTlog
<1>7. CASE ~CanStore(log, l)
  <2>1. new = cnt
    BY <1>3, <1>4, <1>7 DEF RecordedToTlog
  <2> QED BY <1>1, <1>2, <1>7, <2>1 DEF SameTlog, PutInTlog
<1> QED BY <1>6, <1>7

\* Where an event goes in CLog.
PutInClog(new, log, e) ==
    /\ LogInv(new) /\ SameTlog(new, log) /\ new.enabled = log.enabled /\ new.complete = log.complete
    /\ InClog(new, log, e)
    /\ new.counted[e.level] = Append(log.counted[e.level], Kind(e))
    /\ \A k \in Levels : k # e.level => /\ new.logs[k] = log.logs[k] /\ new.orders[k] = log.orders[k]
                                        /\ new.counted[k] = log.counted[k]

\* EL_record_event_to_clog_
LEMMA ClogEffect ==
  ASSUME NEW log, LogInv(log), EnableClog, NEW e, e.level \in Levels, Kind(e) # NoKind,
         NEW new, new = RecordedToClog(log, e)
  PROVE  PutInClog(new, log, e)
<1> DEFINE l == e.level
<1>1. LogInv(new)
  BY ClogRecordStep
<1>2. InClog(new, log, e)
  BY LogInvFacts, ClogFields
<1>3. DOMAIN log.logs = Levels /\ DOMAIN log.orders = Levels /\ DOMAIN log.counted = Levels
  BY LogInvFacts DEF ClogOK
<1>4. /\ SameTlog(new, log) /\ new.enabled = log.enabled /\ new.complete = log.complete
      /\ \E x : new.orders = [log.orders EXCEPT ![l] = x]
      /\ \E x : new.logs = [log.logs EXCEPT ![l] = x]
      /\ new.counted = [log.counted EXCEPT ![l] = Append(@, Kind(e))]
  BY <1>2 DEF InClog, SameCounters
<1>5. new.counted[l] = Append(log.counted[l], Kind(e))
  BY <1>3, <1>4
<1>6. \A k \in Levels : k # l => /\ new.logs[k] = log.logs[k] /\ new.orders[k] = log.orders[k]
                                 /\ new.counted[k] = log.counted[k]
  BY <1>3, <1>4
<1> QED BY <1>1, <1>2, <1>4, <1>5, <1>6 DEF PutInClog

\* An event of the logger itself.
LEMMA ELEffect ==
  ASSUME NEW log, LogInv(log), EnableClog, "EL" \in Levels, NEW group \in log.enabled, NEW local, NEW time,
         NEW new, new = RecordedEL(log, group, local, time)
  PROVE  OnlyEL(new, log) /\ new.counted["EL"] = Append(log.counted["EL"], <<group, local>>)
<1> DEFINE e == Event(group, local, "EL", time, log.number + 1)
           mid == RecordedToTlog(Counted(log, e), e)
<1>1. new = RecordedToClog(mid, e)
  BY DEF RecordedEL
<1>2. group \in EventGroups
  BY DEF LogInv, CountersOK
<1>3. Kind(e) # NoKind /\ e.level = "EL" /\ Kind(e) = <<group, local>>
  BY <1>2, EventFacts DEF Kind
<1> HIDE DEF e
<1>4. PutInTlog(mid, log, e)
  BY <1>3, TlogEffect DEF mid
<1> HIDE DEF mid
<1>5. LogInv(mid)
  BY <1>4 DEF PutInTlog
<1>6. PutInClog(new, mid, e)
  BY <1>1, <1>3, <1>5, ClogEffect
<1> QED BY <1>3, <1>4, <1>6 DEF OnlyEL, SameClog, SameTlog, PutInTlog, PutInClog

\* What is the same where the tables of CLog are the same.
SameClogs(new, log, l) ==
    /\ KindsOfLevel(new, l) = KindsOfLevel(log, l) /\ Oldest(new, l) = Oldest(log, l)
    /\ \A kind : PlaceInClog(new, l, kind) = PlaceInClog(log, l, kind)

\* They depend on the logs and their order only.
LEMMA SameClogTable ==
  ASSUME NEW log, NEW new, NEW l, new.logs[l] = log.logs[l], new.orders[l] = log.orders[l]
  PROVE  SameClogs(new, log, l)
<1>1. KindsOfLevel(new, l) = KindsOfLevel(log, l)
  BY DEF KindsOfLevel
<1>2. Oldest(new, l) = Oldest(log, l)
  BY DEF Oldest
<1>3. ASSUME NEW kind PROVE PlaceInClog(new, l, kind) = PlaceInClog(log, l, kind)
  <2> DEFINE Places(logs, order) ==
                 {i \in 1..CLogCapacity[l] :
                     /\ Kind(logs[order[i]].event) = kind
                     /\ \A k \in 1..i : Kind(logs[order[k]].event) # Kind(NoEvent)}
             First(S) == IF S = {} THEN 0 ELSE CHOOSE i \in S : \A k \in S : i <= k
  <2>1. PlaceInClog(new, l, kind) = First(Places(new.logs[l], new.orders[l]))
    BY DEF PlaceInClog
  <2>2. PlaceInClog(log, l, kind) = First(Places(log.logs[l], log.orders[l]))
    BY DEF PlaceInClog
  <2> HIDE DEF Places, First
  <2> QED BY <2>1, <2>2
<1> QED BY <1>1, <1>2, <1>3, Zenon DEF SameClogs

\* What the logger itself records comes in steps.
LEMMA OnlyELTwice ==
  ASSUME NEW log, NEW mid, NEW new, OnlyEL(mid, log), OnlyEL(new, mid)
  PROVE  OnlyEL(new, log)
BY DEF OnlyEL

\* Nothing is recorded.
LEMMA OnlyELNothing ==
  ASSUME NEW log, LogInv(log)
  PROVE  OnlyEL(log, log)
BY DEF OnlyEL

\* EL_create_clog_on_front_ records what it drops.
Dropped(new, log, e) ==
    LET old == Oldest(log, e.level).event
    IN  /\ OnlyEL(new, log)
        /\ IF PlaceInClog(log, e.level, Kind(e)) = 0 /\ old.group # 0
           THEN new.counted["EL"] =
                    Append(Append(log.counted["EL"], <<DropClog1, old.group>>), <<DropClog2, old.local>>)
           ELSE new = log

\* The two events come directly behind one another.
LEMMA DropEffect ==
  ASSUME NEW log, LogInv(log), EnableClog, "EL" \in Levels, log.enabled = EventGroups,
         NEW e, e.level # "EL"
  PROVE  Dropped(DropRecorded(log, e), log, e)
<1> DEFINE old == Oldest(log, e.level).event
           mid == RecordedEL(log, DropClog1, old.group, e.time)
           new == RecordedEL(mid, DropClog2, old.local, e.time)
<1>1. DropClog1 \in log.enabled /\ DropClog2 \in log.enabled /\ NoEvent.group = 0
  BY LevelsFacts DEF NoEvent, Event
<1>2. OnlyEL(mid, log) /\ mid.counted["EL"] = Append(log.counted["EL"], <<DropClog1, old.group>>)
  BY <1>1, ELEffect
<1>3. DropRecorded(log, e) = IF PlaceInClog(log, e.level, Kind(e)) = 0 /\ old.group # 0 THEN new ELSE log
  BY <1>1 DEF DropRecorded
<1> HIDE DEF mid, old
<1>4. LogInv(mid) /\ DropClog2 \in mid.enabled
  BY <1>1, <1>2 DEF OnlyEL
<1>5. OnlyEL(new, mid) /\ new.counted["EL"] = Append(mid.counted["EL"], <<DropClog2, old.local>>)
  BY <1>4, ELEffect
<1> HIDE DEF new
<1>6. OnlyEL(new, log) /\ OnlyEL(log, log)
  BY <1>2, <1>5, OnlyELTwice, OnlyELNothing
<1> QED BY <1>2, <1>3, <1>5, <1>6 DEF Dropped, old

\* EL_check_tlog_wp_ records that a ring has gone round.
WpAnnounced(new, log, e, stored) ==
    /\ OnlyEL(new, log)
    /\ IF stored /\ e.level \in DOMAIN FullLocal /\ log.wp[e.level] = 0
       THEN new.counted["EL"] = Append(log.counted["EL"], <<LoggerGroup, FullLocal[e.level]>>)
       ELSE \/ new = log
            \/ /\ e.level \in DOMAIN FullLocal
               /\ new.counted["EL"] = Append(log.counted["EL"], <<LoggerGroup, HalfFullLocal[e.level]>>)

\* EL_check_tlog_wp_
LEMMA WpEffect ==
  ASSUME NEW log, LogInv(log), EnableClog, "EL" \in Levels, log.enabled = EventGroups,
         NEW e, NEW stored \in BOOLEAN
  PROVE  WpAnnounced(WpChecked(log, e, stored), log, e, stored)
<1> DEFINE new == WpChecked(log, e, stored)
<1>1. ASSUME NEW local
      PROVE  /\ OnlyEL(RecordedEL(log, LoggerGroup, local, e.time), log)
             /\ RecordedEL(log, LoggerGroup, local, e.time).counted["EL"]
                    = Append(log.counted["EL"], <<LoggerGroup, local>>)
  <2>1. LoggerGroup \in log.enabled
    BY LevelsFacts
  <2> QED BY <2>1, ELEffect
<1>2. OnlyEL(log, log)
  BY OnlyELNothing
<1>3. IF stored /\ e.level \in DOMAIN FullLocal /\ log.wp[e.level] = 0
      THEN new = RecordedEL(log, LoggerGroup, FullLocal[e.level], e.time)
      ELSE \/ new = log
           \/ /\ e.level \in DOMAIN FullLocal
              /\ new = RecordedEL(log, LoggerGroup, HalfFullLocal[e.level], e.time)
  BY DEF WpChecked
<1> HIDE DEF new
<1>4. WpAnnounced(new, log, e, stored)
  BY <1>1, <1>2, <1>3 DEF WpAnnounced
<1> QED BY <1>4 DEF new

\* Which kinds CLog still has after an event.
KindsKept(new, log, e) ==
    /\ Kind(e) \in KindsOfLevel(new, e.level)
    /\ \A y \in KindsOfLevel(log, e.level) :
          \/ y \in KindsOfLevel(new, e.level)
          \/ PlaceInClog(log, e.level, Kind(e)) = 0 /\ y = Kind(Oldest(log, e.level).event)

\* No kind but the oldest one is dropped, and that one only for a kind that had no place.
LEMMA KindsAfter ==
  ASSUME NEW log, LogInv(log), NEW e, e.level \in Levels, Kind(e) # NoKind,
         NEW new, PutInClog(new, log, e)
  PROVE  KindsKept(new, log, e)
<1> DEFINE l == e.level
           c == CLogCapacity[l]
           order == log.orders[l]
           logs == log.logs[l]
           j == Place(log, e)
           front == ToFront(order, j)
           K == KindsIn(logs, order, c)
           p == PlaceInClog(log, l, Kind(e))
<1>1. c \in Nat \ {0} /\ l \in Levels
  BY LevelsFacts
<1>2. ClogHolds(logs, order, log.counted[l], c) /\ DOMAIN log.logs = Levels /\ DOMAIN log.orders = Levels
  BY LogInvFacts DEF ClogOK
<1>3. FoundAt(p, j, Kind(e), K, c) /\ j = IF p = 0 THEN c ELSE p
  <2>1. j = IF p = 0 THEN c ELSE p
    BY DEF Place
  <2> HIDE DEF j, K
  <2>2. K = KindsIn(log.logs[l], log.orders[l], c) /\ ClogHolds(log.logs[l], log.orders[l], log.counted[l], c)
    BY <1>2 DEF K
  <2> QED BY <1>1, <2>1, <2>2, PlaceIsFound
<1>4. j \in 1..c /\ (p # 0 => K[j] = Kind(e))
  BY <1>3 DEF FoundAt, IsPlaceOf
<1>5. Permutes(order, c) /\ DOMAIN logs = 1..c
  BY <1>2 DEF ClogHolds
<1>6. InFront(front, order, j, c)
  <2> HIDE DEF order, j
  <2> QED BY <1>1, <1>4, <1>5, ToFrontMoves
<1>7. \E n : new.logs[l] = [logs EXCEPT ![front[1]] = [event |-> e, count |-> n]] /\ new.orders[l] = front
  <2>1. InClog(new, log, e)
    BY DEF PutInClog
  <2>2. /\ new.orders = [log.orders EXCEPT ![l] = front]
        /\ \E n : new.logs = [log.logs EXCEPT ![l] = [@ EXCEPT ![front[1]] = [event |-> e, count |-> n]]]
    BY <2>1 DEF InClog
  <2> HIDE DEF front
  <2>3. new.orders[l] = front
    BY <1>1, <1>2, <2>2
  <2>4. PICK n : new.logs = [log.logs EXCEPT ![l] = [@ EXCEPT ![front[1]] = [event |-> e, count |-> n]]]
    BY <2>2
  <2>5. new.logs[l] = [logs EXCEPT ![front[1]] = [event |-> e, count |-> n]]
    BY <1>1, <1>2, <2>4
  <2> QED BY <2>3, <2>5
<1>8. PICK n : new.logs[l] = [logs EXCEPT ![front[1]] = [event |-> e, count |-> n]] /\ new.orders[l] = front
  BY <1>7
<1> HIDE DEF j, front, p
<1>9. Permutes(front, c) /\ front[1] = order[j]
  BY <1>6 DEF InFront
<1>10. order \in Seq(1..c) /\ Len(order) = c /\ front \in Seq(1..c) /\ Len(front) = c
  BY <1>5, <1>9 DEF Permutes
<1>11. \A i \in 1..c : order[i] \in 1..c /\ front[i] \in 1..c
  BY <1>10, ElementOfSeq
<1>12. new.logs[l][front[1]].event = e
  <2>1. front[1] \in DOMAIN logs
    BY <1>1, <1>5, <1>11
  <2> QED BY <1>8, <2>1
<1>13. KindsOfLevel(new, l) = {Kind(new.logs[l][front[i]].event) : i \in 1..c}
  BY <1>8 DEF KindsOfLevel
<1>14. Kind(e) \in KindsOfLevel(new, l)
  BY <1>1, <1>12, <1>13
<1>15. ASSUME NEW y \in KindsOfLevel(log, l)
       PROVE  \/ y \in KindsOfLevel(new, l)
              \/ p = 0 /\ y = Kind(Oldest(log, l).event)
  <2>1. PICK i \in 1..c : y = Kind(logs[order[i]].event)
    BY <1>15 DEF KindsOfLevel
  <2>2. CASE i # j
    <3>1. order[i] # order[j] /\ order[i] \in 1..c
      BY <1>4, <1>5, <1>11, <2>2 DEF Permutes
    <3>2. PICK a \in 1..c : front[a] = order[i]
      BY <1>9, <3>1 DEF Permutes
    <3>3. new.logs[l][front[a]] = logs[order[i]]
      BY <1>8, <1>9, <1>5, <3>1, <3>2
    <3> QED BY <1>13, <2>1, <3>3
  <2>3. CASE i = j /\ p # 0
    <3>1. y = Kind(e)
      BY <1>4, <2>1, <2>3 DEF KindsIn
    <3> QED BY <1>14, <3>1
  <2>4. CASE i = j /\ p = 0
    <3>1. i = c
      BY <1>3, <2>4
    <3> QED BY <2>1, <2>4, <3>1 DEF Oldest
  <2> QED BY <2>2, <2>3, <2>4
<1> QED BY <1>14, <1>15 DEF KindsKept, p

-----------------------------------------------------------------------------
\* What is on record stays there.
LEMMA StaysOnRecord ==
  ASSUME NEW h, IsSequence(h), NEW kind, OnRecord(h, kind), NEW y
  PROVE  OnRecord(Append(h, y), kind)
<1>1. PICK k : PairAt(h, k, kind)
  BY DEF OnRecord
<1>2. /\ Len(h) \in Nat /\ Len(Append(h, y)) = Len(h) + 1
      /\ \A i \in 1..Len(h) : Append(h, y)[i] = h[i]
  BY Appended
<1> DEFINE t == Append(h, y)
<1> HIDE DEF t
<1>3. PairAt(t, k, kind)
  <2>1. k \in 1..Len(h) /\ k + 1 \in 1..Len(h) /\ k \in 1..(Len(t) - 1)
    BY <1>1, <1>2 DEF PairAt, t
  <2> QED BY <1>1, <1>2, <2>1 DEF PairAt, t
<1> QED BY <1>3 DEF OnRecord, t

\* The pair is on record as soon as both events are recorded.
LEMMA PairIsOnRecord ==
  ASSUME NEW h, IsSequence(h), NEW kind
  PROVE  OnRecord(Append(Append(h, <<DropClog1, kind[1]>>), <<DropClog2, kind[2]>>), kind)
<1> DEFINE x == <<DropClog1, kind[1]>>
           y == <<DropClog2, kind[2]>>
           t == Append(h, x)
           u == Append(t, y)
<1> HIDE DEF x, y
<1>1. IsSequence(t) /\ Len(h) \in Nat /\ Len(t) = Len(h) + 1 /\ t[Len(h) + 1] = x
  BY Appended
<1> HIDE DEF t
<1>2. Len(u) = Len(t) + 1 /\ u[Len(t) + 1] = y /\ \A i \in 1..Len(t) : u[i] = t[i]
  BY <1>1, Appended
<1> HIDE DEF u
<1>3. Len(h) + 1 \in 1..Len(t) /\ Len(h) + 1 \in 1..(Len(u) - 1)
  BY <1>1, <1>2
<1>4. u[Len(h) + 1] = x /\ u[(Len(h) + 1) + 1] = y
  BY <1>1, <1>2, <1>3
<1>5. PairAt(u, Len(h) + 1, kind)
  BY <1>3, <1>4 DEF PairAt, x, y
<1> QED BY <1>5 DEF OnRecord, u, t, x, y

\* The logs while EL_record_event_ goes on: TLog, what is dropped, CLog, the write pointer.
Recording(log, tlog, dropped, clog, new, e) ==
    /\ PutInTlog(tlog, log, e) /\ Dropped(dropped, tlog, e)
    /\ PutInClog(clog, dropped, e) /\ KindsKept(clog, dropped, e)
    /\ WpAnnounced(new, clog, e, CanStore(log, e.level))

\* EL_record_event_ goes through these steps.
LEMMA RecordingGoes ==
  ASSUME NEW log, LogInv(log), EnableClog, "EL" \in Levels, log.enabled = EventGroups,
         NEW group \in EventGroups, NEW local, NEW level \in Levels \ {"EL"}, NEW time
  PROVE  \E tlog, dropped, clog, e :
            /\ e.level = level /\ Kind(e) # NoKind /\ Kind(e)[1] # 0
            /\ Recording(log, tlog, dropped, clog, Recorded(log, group, local, level, time), e)
<1> DEFINE e == Event(group, local, level, time, log.number + 1)
           tlog == RecordedToTlog(Counted(log, e), e)
           dropped == DropRecorded(tlog, e)
           clog == RecordedToClog(dropped, e)
           new == WpChecked(clog, e, CanStore(log, level))
<1>1. Kind(e) # NoKind /\ e.level = level /\ Kind(e)[1] # 0
  BY EventFacts, LevelsFacts DEF Kind
<1>2. new = Recorded(log, group, local, level, time)
  BY DEF Recorded
<1> HIDE DEF e
<1>3. PutInTlog(tlog, log, e)
  BY <1>1, TlogEffect
<1> HIDE DEF tlog
<1>4. LogInv(tlog) /\ tlog.enabled = EventGroups
  BY <1>3 DEF PutInTlog
<1>5. Dropped(dropped, tlog, e)
  BY <1>1, <1>4, DropEffect
<1> HIDE DEF dropped
<1>6. LogInv(dropped) /\ dropped.enabled = EventGroups
  BY <1>4, <1>5 DEF Dropped, OnlyEL
<1>7. PutInClog(clog, dropped, e)
  BY <1>1, <1>6, ClogEffect
<1>8. KindsKept(clog, dropped, e)
  BY <1>1, <1>6, <1>7, KindsAfter
<1> HIDE DEF clog
<1>9. LogInv(clog) /\ clog.enabled = EventGroups
  BY <1>6, <1>7 DEF PutInClog
<1>10. CanStore(log, level) \in BOOLEAN
  BY DEF CanStore, LogInv, TlogOK
<1>11. WpAnnounced(new, clog, e, CanStore(log, level))
  BY <1>9, <1>10, WpEffect
<1> HIDE DEF new
<1>12. Recording(log, tlog, dropped, clog, new, e)
  BY <1>1, <1>3, <1>5, <1>7, <1>8, <1>11 DEF Recording
<1> QED BY <1>1, <1>2, <1>12

\* What is the same and what is not when an event is recorded.
Changed(log, tlog, clog, new, e, k) ==
    /\ new.stored[k] = tlog.stored[k] /\ new.wp[k] = tlog.wp[k] /\ clog.wp[k] = tlog.wp[k]
    /\ new.counted[k] = IF k = e.level THEN Append(log.counted[k], Kind(e)) ELSE log.counted[k]
    /\ KindsOfLevel(new, k) = KindsOfLevel(clog, k)
    /\ k # e.level => /\ KindsOfLevel(new, k) = KindsOfLevel(log, k)
                      /\ new.stored[k] = log.stored[k] /\ new.wp[k] = log.wp[k]
RecordingDid(log, tlog, dropped, clog, new, e) ==
    /\ LogInv(new) /\ new.enabled = log.enabled /\ new.complete = log.complete
    /\ LogInv(tlog) /\ LogInv(dropped) /\ LogInv(clog)
    /\ tlog.counted["EL"] = log.counted["EL"] /\ clog.counted["EL"] = dropped.counted["EL"]
    /\ SameClogs(tlog, log, e.level) /\ SameClogs(dropped, tlog, e.level)
    /\ \A k \in Levels \ {"EL"} : Changed(log, tlog, clog, new, e, k)

\* Which parts each of the steps changes.
LEMMA RecordingChanges ==
  ASSUME NEW log, NEW tlog, NEW dropped, NEW clog, NEW new, NEW e,
         Recording(log, tlog, dropped, clog, new, e), e.level \in Levels \ {"EL"}, "EL" \in Levels
  PROVE  RecordingDid(log, tlog, dropped, clog, new, e)
<1>1. PutInTlog(tlog, log, e) /\ OnlyEL(dropped, tlog) /\ PutInClog(clog, dropped, e) /\ OnlyEL(new, clog)
  BY DEF Recording, Dropped, WpAnnounced
<1>2. /\ LogInv(new) /\ new.enabled = log.enabled /\ new.complete = log.complete
      /\ LogInv(tlog) /\ LogInv(dropped) /\ LogInv(clog)
  BY <1>1 DEF PutInTlog, OnlyEL, PutInClog
<1>3. clog.counted["EL"] = dropped.counted["EL"] /\ tlog.counted["EL"] = log.counted["EL"]
  BY <1>1 DEF PutInClog, PutInTlog, SameClog
<1>4. SameClogs(tlog, log, e.level) /\ SameClogs(dropped, tlog, e.level)
  <2>1. tlog.logs = log.logs /\ tlog.orders = log.orders
    BY <1>1 DEF PutInTlog, SameClog
  <2>2. dropped.logs[e.level] = tlog.logs[e.level] /\ dropped.orders[e.level] = tlog.orders[e.level]
    BY <1>1 DEF OnlyEL
  <2> QED BY <2>1, <2>2, SameClogTable
<1>5. ASSUME NEW k \in Levels \ {"EL"} PROVE Changed(log, tlog, clog, new, e, k)
  <2>1. /\ new.stored[k] = clog.stored[k] /\ new.wp[k] = clog.wp[k] /\ new.logs[k] = clog.logs[k]
        /\ new.orders[k] = clog.orders[k] /\ new.counted[k] = clog.counted[k]
    BY <1>1 DEF OnlyEL
  <2>2. clog.stored = dropped.stored /\ clog.wp = dropped.wp
    BY <1>1 DEF PutInClog, SameTlog
  <2>3. /\ dropped.stored[k] = tlog.stored[k] /\ dropped.wp[k] = tlog.wp[k]
        /\ dropped.logs[k] = tlog.logs[k] /\ dropped.orders[k] = tlog.orders[k]
        /\ dropped.counted[k] = tlog.counted[k]
    BY <1>1 DEF OnlyEL
  <2>4. tlog.logs = log.logs /\ tlog.orders = log.orders /\ tlog.counted = log.counted
    BY <1>1 DEF PutInTlog, SameClog
  <2>5. /\ k = e.level => clog.counted[k] = Append(dropped.counted[k], Kind(e))
        /\ k # e.level => /\ clog.counted[k] = dropped.counted[k]
                          /\ clog.logs[k] = dropped.logs[k] /\ clog.orders[k] = dropped.orders[k]
                          /\ tlog.stored[k] = log.stored[k] /\ tlog.wp[k] = log.wp[k]
    BY <1>1 DEF PutInClog, PutInTlog
  <2>6. KindsOfLevel(new, k) = KindsOfLevel(clog, k)
    BY <2>1, SameClogTable DEF SameClogs
  <2>7. ASSUME k # e.level PROVE KindsOfLevel(new, k) = KindsOfLevel(log, k)
    <3>1. new.logs[k] = log.logs[k] /\ new.orders[k] = log.orders[k]
      BY <2>1, <2>3, <2>4, <2>5, <2>7
    <3> QED BY <3>1, SameClogTable DEF SameClogs
  <2> QED BY <2>1, <2>2, <2>3, <2>4, <2>5, <2>6, <2>7 DEF Changed
<1> QED BY <1>2, <1>3, <1>4, <1>5 DEF RecordingDid

\* The write pointers stay in step with the numbers of events.
LEMMA InStepStays ==
  ASSUME NEW log, NEW tlog, NEW dropped, NEW clog, NEW new, NEW e, LogInv(log), InStep(log),
         Recording(log, tlog, dropped, clog, new, e), RecordingDid(log, tlog, dropped, clog, new, e),
         e.level \in Levels \ {"EL"}, Kind(e)[1] # 0
  PROVE  InStep(new)
<1>1. new.enabled = EventGroups
  BY DEF InStep, RecordingDid
<1>2. ASSUME NEW k \in Levels \ {"EL"}
      PROVE  new.wp[k] = Len(new.stored[k]) % TLogCapacity[k]
  <2> DEFINE c == TLogCapacity[k]
             s == log.stored[k]
  <2>1. /\ c \in Nat \ {0} /\ IsSequence(s) /\ Len(s) \in Nat /\ log.wp[k] = Len(s) % c
        /\ Changed(log, tlog, clog, new, e, k)
    BY LevelsFacts, LogInvFacts DEF InStep, RecordingDid
  <2>2. CASE k # e.level \/ ~CanStore(log, k)
    <3>1. new.stored[k] = s /\ new.wp[k] = log.wp[k]
      BY <2>1, <2>2 DEF Changed, Recording, PutInTlog
    <3> QED BY <2>1, <3>1
  <2>3. CASE k = e.level /\ CanStore(log, k)
    <3>1. new.stored[k] = Append(s, e) /\ new.wp[k] = (log.wp[k] + 1) % c
      BY <2>1, <2>3 DEF Changed, Recording, PutInTlog
    <3> HIDE DEF s, c
    <3>2. Len(new.stored[k]) = Len(s) + 1
      BY <2>1, <3>1, Appended
    <3>3. ((Len(s) % c) + 1) % c = (Len(s) + 1) % c
      BY <2>1, OneRoundMore
    <3> QED BY <2>1, <3>1, <3>2, <3>3 DEF c
  <2> QED BY <2>2, <2>3
<1>3. ASSUME NEW k \in Levels \ {"EL"}, NEW i \in 1..Len(new.counted[k])
      PROVE  new.counted[k][i][1] # 0
  <2> DEFINE h == log.counted[k]
  <2>1. /\ IsSequence(h) /\ \A a \in 1..Len(h) : h[a][1] # 0
        /\ new.counted[k] = IF k = e.level THEN Append(h, Kind(e)) ELSE h
    BY LogInvFacts DEF InStep, RecordingDid, Changed
  <2> HIDE DEF h
  <2>2. /\ Len(h) \in Nat /\ Len(Append(h, Kind(e))) = Len(h) + 1
        /\ Append(h, Kind(e))[Len(h) + 1] = Kind(e)
        /\ \A a \in 1..Len(h) : Append(h, Kind(e))[a] = h[a]
    BY <2>1, Appended
  <2>3. CASE i = Len(h) + 1 /\ k = e.level
    BY <2>1, <2>2, <2>3
  <2>4. CASE ~(i = Len(h) + 1 /\ k = e.level)
    <3>1. i \in 1..Len(h)
      BY <1>3, <2>1, <2>2, <2>4
    <3> QED BY <2>1, <2>2, <3>1
  <2> QED BY <2>3, <2>4
<1> QED BY <1>1, <1>2, <1>3 DEF InStep

\* The events about rings that have gone round.
LEMMA FullLocals ==
  /\ DOMAIN FullLocal = {"HIGH", "MIDDLE", "LOW"}
  /\ \A k, l \in DOMAIN FullLocal : /\ FullLocal[k] = FullLocal[l] => k = l
                                    /\ FullLocal[k] # HalfFullLocal[l]
BY DEF FullLocal, HalfFullLocal

\* A round is announced when it is complete, and only then.
LEMMA RoundsStay ==
  ASSUME NEW log, NEW tlog, NEW dropped, NEW clog, NEW new, NEW e, LogInv(log), InStep(log),
         RoundsAnnounced(log), "EL" \in Levels,
         Recording(log, tlog, dropped, clog, new, e), RecordingDid(log, tlog, dropped, clog, new, e),
         e.level \in Levels \ {"EL"}
  PROVE  RoundsAnnounced(new)
<1> DEFINE h == log.counted["EL"]
           l == e.level
           stored == CanStore(log, l)
           full == stored /\ l \in DOMAIN FullLocal /\ clog.wp[l] = 0
<1>1. IsSequence(h) /\ IsSequence(clog.counted["EL"]) /\ IsSequence(new.counted["EL"])
  BY LogInvFacts DEF RecordingDid
<1>2. DropClog1 # LoggerGroup /\ DropClog2 # LoggerGroup
  BY LoggerAssumption
<1>3. ASSUME NEW local PROVE Tally(clog.counted["EL"], <<LoggerGroup, local>>) = Tally(h, <<LoggerGroup, local>>)
  <2> DEFINE x == <<LoggerGroup, local>>
             old == Oldest(tlog, l).event
             y == <<DropClog1, old.group>>
             z == <<DropClog2, old.local>>
  <2>1. clog.counted["EL"] = h \/ clog.counted["EL"] = Append(Append(h, y), z)
    BY DEF Recording, Dropped, RecordingDid
  <2>2. y # x /\ z # x
    BY <1>2
  <2> HIDE DEF x, y, z, h
  <2>3. IsSequence(Append(h, y)) /\ Tally(Append(h, y), x) = Tally(h, x) /\ Tally(h, x) \in Nat
    BY <1>1, <2>2, TallyOneMore, Appended
  <2>4. Tally(Append(Append(h, y), z), x) = Tally(Append(h, y), x)
    BY <2>2, <2>3, TallyOneMore
  <2> QED BY <2>1, <2>3, <2>4 DEF x
<1>4. ASSUME NEW k \in DOMAIN FullLocal
      PROVE  Tally(new.counted["EL"], <<LoggerGroup, FullLocal[k]>>)
                 = Tally(h, <<LoggerGroup, FullLocal[k]>>) + (IF full /\ k = l THEN 1 ELSE 0)
  <2> DEFINE x == <<LoggerGroup, FullLocal[k]>>
             g == clog.counted["EL"]
  <2>1. IF full THEN new.counted["EL"] = Append(g, <<LoggerGroup, FullLocal[l]>>)
        ELSE \/ new.counted["EL"] = g
             \/ l \in DOMAIN FullLocal /\ new.counted["EL"] = Append(g, <<LoggerGroup, HalfFullLocal[l]>>)
    BY DEF Recording, WpAnnounced
  <2>2. /\ l \in DOMAIN FullLocal => (<<LoggerGroup, FullLocal[l]>> = x <=> k = l)
        /\ l \in DOMAIN FullLocal => <<LoggerGroup, HalfFullLocal[l]>> # x
    BY FullLocals
  <2>3. Tally(g, x) = Tally(h, x) /\ IsSequence(g)
    BY <1>1, <1>3
  <2> HIDE DEF x, g, h
  <2>4. Tally(h, x) \in Nat
    BY <1>1, TallyOneMore
  <2>5. \A y : Tally(Append(g, y), x) = Tally(h, x) + (IF y = x THEN 1 ELSE 0)
    BY <2>3, TallyOneMore
  <2>6. CASE full
    BY <2>1, <2>2, <2>5, <2>6 DEF x
  <2>7. CASE ~full
    <3> HIDE DEF full, l
    <3>1. Tally(new.counted["EL"], x) = Tally(h, x)
      <4>1. CASE new.counted["EL"] = g
        BY <2>3, <4>1
      <4>2. CASE l \in DOMAIN FullLocal /\ new.counted["EL"] = Append(g, <<LoggerGroup, HalfFullLocal[l]>>)
        BY <2>2, <2>4, <2>5, <4>2
      <4> QED BY <2>1, <2>7, <4>1, <4>2
    <3> QED BY <2>4, <2>7, <3>1 DEF x
  <2> QED BY <2>6, <2>7
<1>5. ASSUME NEW k \in DOMAIN FullLocal \cap Levels
      PROVE  Tally(new.counted["EL"], <<LoggerGroup, FullLocal[k]>>) = Len(new.stored[k]) \div TLogCapacity[k]
  <2> DEFINE c == TLogCapacity[k]
             s == log.stored[k]
             m == Tally(h, <<LoggerGroup, FullLocal[k]>>)
  <2>1. k \in Levels \ {"EL"}
    BY FullLocals
  <2>2. /\ c \in Nat \ {0} /\ IsSequence(s) /\ Len(s) \in Nat /\ log.wp[k] = Len(s) % c
        /\ Changed(log, tlog, clog, new, e, k) /\ m = Len(s) \div c
    BY <2>1, LevelsFacts, LogInvFacts DEF InStep, RecordingDid, RoundsAnnounced
  <2>3. Len(s) \div c \in Nat
    BY <2>2, Division
  <2>4. CASE k # l \/ ~stored
    <3>1. new.stored[k] = s /\ ~(full /\ k = l)
      BY <2>2, <2>4 DEF Changed, Recording, PutInTlog
    <3> HIDE DEF full, s, c, h
    <3> QED BY <1>4, <2>2, <2>3, <3>1 DEF m, c
  <2>5. CASE k = l /\ stored
    <3>1. new.stored[k] = Append(s, e) /\ clog.wp[k] = (log.wp[k] + 1) % c
      BY <2>2, <2>5 DEF Changed, Recording, PutInTlog
    <3>2. full <=> clog.wp[k] = 0
      BY <2>5
    <3> HIDE DEF full, s, c, h, m
    <3>3. Len(new.stored[k]) = Len(s) + 1
      BY <2>2, <3>1, Appended
    <3>4. /\ ((Len(s) % c) + 1) % c = (Len(s) + 1) % c
          /\ (Len(s) + 1) \div c = (Len(s) \div c) + (IF (Len(s) + 1) % c = 0 THEN 1 ELSE 0)
      BY <2>2, OneRoundMore
    <3>5. Tally(new.counted["EL"], <<LoggerGroup, FullLocal[k]>>) = m + (IF full THEN 1 ELSE 0)
      BY <1>4, <2>5 DEF m
    <3>6. full <=> (Len(s) + 1) % c = 0
      BY <2>2, <3>1, <3>2, <3>4
    <3>7. m + (IF full THEN 1 ELSE 0) = (Len(s) + 1) \div c
      BY <2>2, <3>4, <3>6
    <3> QED BY <3>3, <3>5, <3>7 DEF c
  <2> QED BY <2>4, <2>5
<1> QED BY <1>5 DEF RoundsAnnounced

\* The kinds that were dropped.
LEMMA DropsStay ==
  ASSUME NEW log, NEW tlog, NEW dropped, NEW clog, NEW new, NEW e, LogInv(log), InStep(log),
         DropsAnnounced(log), "EL" \in Levels,
         Recording(log, tlog, dropped, clog, new, e), RecordingDid(log, tlog, dropped, clog, new, e),
         e.level \in Levels \ {"EL"}
  PROVE  DropsAnnounced(new)
<1> DEFINE h == log.counted["EL"]
           g == dropped.counted["EL"]
           t == new.counted["EL"]
           l == e.level
           old == Oldest(log, l).event
           y == <<DropClog1, old.group>>
           z == <<DropClog2, old.local>>
           place == PlaceInClog(log, l, Kind(e))
<1>1. IsSequence(h) /\ IsSequence(g)
  BY LogInvFacts DEF RecordingDid
<1>2. IF place = 0 /\ old.group # 0 THEN g = Append(Append(h, y), z) ELSE g = h
  <2>1. SameClogs(tlog, log, l) /\ tlog.counted["EL"] = h
    BY DEF RecordingDid
  <2>2. Oldest(tlog, l) = Oldest(log, l) /\ PlaceInClog(tlog, l, Kind(e)) = place
    BY <2>1 DEF SameClogs
  <2>3. Dropped(dropped, tlog, e)
    BY DEF Recording
  <2> QED BY <2>1, <2>2, <2>3 DEF Dropped
<1>3. t = g \/ \E x : t = Append(g, x)
  <2>1. WpAnnounced(new, clog, e, CanStore(log, l)) /\ clog.counted["EL"] = g
    BY DEF Recording, RecordingDid
  <2> QED BY <2>1 DEF WpAnnounced
<1>4. ASSUME NEW kind, OnRecord(g, kind) PROVE OnRecord(t, kind)
  <2> HIDE DEF g, t
  <2> QED BY <1>1, <1>3, <1>4, StaysOnRecord
<1>5. ASSUME NEW kind, OnRecord(h, kind) PROVE OnRecord(t, kind)
  <2> HIDE DEF h, g, t, y, z
  <2>1. IsSequence(Append(h, y))
    BY <1>1, Appended
  <2>2. OnRecord(Append(h, y), kind)
    BY <1>1, <1>5, StaysOnRecord
  <2>3. OnRecord(Append(Append(h, y), z), kind)
    BY <2>1, <2>2, StaysOnRecord
  <2>4. OnRecord(g, kind)
    BY <1>2, <1>5, <2>3
  <2> QED BY <2>4, <1>4
<1>6. \A x \in KindsOfLevel(log, l) : x \in KindsOfLevel(clog, l) \/ (place = 0 /\ x = Kind(old))
  <2>1. KindsKept(clog, dropped, e) /\ SameClogs(tlog, log, l) /\ SameClogs(dropped, tlog, l)
    BY DEF Recording, RecordingDid
  <2>2. /\ KindsOfLevel(dropped, l) = KindsOfLevel(log, l) /\ Oldest(dropped, l) = Oldest(log, l)
        /\ PlaceInClog(dropped, l, Kind(e)) = place
    BY <2>1 DEF SameClogs
  <2> QED BY <2>1, <2>2 DEF KindsKept
<1>7. Kind(e) \in KindsOfLevel(clog, l)
  BY DEF Recording, KindsKept
<1>8. ASSUME NEW k \in Levels \ {"EL"}, NEW i \in 1..Len(new.counted[k]),
             new.counted[k][i] \notin KindsOfLevel(new, k)
      PROVE  OnRecord(t, new.counted[k][i])
  <2> DEFINE s == log.counted[k]
             kind == new.counted[k][i]
  <2>1. Changed(log, tlog, clog, new, e, k) /\ IsSequence(s)
    BY LogInvFacts DEF RecordingDid
  <2>2. \A a \in 1..Len(s) : s[a][1] # 0 /\ (s[a] \notin KindsOfLevel(log, k) => OnRecord(h, s[a]))
    BY DEF InStep, DropsAnnounced
  <2>3. CASE k # l
    <3>1. new.counted[k] = s /\ KindsOfLevel(new, k) = KindsOfLevel(log, k)
      BY <2>1, <2>3 DEF Changed
    <3>2. OnRecord(h, kind)
      BY <1>8, <2>2, <3>1
    <3> QED BY <1>5, <3>2
  <2>4. CASE k = l
    <3>1. new.counted[k] = Append(s, Kind(e)) /\ KindsOfLevel(new, k) = KindsOfLevel(clog, l)
      BY <2>1, <2>4 DEF Changed
    <3>2. /\ Len(s) \in Nat /\ Len(Append(s, Kind(e))) = Len(s) + 1
          /\ Append(s, Kind(e))[Len(s) + 1] = Kind(e)
          /\ \A a \in 1..Len(s) : Append(s, Kind(e))[a] = s[a]
      <4> HIDE DEF s
      <4> QED BY <2>1, Appended
    <3>3. i \in 1..Len(s) /\ kind = s[i]
      <4>1. i # Len(s) + 1
        BY <1>7, <1>8, <3>1, <3>2
      <4>2. i \in 1..Len(s)
        BY <1>8, <3>1, <3>2, <4>1
      <4> QED BY <3>1, <3>2, <4>2
    <3>4. CASE kind \notin KindsOfLevel(log, k)
      <4>1. OnRecord(h, kind)
        BY <2>2, <3>3, <3>4
      <4> QED BY <1>5, <4>1
    <3>5. CASE kind \in KindsOfLevel(log, k)
      <4>1. place = 0 /\ kind = Kind(old)
        BY <1>6, <1>8, <2>4, <3>1, <3>5
      <4>2. kind[1] = old.group /\ kind[2] = old.local /\ old.group # 0
        <5>1. Kind(old)[1] = old.group /\ Kind(old)[2] = old.local
          BY DEF Kind
        <5>2. kind[1] # 0
          BY <2>2, <3>3
        <5> QED BY <4>1, <5>1, <5>2
      <4>3. g = Append(Append(h, y), z)
        BY <1>2, <4>1, <4>2
      <4>4. y = <<DropClog1, kind[1]>> /\ z = <<DropClog2, kind[2]>>
        BY <4>2
      <4> HIDE DEF h, g, kind, y, z
      <4>5. OnRecord(g, kind)
        BY <1>1, <4>3, <4>4, PairIsOnRecord
      <4>6. OnRecord(t, kind)
        BY <1>4, <4>5
      <4> QED BY <4>6 DEF kind
    <3> QED BY <3>4, <3>5
  <2> QED BY <2>3, <2>4
<1> QED BY <1>8 DEF DropsAnnounced

\* Recording an event loses nothing that is not on record.
LEMMA LossRecordStep ==
  ASSUME NEW log, LossInv(log), NEW group, NEW local, NEW level \in Levels \ {"EL"}, NEW time
  PROVE  LossInv(Recorded(log, group, local, level, time))
<1> DEFINE new == Recorded(log, group, local, level, time)
<1>1. LogInv(log) /\ LogInv(new)
  BY RecordedStep DEF LossInv
<1>2. CASE group \notin log.enabled
  <2>1. new = log
    BY <1>2 DEF Recorded
  <2> QED BY <2>1
<1>3. CASE group \in log.enabled
  <2>1. new.complete = log.complete
    <3>1. log.number \in Nat
      BY <1>1 DEF LogInv, CountersOK
    <3>2. Records(new, log)
      BY <1>1, <3>1, RecordedRecords
    <3> QED BY <3>2 DEF Records, Grown
  <2>2. ASSUME log.complete, EnableClog, "EL" \in Levels
        PROVE  Lossless(new)
    <3>1. InStep(log) /\ RoundsAnnounced(log) /\ DropsAnnounced(log)
      BY <2>2 DEF LossInv, Lossless
    <3>2. log.enabled = EventGroups /\ group \in EventGroups
      BY <1>3, <3>1 DEF InStep
    <3>3. \E tlog, dropped, clog, e :
             /\ e.level = level /\ Kind(e) # NoKind /\ Kind(e)[1] # 0
             /\ Recording(log, tlog, dropped, clog, new, e)
      BY <1>1, <2>2, <3>2, RecordingGoes
    <3> HIDE DEF new
    <3>4. PICK tlog, dropped, clog, e :
             /\ e.level = level /\ Kind(e) # NoKind /\ Kind(e)[1] # 0
             /\ Recording(log, tlog, dropped, clog, new, e)
      BY <3>3
    <3>5. RecordingDid(log, tlog, dropped, clog, new, e)
      BY <2>2, <3>4, RecordingChanges
    <3>6. InStep(new)
      BY <1>1, <3>1, <3>4, <3>5, InStepStays
    <3>7. RoundsAnnounced(new)
      BY <1>1, <2>2, <3>1, <3>4, <3>5, RoundsStay
    <3>8. DropsAnnounced(new)
      BY <1>1, <2>2, <3>1, <3>4, <3>5, DropsStay
    <3> QED BY <3>6, <3>7, <3>8 DEF Lossless
  <2> HIDE DEF new
  <2>3. LossInv(new)
    BY <1>1, <2>1, <2>2 DEF LossInv
  <2> QED BY <2>3 DEF new
<1> QED BY <1>2, <1>3

\* Going through the levels records no more than losses.
ScanLoss(s) == DOMAIN s = ScanFields /\ LossInv(s.log)

\* One level.
LEMMA ScannedLoss ==
  ASSUME NEW s, ScanLoss(s), NEW level
  PROVE  ScanLoss(Scanned(s, level))
<1> DEFINE given == GivenUp(s, level)
<1>1. ScanLoss(given)
  <2> DEFINE lost == LossRecorded(s.log)
  <2>1. LossInv(lost)
    <3>1. "HIGH" \in Levels \ {"EL"}
      BY LevelsFacts
    <3> QED BY <3>1, LossRecordStep DEF ScanLoss, LossRecorded, RecordError
  <2>2. given = s \/ (DOMAIN given = DOMAIN s /\ ("log" \in DOMAIN s => given.log = lost))
    <3> HIDE DEF lost
    <3> QED BY DEF GivenUp, lost
  <2> HIDE DEF given, lost
  <2> QED BY <2>1, <2>2 DEF ScanLoss, ScanFields
<1> HIDE DEF given
<1> DEFINE with == WithOldestOf(given, level)
<1>2. ScanLoss(with)
  <2>1. with = given \/ (DOMAIN with = DOMAIN given /\ with.log = given.log)
    BY <1>1 DEF WithOldestOf, ScanLoss, ScanFields
  <2> HIDE DEF with
  <2> QED BY <1>1, <2>1 DEF ScanLoss
<1> HIDE DEF with
<1> QED BY <1>2 DEF Scanned, with, given

\* All levels.
LEMMA ScanLossStep ==
  ASSUME LossInv(el)
  PROVE  LossInv(Scan.log)
<1>1. ScanLoss(ScanStart)
  BY DEF ScanLoss, ScanStart, ScanFields
<1> DEFINE s1 == Scanned(ScanStart, "HIGH")
           s2 == Scanned(s1, "MIDDLE")
           s3 == Scanned(s2, "LOW")
           s4 == Scanned(s3, "EL")
           s5 == Scanned(s4, "EH")
<1>2. Scan = s5
  BY ScanIsFiveSteps
<1>3. ScanLoss(s1)
  BY <1>1, ScannedLoss
<1> HIDE DEF s1
<1>4. ScanLoss(s2)
  BY <1>3, ScannedLoss
<1> HIDE DEF s2
<1>5. ScanLoss(s3)
  BY <1>4, ScannedLoss
<1> HIDE DEF s3
<1>6. ScanLoss(s4)
  BY <1>5, ScannedLoss
<1> HIDE DEF s4
<1>7. ScanLoss(s5)
  BY <1>6, ScannedLoss
<1> QED BY <1>2, <1>7 DEF ScanLoss

\* A step of the handler.
LEMMA HandlerLossStep ==
  ASSUME LossInv(el), HandlerStep
  PROVE  LossInv(el')
<1>1. \A log, group, local, level, time :
         LossInv(log) /\ level \in Levels \ {"EL"} => LossInv(Recorded(log, group, local, level, time))
  BY LossRecordStep
<1>2. "HIGH" \in Levels \ {"EL"} /\ "LOW" \in Levels \ {"EL"} /\ "EH" \in Levels \ {"EL"}
  BY LevelsFacts
<1>3. \A log, local : LossInv(log) =>
         LossInv(RecordError(log, local, "HIGH")) /\ LossInv(RecordError(log, local, "LOW"))
  BY <1>1, <1>2 DEF RecordError
<1> HIDE DEF LossInv
<1>4. CASE el' = el
  BY <1>4
<1>5. CASE ExecuteDisagrees \/ RuleIsStrange \/ HigherIsRefused
  BY <1>3, <1>5 DEF ExecuteDisagrees, RuleIsStrange, HigherIsRefused
<1>6. CASE RuleMatches \/ ReturnToLower
  BY <1>1, <1>2, <1>6 DEF RuleMatches, ReturnToLower
<1>7. CASE NextEvent
  BY <1>7, ScanLossStep DEF NextEvent
<1>8. CASE \E outcome \in {"SUCCESS", "ADJUSTED", "FAILURE"} : Respond(outcome)
  <2>1. PICK outcome : Respond(outcome)
    BY <1>8
  <2> DEFINE log == DeployRecorded(el, outcome)
  <2>2. LossInv(log)
    BY <1>3 DEF DeployRecorded
  <2>3. el' = log \/ el' = RecordError(log, LogTableFull, "HIGH")
    BY <2>1 DEF Respond
  <2> HIDE DEF log
  <2> QED BY <1>3, <2>2, <2>3
<1>9. HandlerStep =>
        \/ el' = el \/ ExecuteDisagrees \/ RuleIsStrange \/ HigherIsRefused \/ RuleMatches \/ ReturnToLower
        \/ NextEvent \/ \E outcome \in {"SUCCESS", "ADJUSTED", "FAILURE"} : Respond(outcome)
  BY DEF HandlerStep, Execute, ExecuteEnds, RuleIsSkipped, RuleCounts, HigherIsAsked,
         ReturnToRespond, ReturnToExecute
<1> QED BY <1>4, <1>5, <1>6, <1>7, <1>8, <1>9

\* Where nothing of what is on record has changed.
LEMMA LossUnchanged ==
  ASSUME NEW log, LossInv(log), NEW new, LogInv(new), SameClog(new, log), new.stored = log.stored,
         new.wp = log.wp, new.enabled = log.enabled, new.complete = log.complete
  PROVE  LossInv(new)
<1>1. \A l : KindsOfLevel(new, l) = KindsOfLevel(log, l)
  BY SameClogTable DEF SameClogs, SameClog
<1>2. InStep(log) => InStep(new)
  BY DEF InStep, SameClog
<1>3. RoundsAnnounced(log) => RoundsAnnounced(new)
  BY DEF RoundsAnnounced, SameClog
<1>4. DropsAnnounced(log) => DropsAnnounced(new)
  BY <1>1 DEF DropsAnnounced, SameClog
<1> QED BY <1>2, <1>3, <1>4 DEF LossInv, Lossless

\* The commands either leave what is on record, or say that the record is no longer complete.
LEMMA CommandLossStep ==
  ASSUME LossInv(el), LoggerCommand(EventGroups, Levels)
  PROVE  LossInv(el')
<1>1. LogInv(el) /\ LogInv(el') /\ IsLog(el)
  BY CommandLogStep DEF LossInv, LogInv
<1>2. CASE el'.complete = FALSE
  BY <1>1, <1>2 DEF LossInv
<1>3. \A log : IsLog(log) => Incomplete(log).complete = FALSE
  BY DEF Incomplete, IsLog, LogFields
<1>4. CASE InitializeLogger
  <2>1. el'.complete = FALSE
    BY <1>4, InitializedFields DEF InitializeLogger, Reinitialized, IsLog, LogFields
  <2> QED BY <1>2, <2>1
<1>5. CASE ClearLogAll
  <2>1. el'.complete = FALSE
    BY <1>1, <1>5 DEF ClearLogAll, ClearedStatistics, IsLog, LogFields
  <2> QED BY <1>2, <2>1
<1>6. CASE ClearStatistics
  <2>1. /\ SameClog(el', el) /\ el'.stored = el.stored /\ el'.wp = el.wp /\ el'.enabled = el.enabled
        /\ el'.complete = el.complete
    BY <1>1, <1>6 DEF ClearStatistics, ClearedStatistics, IsLog, LogFields, SameClog
  <2> QED BY <1>1, <2>1, LossUnchanged
<1>7. CASE \E level \in Levels : ClearLogByErrLevel(level) \/ ClearTlog(level) \/ ClearClog(level)
  <2>1. PICK level \in Levels : ClearLogByErrLevel(level) \/ ClearTlog(level) \/ ClearClog(level)
    BY <1>7
  <2>2. \/ el' = Incomplete(ClearedClog(ClearedTlog(el, level), level))
        \/ el' = Incomplete(ClearedTlog(el, level)) \/ el' = Incomplete(ClearedClog(el, level))
    BY <2>1 DEF ClearLogByErrLevel, ClearTlog, ClearClog
  <2>3. LogInv(ClearedTlog(el, level)) /\ LogInv(ClearedClog(el, level))
    BY <1>1, TlogCleared, ClogCleared
  <2>4. LogInv(ClearedClog(ClearedTlog(el, level), level))
    BY <2>3, ClogCleared
  <2>5. \A log : LogInv(log) => IsLog(log)
    BY DEF LogInv
  <2>6. el'.complete = FALSE
    <3> HIDE DEF LogInv
    <3> QED BY <1>3, <2>2, <2>3, <2>4, <2>5
  <2> QED BY <1>2, <2>6
<1>8. CASE LoggingCommand(EventGroups)
  <2>1. \E groups : SetLogging(groups)
    BY <1>8 DEF LoggingCommand
  <2>2. el'.complete = FALSE
    BY <1>1, <2>1 DEF SetLogging, IsLog, LogFields
  <2> QED BY <1>2, <2>2
<1>9. CASE \E flag \in BOOLEAN : SetOverwriteAll(flag) \/ \E level \in Levels : SetOverwrite(level, flag)
  <2>1. /\ SameClog(el', el) /\ el'.stored = el.stored /\ el'.wp = el.wp /\ el'.enabled = el.enabled
        /\ el'.complete = el.complete
    BY <1>1, <1>9 DEF SetOverwriteAll, SetOverwrite, IsLog, LogFields, SameClog
  <2> QED BY <1>1, <2>1, LossUnchanged
<1> QED BY <1>4, <1>5, <1>6, <1>7, <1>8, <1>9 DEF LoggerCommand, ClearingCommand, KeepingCommand

\* At the start nothing is lost.
LEMMA HandlerLossInit == HandlerInit => LossInv(el)
<1> SUFFICES ASSUME HandlerInit PROVE LossInv(el)
  OBVIOUS
<1>1. el = Initialized /\ LogInv(el)
  BY HandlerLogInit DEF HandlerInit, HandlerStart, LoggerInit
<1>2. /\ el.wp = [l \in Levels |-> 0] /\ el.enabled = EventGroups
      /\ el.stored = [l \in Levels |-> <<>>] /\ el.counted = [l \in Levels |-> <<>>]
  BY <1>1, InitializedFields
<1>3. \A l \in Levels : el.wp[l] = 0 /\ Len(el.stored[l]) = 0 /\ Len(el.counted[l]) = 0 /\ el.counted[l] = <<>>
  BY <1>2, NoFrame
<1>4. ASSUME NEW c \in Nat \ {0} PROVE 0 % c = 0 /\ 0 \div c = 0
  <2>1. 0 \div c \in Nat /\ 0 % c \in 0..(c - 1) /\ 0 = (c * (0 \div c)) + (0 % c)
    BY Division
  <2> QED BY <2>1, Multiple
<1>5. InStep(el)
  <2>1. ASSUME NEW l \in Levels PROVE 0 % TLogCapacity[l] = 0
    BY <1>4, LevelsFacts
  <2> QED BY <1>2, <1>3, <2>1 DEF InStep
<1>6. RoundsAnnounced(el) \/ "EL" \notin Levels
  <2> SUFFICES ASSUME "EL" \in Levels, NEW l \in DOMAIN FullLocal \cap Levels
               PROVE  Tally(el.counted["EL"], <<LoggerGroup, FullLocal[l]>>)
                          = Len(el.stored[l]) \div TLogCapacity[l]
    BY DEF RoundsAnnounced
  <2>1. Len(el.stored[l]) \div TLogCapacity[l] = 0
    BY <1>3, <1>4, LevelsFacts
  <2>2. {k \in 1..Len(el.counted["EL"]) : el.counted["EL"][k] = <<LoggerGroup, FullLocal[l]>>} = {}
    BY <1>3
  <2>3. Tally(el.counted["EL"], <<LoggerGroup, FullLocal[l]>>) = 0
    BY <2>2, FS_EmptySet DEF Tally
  <2> QED BY <2>1, <2>3
<1>7. DropsAnnounced(el)
  BY <1>3 DEF DropsAnnounced
<1> QED BY <1>1, <1>5, <1>6, <1>7 DEF LossInv, Lossless

\* The invariant in every step of the handler and around it.
LEMMA HandlerNextLossStep == LossInv(el) /\ [HandlerNext]_handlerVars => LossInv(el')
<1> SUFFICES ASSUME LossInv(el), [HandlerNext]_handlerVars PROVE LossInv(el')
  OBVIOUS
<1>1. CASE HandlerStep
  BY <1>1, HandlerLossStep
<1>2. CASE HandlerCommand(EventGroups, Levels)
  <2>1. LoggerCommand(EventGroups, Levels) \/ el' = el
    BY <1>2 DEF HandlerCommand, ClearCounters, CommandLogger, MatchCounters, Set, CommandRule,
                CommandCounter, CommandMaxLevels, CommandTable, ClearTable, LoggerCommand
  <2>2. CASE LoggerCommand(EventGroups, Levels)
    BY <2>2, CommandLossStep
  <2> HIDE DEF LossInv
  <2> QED BY <2>1, <2>2
<1>3. CASE \E group \in EventGroups, local \in Locals, level \in Levels : RecordByUser(group, local, level)
  <2>1. PICK group \in EventGroups, local \in Locals, level \in Levels : RecordByUser(group, local, level)
    BY <1>3
  <2>2. el' = Recorded(el, group, local, level, clock) /\ level # "EL"
    BY <2>1 DEF RecordByUser, RecordEvent
  <2> QED BY <2>2, LossRecordStep
<1>4. CASE ClockTick \/ UNCHANGED handlerVars
  <2>1. el' = el
    BY <1>4 DEF ClockTick, Tick, handlerVars
  <2> HIDE DEF LossInv
  <2> QED BY <2>1
<1> QED BY <1>1, <1>2, <1>3, <1>4 DEF HandlerNext

\* Without CLog no kinds are recorded.
LEMMA NoKindsWithoutClog ==
  ASSUME LogInv(el), ~EnableClog, NEW l \in Levels
  PROVE  Len(el.counted[l]) = 0
<1> DEFINE c == CLogCapacity[l]
           h == el.counted[l]
           K == KindsIn(el.logs[l], el.orders[l], c)
<1>1. /\ ClogHolds(el.logs[l], el.orders[l], h, c) /\ c \in Nat \ {0} /\ IsSequence(h) /\ Len(h) \in Nat
      /\ el.logs[l] = EmptyLogs(l)
  BY LogInvFacts, LevelsFacts DEF ClogOK
<1>2. Recent(K, h, c) /\ NoKind \notin ToSet(h) /\ el.orders[l] \in Seq(1..c) /\ Len(el.orders[l]) = c
  BY <1>1 DEF ClogHolds, Permutes
<1>3. K[1] = NoKind
  <2> DEFINE order == el.orders[l]
  <2>1. 1 \in 1..c /\ order[1] \in 1..c
    <3>1. order \in Seq(1..c) /\ Len(order) = c /\ 1 \in 1..c
      BY <1>1, <1>2
    <3> HIDE DEF order, c
    <3> QED BY <3>1, ElementOfSeq
  <2> QED BY <1>1, <2>1 DEF KindsIn, EmptyLogs, NoKind
<1> HIDE DEF K, h
<1>4. ~(1 <= Cardinality(ToSet(h)))
  BY <1>1, <1>2, <1>3 DEF Recent
<1>5. ASSUME Len(h) # 0 PROVE FALSE
  <2>1. IsFiniteSet(ToSet(h)) /\ Cardinality(ToSet(h)) \in Nat
    BY <1>1, KindsOf
  <2>2. h[1] \in ToSet(h)
    BY <1>1, <1>5, KindsOf
  <2>3. Cardinality(ToSet(h)) # 0
    BY <2>1, <2>2, FS_EmptySet
  <2> QED BY <1>4, <2>1, <2>3
<1> QED BY <1>5 DEF h

\* What the invariant says of losses.
LEMMA RecordOfLosses ==
  ASSUME LossInv(el)
  PROVE  LossIsOnRecord
<1>1. FullIsAnnounced
  BY DEF FullIsAnnounced, LossInv, Lossless, RoundsAnnounced, Tally
<1>2. ASSUME el.complete, "EL" \in Levels, NEW l \in Levels \ {"EL"}, NEW i \in 1..Len(el.counted[l]),
             el.counted[l][i] \notin ClogKinds(l)
      PROVE  \E k \in 1..(Len(el.counted["EL"]) - 1) :
                /\ el.counted["EL"][k] = <<DropClog1, el.counted[l][i][1]>>
                /\ el.counted["EL"][k + 1] = <<DropClog2, el.counted[l][i][2]>>
  <2>1. EnableClog
    BY <1>2, NoKindsWithoutClog DEF LossInv
  <2>2. KindsOfLevel(el, l) = ClogKinds(l)
    BY DEF KindsOfLevel, ClogKinds, LogAt
  <2>3. OnRecord(el.counted["EL"], el.counted[l][i])
    BY <1>2, <2>1, <2>2 DEF LossInv, Lossless, DropsAnnounced
  <2> QED BY <2>3 DEF OnRecord, PairAt
<1>3. DropsAreOnRecord
  BY <1>2 DEF DropsAreOnRecord
<1> QED BY <1>1, <1>3 DEF LossIsOnRecord

\* Nothing is lost in silence, whatever the sizes of the logs: as long as nothing was cleared and no
\* logging disabled, each round of a ring was announced once, and of each kind that CLog dropped
\* the group and the local id are in two events one directly behind the other.
THEOREM LossesAreOnRecord == HandlerSpec => []LossIsOnRecord
<1>1. HandlerInit => LossInv(el)
  BY HandlerLossInit
<1>2. LossInv(el) /\ [HandlerNext]_handlerVars => LossInv(el)'
  BY HandlerNextLossStep
<1>3. LossInv(el) => LossIsOnRecord
  BY RecordOfLosses
<1> QED BY <1>1, <1>2, <1>3, PTL DEF HandlerSpec

(***************************************************************************)
(* The rules above a rule.                                                 *)
(***************************************************************************)
\* The rules below a rule end, after m of them, with one that waits for no match.
Path(id, m) ==
    /\ m \in 0..(RuleMax - 1)
    /\ \A k \in 0..m : Registered(Below(id)[k])
    /\ \A k \in 0..(m - 1) : setting[Below(id)[k]].group = MatchRule
    /\ setting[Below(id)[m]].group # MatchRule

\* The frames of a stack: the rules of one that was called are those above the rule that the frame
\* below it has come to, and the first call was for an event of another level than EH.
FrameFields == {"level", "slot", "ids", "responded"}
Listed(f) ==
    /\ DOMAIN f = FrameFields /\ f.responded \in Nat /\ f.ids \in Seq(RuleIds)
    /\ \A a \in 1..Len(f.ids) : Registered(f.ids[a])
    /\ \A a, b \in 1..Len(f.ids) : a # b => f.ids[a] # f.ids[b]
Above(f, id) == \A a \in 1..Len(f.ids) : setting[f.ids[a]].group = MatchRule /\ setting[f.ids[a]].local = id
OfEvent(f) ==
    /\ f.level \in Levels \ {"EH"} /\ f.slot \in Slots(f.level)
    /\ \A a, b \in 1..Len(f.ids) : setting[f.ids[a]].group = setting[f.ids[b]].group
Apart(f, g) == \A a \in 1..Len(f.ids), b \in 1..Len(g.ids) : f.ids[a] # g.ids[b]

Calls(s) ==
    /\ \A j \in 1..Len(s) : Listed(s[j])
    /\ \A j \in 2..Len(s) : s[j].ids # <<>> /\ Above(s[j - 1], s[j].ids[1])
    /\ \A i, j \in 1..Len(s) : i < j => Apart(s[i], s[j])
    /\ OfEvent(s[Len(s)])
    /\ Len(s) > 1 => setting[s[Len(s)].ids[1]].group # MatchRule

\* The rule that has matched can be the first of a path.
CallsOn(e) ==
    e.pc \in {"higher", "respond"} =>
        e.stack[1].ids # <<>> /\ (Len(e.stack) = 1 => setting[e.stack[1].ids[1]].group # MatchRule)

\* The rules of frame j that are still to be looked at.
Unseen(s, j) == {s[j].ids[a] : a \in (IF j = 1 THEN 1 ELSE 2)..Len(s[j].ids)}

\* What the rules that have responded have to do with the stack.
Answered(s, A) ==
    /\ \A u \in A : u \in RuleIds /\ \E m \in Nat : Path(u, m)
    /\ \A u, l \in A : l \in Chain(u) => l = u
    /\ \A j \in 1..Len(s) : \A x \in Unseen(s, j) : \A u \in A : x \notin Chain(u)
    /\ \A j \in 2..Len(s) : /\ s[j].ids[1] \notin A
                            /\ \A u \in A : s[j].ids[1] \in Chain(u) => Covered(s, j)

InEvent(e) == e.pc \in {"rules", "higher", "respond"}
TreeInv == InEvent(exec) => Calls(exec.stack) /\ CallsOn(exec) /\ Answered(exec.stack, hist.answers)

\* What a slot of a ring holds.
LevelOK(e, l) == e = NoEvent \/ e.level = l
RingLevels(log) == \A l \in Levels : \A i \in Slots(l) : LevelOK(log.ring[l][i], l)

WellFormedRules == \A id \in RuleIds : Registered(id) => WellFormed(setting[id])
-----------------------------------------------------------------------------
\* A rule that waits for a match waits for that of a number, and an unregistered rule for none.
LEMMA SettingsFacts ==
  ASSUME RulesInv, NEW id \in RuleIds
  PROVE  /\ setting[id] \in Settings \cup {NoRule}
         /\ setting[id].group = MatchRule => Registered(id) /\ setting[id].local \in Nat
<1>1. setting[id] \in Settings \cup {NoRule} /\ MatchRule \in Nat \ {NullGroup}
  BY RulesInvFacts, RulesAssumption
<1>2. NoRule.group = NullGroup
  BY DEF NoRule
<1>3. setting[id] \in Settings => setting[id].local \in Nat
  BY RulesAssumption
<1> QED BY <1>1, <1>2, <1>3 DEF Registered

\* The recursion that goes down the rules.
LEMMA BelowSteps ==
  ASSUME RulesInv, NEW id \in RuleIds
  PROVE  /\ Below(id)[0] = id
         /\ \A n \in 1..RuleMax :
              Below(id)[n] = IF HasLower(Below(id)[n - 1]) THEN setting[Below(id)[n - 1]].local ELSE RuleMax
<1> DEFINE Next1(x) == IF HasLower(x) THEN setting[x].local ELSE RuleMax
           Body(f) == [n \in 0..RuleMax |-> IF n = 0 THEN id ELSE Next1(f[n - 1])]
           below == Below(id)
           step == [i \in 1..RuleMax |-> [x \in Nat |-> Next1(x)]]
<1>1. below = CHOOSE f : f = Body(f)
  BY DEF Below, HasLower
<1>2. RuleMax \in Nat /\ id \in Nat
  BY RulesAssumption DEF RuleIds
<1>3. ASSUME NEW x \in Nat PROVE Next1(x) \in Nat
  BY <1>2, SettingsFacts DEF HasLower
<1>4. step \in [1..RuleMax -> [Nat -> Nat]]
  BY <1>3
<1>5. PICK g \in [0..RuleMax -> Nat] : Iterates(g, id, step, RuleMax)
  <2> HIDE DEF step
  <2> QED BY <1>2, <1>4, RecursionExists
<1>6. g[0] = id /\ \A i \in 1..RuleMax : g[i] = Next1(g[i - 1])
  <2>1. g[0] = id /\ \A i \in 1..RuleMax : g[i] = step[i][g[i - 1]]
    BY <1>5 DEF Iterates
  <2>2. ASSUME NEW i \in 1..RuleMax PROVE step[i][g[i - 1]] = Next1(g[i - 1])
    <3>1. i - 1 \in 0..RuleMax
      BY <1>2
    <3>2. g[i - 1] \in Nat
      BY <3>1
    <3> HIDE DEF Next1
    <3> QED BY <3>2
  <2> QED BY <2>1, <2>2
<1>7. g = Body(g)
  <2> HIDE DEF Next1
  <2>1. \A n \in 0..RuleMax : g[n] = Body(g)[n]
    <3> SUFFICES ASSUME NEW n \in 0..RuleMax PROVE g[n] = IF n = 0 THEN id ELSE Next1(g[n - 1])
      OBVIOUS
    <3>1. n = 0 \/ n \in 1..RuleMax
      BY <1>2
    <3> QED BY <1>6, <3>1
  <2> QED BY <2>1
<1> HIDE DEF below
<1>8. below = Body(below)
  <2> HIDE DEF Body
  <2> QED BY <1>1, <1>7
<1>9. below[0] = id
  BY <1>2, <1>8
<1>10. ASSUME NEW n \in 1..RuleMax PROVE below[n] = Next1(below[n - 1])
  <2>1. n \in 0..RuleMax /\ n # 0
    BY <1>2
  <2> HIDE DEF Next1
  <2> QED BY <1>8, <2>1
<1> QED BY <1>9, <1>10 DEF below

\* The rules below a rule are those of its path.
LEMMA PathChain ==
  ASSUME RulesInv, NEW id \in RuleIds, NEW m, Path(id, m)
  PROVE  \A x : x \in Chain(id) <=> \E k \in 0..m : x = Below(id)[k]
<1> DEFINE below == Below(id)
           deeper == {n \in 1..(RuleMax - 1) : \A k \in 1..n : Registered(below[k])}
<1>1. Chain(id) = {id} \cup {below[n] : n \in deeper}
  BY DEF Chain
<1>2. /\ m \in 0..(RuleMax - 1) /\ RuleMax \in Nat \ {0}
      /\ \A k \in 0..m : Registered(below[k])
      /\ setting[below[m]].group # MatchRule
  BY RulesAssumption DEF Path
<1>3. below[0] = id /\ \A n \in 1..RuleMax :
          below[n] = IF HasLower(below[n - 1]) THEN setting[below[n - 1]].local ELSE RuleMax
  BY BelowSteps
<1> HIDE DEF below
<1>4. ~Registered(below[m + 1])
  <2>1. m + 1 \in 1..RuleMax /\ (m + 1) - 1 = m
    BY <1>2
  <2>2. below[m + 1] = RuleMax
    BY <1>2, <1>3, <2>1 DEF HasLower
  <2> QED BY <1>2, <2>2 DEF Registered, RuleIds
<1>5. ASSUME NEW n \in deeper PROVE n \in 0..m
  <2>1. n \in 1..(RuleMax - 1) /\ \A k \in 1..n : Registered(below[k])
    OBVIOUS
  <2>2. ~(m + 1 \in 1..n)
    BY <1>4, <2>1
  <2> QED BY <1>2, <2>1, <2>2
<1>6. ASSUME NEW n \in 0..m PROVE n = 0 \/ n \in deeper
  <2>1. n = 0 \/ n \in 1..(RuleMax - 1)
    BY <1>2
  <2>2. \A k \in 1..n : k \in 0..m
    BY <1>2
  <2> QED BY <1>2, <2>1, <2>2
<1>7. 0 \in 0..m
  BY <1>2
<1> HIDE DEF deeper
<1>8. ASSUME NEW x PROVE x \in Chain(id) <=> \E k \in 0..m : x = below[k]
  <2>1. x \in Chain(id) <=> (x = id \/ \E n \in deeper : x = below[n])
    BY <1>1
  <2> QED BY <1>3, <1>5, <1>6, <1>7, <2>1
<1> QED BY <1>8 DEF below

\* With a rule its path has the rule below it.
LEMMA LowerInChain ==
  ASSUME RulesInv, NEW u \in RuleIds, NEW m, Path(u, m), NEW y \in Chain(u), setting[y].group = MatchRule
  PROVE  setting[y].local \in Chain(u)
<1>1. /\ m \in 0..(RuleMax - 1) /\ RuleMax \in Nat /\ 0 \in 0..m
      /\ \A k \in 0..m : Registered(Below(u)[k])
      /\ setting[Below(u)[m]].group # MatchRule
  BY RulesAssumption DEF Path
<1>2. PICK k \in 0..m : y = Below(u)[k]
  BY PathChain
<1>3. k # m
  BY <1>1, <1>2
<1>4. k + 1 \in 0..m /\ k + 1 \in 1..RuleMax /\ (k + 1) - 1 = k
  BY <1>1, <1>3
<1>5. Below(u)[k + 1] = setting[y].local
  <2>1. HasLower(y)
    BY <1>1, <1>2 DEF HasLower, Registered
  <2> QED BY <1>2, <1>4, <2>1, BelowSteps
<1> QED BY <1>4, <1>5, PathChain

\* The rules that a stack of calls has come to are the path of the topmost.
LEMMA StackPath ==
  ASSUME RulesInv, NEW s, IsSequence(s), s # <<>>, Calls(s), s[1].ids # <<>>,
         Len(s) = 1 => setting[s[1].ids[1]].group # MatchRule
  PROVE  /\ Path(s[1].ids[1], Len(s) - 1)
         /\ \A x : x \in Chain(s[1].ids[1]) <=> \E j \in 1..Len(s) : x = s[j].ids[1]
<1> DEFINE n == Len(s)
           r == s[1].ids[1]
           below == Below(r)
<1>1. n \in Nat /\ n > 0 /\ RuleMax \in Nat \ {0}
  BY StackFacts, RulesAssumption
<1>2. ASSUME NEW j \in 1..n
      PROVE  /\ s[j].ids # <<>> /\ s[j].ids \in Seq(RuleIds) /\ 1 \in 1..Len(s[j].ids)
             /\ s[j].ids[1] \in RuleIds /\ Registered(s[j].ids[1])
  <2>1. s[j].ids # <<>>
    <3>1. j = 1 \/ j \in 2..n
      BY <1>1
    <3> QED BY <3>1 DEF Calls
  <2>2. Listed(s[j])
    BY DEF Calls
  <2> DEFINE ids == s[j].ids
  <2>3. ids \in Seq(RuleIds) /\ \A a \in 1..Len(ids) : Registered(ids[a])
    BY <2>2 DEF Listed
  <2> HIDE DEF ids
  <2>4. Len(ids) \in Nat /\ Len(ids) # 0
    BY <2>1, <2>3, EmptySeq, LenProperties DEF ids
  <2>5. 1 \in 1..Len(ids)
    BY <2>4
  <2>6. Registered(ids[1])
    BY <2>3, <2>5
  <2> QED BY <2>1, <2>3, <2>5, <2>6 DEF ids, Registered
<1>3. ASSUME NEW j \in 1..n, j # n
      PROVE  setting[s[j].ids[1]].group = MatchRule /\ setting[s[j].ids[1]].local = s[j + 1].ids[1]
  <2>1. j + 1 \in 2..n /\ (j + 1) - 1 = j
    BY <1>1, <1>3
  <2>2. Above(s[j], s[j + 1].ids[1])
    BY <2>1 DEF Calls
  <2> QED BY <1>2, <2>2 DEF Above
<1>4. setting[s[n].ids[1]].group # MatchRule
  BY <1>1 DEF Calls
<1>5. n <= RuleMax
  <2> DEFINE f == [j \in 1..n |-> s[j].ids[1]]
  <2>1. f \in [1..n -> RuleIds]
    BY <1>2
  <2>2. ASSUME NEW i \in 1..n, NEW j \in 1..n, f[i] = f[j] PROVE i = j
    <3>1. ASSUME NEW a \in 1..n, NEW b \in 1..n, a < b PROVE s[a].ids[1] # s[b].ids[1]
      BY <1>2, <3>1 DEF Calls, Apart
    <3>2. i < j \/ j < i \/ i = j
      BY <1>1
    <3>3. s[i].ids[1] = s[j].ids[1]
      BY <2>2
    <3> QED BY <3>1, <3>2, <3>3
  <2> HIDE DEF f
  <2>3. f \in Injection(1..n, RuleIds)
    BY <2>1, <2>2 DEF Injection, IsInjective
  <2>4. /\ Cardinality(1..n) = n /\ Cardinality(RuleIds) = RuleMax /\ IsFiniteSet(RuleIds)
    <3>1. Cardinality(1..n) = IF 1 > n THEN 0 ELSE n - 1 + 1
      BY <1>1, FS_Interval
    <3>2. Cardinality(0..(RuleMax - 1)) = IF 0 > RuleMax - 1 THEN 0 ELSE (RuleMax - 1) - 0 + 1
      BY <1>1, FS_Interval
    <3>3. IsFiniteSet(0..(RuleMax - 1))
      BY <1>1, FS_Interval
    <3> QED BY <1>1, <3>1, <3>2, <3>3 DEF RuleIds
  <2>5. Cardinality(1..n) <= Cardinality(RuleIds)
    BY <2>3, <2>4, FS_Injection
  <2> QED BY <2>4, <2>5
<1>6. 1 \in 1..n /\ r \in RuleIds
  BY <1>1, <1>2
<1>7. below[0] = r /\ \A k \in 1..RuleMax :
          below[k] = IF HasLower(below[k - 1]) THEN setting[below[k - 1]].local ELSE RuleMax
  BY <1>6, BelowSteps
<1> HIDE DEF below
<1> DEFINE S == {k \in Nat : k < n => below[k] = s[k + 1].ids[1]}
<1>8. 0 \in S
  BY <1>1, <1>7
<1>9. ASSUME NEW k \in Nat, k \in S PROVE k + 1 \in S
  <2> SUFFICES ASSUME k + 1 < n PROVE below[k + 1] = s[(k + 1) + 1].ids[1]
    OBVIOUS
  <2>1. k + 1 \in 1..n /\ k + 1 # n /\ k + 1 \in 1..RuleMax /\ (k + 1) - 1 = k /\ k < n
    BY <1>1, <1>5
  <2>2. below[k] = s[k + 1].ids[1]
    BY <1>9, <2>1
  <2>3. HasLower(below[k]) /\ setting[below[k]].local = s[(k + 1) + 1].ids[1]
    BY <1>2, <1>3, <2>1, <2>2 DEF HasLower
  <2> QED BY <1>7, <2>1, <2>3
<1> HIDE DEF S
<1>10. ASSUME NEW k \in 0..(n - 1) PROVE k + 1 \in 1..n /\ below[k] = s[k + 1].ids[1]
  <2>1. k \in S
    BY <1>1, <1>8, <1>9, NatSetInduction
  <2> QED BY <1>1, <2>1 DEF S
<1>11. Path(r, n - 1)
  <2>1. n - 1 \in 0..(RuleMax - 1) /\ n - 1 \in 0..(n - 1) /\ (n - 1) + 1 = n
    BY <1>1, <1>5
  <2>2. \A k \in 0..(n - 1) : Registered(below[k])
    BY <1>2, <1>10
  <2>3. ASSUME NEW k \in 0..((n - 1) - 1) PROVE setting[below[k]].group = MatchRule
    <3>1. k \in 0..(n - 1) /\ k + 1 \in 1..n /\ k + 1 # n
      BY <1>1
    <3> QED BY <1>3, <1>10, <3>1
  <2>4. setting[below[n - 1]].group # MatchRule
    BY <1>4, <1>10, <2>1
  <2> QED BY <2>1, <2>2, <2>3, <2>4 DEF Path, below
<1>12. ASSUME NEW x PROVE x \in Chain(r) <=> \E j \in 1..n : x = s[j].ids[1]
  <2>1. x \in Chain(r) <=> \E k \in 0..(n - 1) : x = below[k]
    BY <1>6, <1>11, PathChain DEF below
  <2>2. ASSUME NEW j \in 1..n PROVE j - 1 \in 0..(n - 1) /\ (j - 1) + 1 = j
    BY <1>1
  <2> QED BY <1>10, <2>1, <2>2
<1> QED BY <1>11, <1>12
-----------------------------------------------------------------------------
\* A rule is among those below it.
LEMMA ChainHasIt == \A id : id \in Chain(id)
BY DEF Chain

\* The rules of a frame.
LEMMA ListedFacts ==
  ASSUME NEW f, Listed(f)
  PROVE  /\ Len(f.ids) \in Nat /\ \A a \in 1..Len(f.ids) : f.ids[a] \in RuleIds /\ Registered(f.ids[a])
         /\ f.ids # <<>> => 1 \in 1..Len(f.ids)
<1> DEFINE ids == f.ids
<1>1. ids \in Seq(RuleIds) /\ \A a \in 1..Len(ids) : Registered(ids[a])
  BY DEF Listed
<1> HIDE DEF ids
<1>2. Len(ids) \in Nat /\ (Len(ids) = 0 => ids = <<>>)
  BY <1>1, EmptySeq, LenProperties
<1>3. ids # <<>> => 1 \in 1..Len(ids)
  BY <1>2
<1>4. \A a \in 1..Len(ids) : ids[a] \in RuleIds
  BY <1>1 DEF Registered
<1> QED BY <1>1, <1>2, <1>3, <1>4 DEF ids

\* The first rule of a frame is done.
LEMMA TailListed ==
  ASSUME NEW f, Listed(f), f.ids # <<>>, NEW g, DOMAIN g = FrameFields, g.ids = Tail(f.ids), g.responded \in Nat
  PROVE  /\ Listed(g) /\ Len(g.ids) = Len(f.ids) - 1
         /\ \A a \in 1..Len(g.ids) : a + 1 \in 2..Len(f.ids) /\ g.ids[a] = f.ids[a + 1]
<1> DEFINE ids == f.ids
           rest == Tail(ids)
<1>1. /\ ids \in Seq(RuleIds) /\ \A a \in 1..Len(ids) : Registered(ids[a])
      /\ \A a, b \in 1..Len(ids) : a # b => ids[a] # ids[b]
  BY DEF Listed
<1> HIDE DEF ids
<1>2. /\ rest \in Seq(RuleIds) /\ Len(rest) = Len(ids) - 1 /\ Len(ids) \in Nat
      /\ \A a \in 1..Len(rest) : rest[a] = ids[a + 1]
  BY <1>1, HeadTailProperties, LenProperties DEF ids
<1> HIDE DEF rest
<1>3. ASSUME NEW a \in 1..Len(rest) PROVE a + 1 \in 2..Len(ids) /\ a + 1 \in 1..Len(ids)
  BY <1>2
<1>4. \A a \in 1..Len(rest) : Registered(rest[a])
  BY <1>1, <1>2, <1>3
<1>5. ASSUME NEW a \in 1..Len(rest), NEW b \in 1..Len(rest), a # b PROVE rest[a] # rest[b]
  <2>1. a + 1 # b + 1
    BY <1>2, <1>5
  <2> QED BY <1>1, <1>2, <1>3, <2>1
<1>6. g.ids = rest
  BY DEF rest, ids
<1> QED BY <1>2, <1>3, <1>4, <1>5, <1>6 DEF Listed, ids

\* The stack t is s after the first rule of its top frame.
Advanced(t, s) ==
    /\ IsSequence(t) /\ Len(t) = Len(s) /\ \A j \in 2..Len(s) : t[j] = s[j]
    /\ DOMAIN t[1] = FrameFields /\ t[1].ids = Tail(s[1].ids)
    /\ t[1].level = s[1].level /\ t[1].slot = s[1].slot
    /\ t[1].responded \in Nat /\ t[1].responded >= s[1].responded

\* The next rule is looked at.
LEMMA AdvancedCalls ==
  ASSUME NEW s, IsSequence(s), s # <<>>, Calls(s), s[1].ids # <<>>, NEW t, Advanced(t, s)
  PROVE  /\ Calls(t)
         /\ \A a \in 1..Len(t[1].ids) : a + 1 \in 2..Len(s[1].ids) /\ t[1].ids[a] = s[1].ids[a + 1]
         /\ \A j \in 1..Len(s) : s[j].responded \in Nat /\ t[j].responded \in Nat
<1>1. Len(s) \in Nat /\ Len(s) > 0 /\ 1 \in 1..Len(s) /\ Len(t) = Len(s)
  BY StackFacts DEF Advanced
<1>2. ASSUME NEW j \in 1..Len(s) PROVE Listed(s[j]) /\ (j = 1 \/ j \in 2..Len(s))
  BY <1>1 DEF Calls
<1>3. /\ Listed(t[1]) /\ Len(t[1].ids) = Len(s[1].ids) - 1
      /\ \A a \in 1..Len(t[1].ids) : a + 1 \in 2..Len(s[1].ids) /\ t[1].ids[a] = s[1].ids[a + 1]
  BY <1>1, <1>2, TailListed DEF Advanced
<1>4. \A j \in 2..Len(s) : t[j] = s[j]
  BY DEF Advanced
<1>5. \A a \in 2..Len(s[1].ids) : a \in 1..Len(s[1].ids)
  OBVIOUS
<1>6. \A j \in 1..Len(s) : \A a \in 1..Len(t[j].ids) : \E b \in 1..Len(s[j].ids) : t[j].ids[a] = s[j].ids[b]
  <2> SUFFICES ASSUME NEW j \in 1..Len(s), NEW a \in 1..Len(t[j].ids)
               PROVE  \E b \in 1..Len(s[j].ids) : t[j].ids[a] = s[j].ids[b]
    OBVIOUS
  <2>1. CASE j = 1
    BY <1>3, <1>5, <2>1
  <2>2. CASE j \in 2..Len(s)
    BY <1>4, <2>2
  <2> QED BY <1>2, <2>1, <2>2
<1>7. \A j \in 1..Len(t) : Listed(t[j])
  BY <1>1, <1>2, <1>3, <1>4
<1>8. ASSUME NEW j \in 2..Len(t) PROVE t[j].ids # <<>> /\ Above(t[j - 1], t[j].ids[1])
  <2>1. s[j].ids # <<>> /\ Above(s[j - 1], s[j].ids[1]) /\ j \in 2..Len(s) /\ j - 1 \in 1..Len(s)
    BY <1>1 DEF Calls
  <2>2. \A a \in 1..Len(t[j - 1].ids) : \E b \in 1..Len(s[j - 1].ids) : t[j - 1].ids[a] = s[j - 1].ids[b]
    BY <1>6, <2>1
  <2>3. t[j] = s[j]
    BY <1>4, <2>1
  <2> QED BY <2>1, <2>2, <2>3 DEF Above
<1>9. ASSUME NEW i \in 1..Len(t), NEW j \in 1..Len(t), i < j PROVE Apart(t[i], t[j])
  <2>1. Apart(s[i], s[j])
    BY <1>1, <1>9 DEF Calls
  <2>2. /\ \A a \in 1..Len(t[i].ids) : \E b \in 1..Len(s[i].ids) : t[i].ids[a] = s[i].ids[b]
        /\ \A a \in 1..Len(t[j].ids) : \E b \in 1..Len(s[j].ids) : t[j].ids[a] = s[j].ids[b]
    BY <1>1, <1>6
  <2> QED BY <2>1, <2>2 DEF Apart
<1>10. OfEvent(t[Len(t)]) /\ (Len(t) > 1 => setting[t[Len(t)].ids[1]].group # MatchRule)
  <2>1. OfEvent(s[Len(s)]) /\ (Len(s) > 1 => setting[s[Len(s)].ids[1]].group # MatchRule)
    BY DEF Calls
  <2>2. CASE Len(s) = 1
    <3>1. t[1].level = s[1].level /\ t[1].slot = s[1].slot
      BY DEF Advanced
    <3>2. \A a \in 1..Len(t[1].ids) : \E b \in 1..Len(s[1].ids) : t[1].ids[a] = s[1].ids[b]
      BY <1>1, <1>6
    <3>3. OfEvent(s[1])
      BY <2>1, <2>2
    <3>4. OfEvent(t[1])
      <4>1. t[1].level \in Levels \ {"EH"} /\ t[1].slot \in Slots(t[1].level)
        BY <3>1, <3>3 DEF OfEvent
      <4>2. ASSUME NEW a \in 1..Len(t[1].ids), NEW b \in 1..Len(t[1].ids)
            PROVE  setting[t[1].ids[a]].group = setting[t[1].ids[b]].group
        <5>1. PICK c \in 1..Len(s[1].ids) : t[1].ids[a] = s[1].ids[c]
          BY <3>2
        <5>2. PICK d \in 1..Len(s[1].ids) : t[1].ids[b] = s[1].ids[d]
          BY <3>2
        <5> QED BY <3>3, <5>1, <5>2 DEF OfEvent
      <4> QED BY <4>1, <4>2 DEF OfEvent
    <3> QED BY <1>1, <2>2, <3>4
  <2>3. CASE Len(s) # 1
    <3>1. t[Len(s)] = s[Len(s)]
      BY <1>1, <1>4, <2>3
    <3> QED BY <1>1, <2>1, <3>1
  <2> QED BY <2>2, <2>3
<1>11. \A j \in 1..Len(s) : s[j].responded \in Nat /\ t[j].responded \in Nat
  BY <1>1, <1>2, <1>7 DEF Listed
<1> QED BY <1>3, <1>7, <1>8, <1>9, <1>10, <1>11 DEF Calls

\* The rules that are still to be looked at are fewer, and what has responded stays.
LEMMA AdvancedUnseen ==
  ASSUME NEW s, IsSequence(s), s # <<>>, Calls(s), s[1].ids # <<>>, NEW t, Advanced(t, s)
  PROVE  /\ \A x \in Unseen(t, 1) : \E a \in 2..Len(s[1].ids) : x = s[1].ids[a]
         /\ \A j \in 2..Len(s) : Unseen(t, j) = Unseen(s, j)
         /\ \A j \in 1..Len(s) : Covered(s, j) => Covered(t, j)
<1>1. /\ Len(s) \in Nat
      /\ \A a \in 1..Len(t[1].ids) : a + 1 \in 2..Len(s[1].ids) /\ t[1].ids[a] = s[1].ids[a + 1]
      /\ \A j \in 1..Len(s) : s[j].responded \in Nat /\ t[j].responded \in Nat
  BY AdvancedCalls, StackFacts
<1>2. \A j \in 2..Len(s) : t[j] = s[j]
  BY DEF Advanced
<1>3. \A x \in Unseen(t, 1) : \E a \in 2..Len(s[1].ids) : x = s[1].ids[a]
  BY <1>1 DEF Unseen
<1>4. \A j \in 2..Len(s) : Unseen(t, j) = Unseen(s, j)
  BY <1>2 DEF Unseen
<1>5. ASSUME NEW j \in 1..Len(s), Covered(s, j) PROVE Covered(t, j)
  <2>1. PICK i \in 1..(j - 1) : s[i].responded > 0
    BY <1>5 DEF Covered
  <2>2. i \in 1..Len(s) /\ (i = 1 \/ i \in 2..Len(s))
    BY <1>1
  <2>3. t[i].responded >= s[i].responded
    <3>1. t[1].responded >= s[1].responded
      BY DEF Advanced
    <3>2. i \in 2..Len(s) => t[i].responded = s[i].responded
      BY <1>2
    <3>3. \A a, b \in Nat : a = b => a >= b
      OBVIOUS
    <3> QED BY <1>1, <2>2, <3>1, <3>2, <3>3
  <2>4. t[i].responded > 0
    <3>1. \A a, b \in Nat : a >= b /\ b > 0 => a > 0
      OBVIOUS
    <3> QED BY <1>1, <2>1, <2>2, <2>3, <3>1
  <2> QED BY <2>4 DEF Covered
<1> QED BY <1>3, <1>4, <1>5

\* A rule that does not respond.
LEMMA AdvancedAnswers ==
  ASSUME NEW s, IsSequence(s), s # <<>>, Calls(s), s[1].ids # <<>>, NEW t, Advanced(t, s),
         NEW A, Answered(s, A)
  PROVE  Answered(t, A)
<1>1. /\ Len(s) \in Nat /\ Len(t) = Len(s) /\ Len(s) > 0
      /\ \A x \in Unseen(t, 1) : \E a \in 2..Len(s[1].ids) : x = s[1].ids[a]
      /\ \A j \in 2..Len(s) : Unseen(t, j) = Unseen(s, j) /\ t[j] = s[j]
      /\ \A j \in 1..Len(s) : Covered(s, j) => Covered(t, j)
  BY AdvancedUnseen, StackFacts DEF Advanced
<1>2. \A x \in Unseen(t, 1) : x \in Unseen(s, 1)
  <2>1. \A a \in 2..Len(s[1].ids) : a \in 1..Len(s[1].ids)
    OBVIOUS
  <2> QED BY <1>1, <2>1 DEF Unseen
<1>3. ASSUME NEW j \in 1..Len(t), NEW x \in Unseen(t, j), NEW u \in A PROVE x \notin Chain(u)
  <2>1. j = 1 \/ j \in 2..Len(s)
    BY <1>1
  <2>2. x \in Unseen(s, j)
    BY <1>1, <1>2, <2>1
  <2> QED BY <1>1, <2>2 DEF Answered
<1>4. ASSUME NEW j \in 2..Len(t)
      PROVE  t[j].ids[1] \notin A /\ \A u \in A : t[j].ids[1] \in Chain(u) => Covered(t, j)
  <2>1. j \in 2..Len(s) /\ j \in 1..Len(s) /\ t[j] = s[j]
    BY <1>1
  <2> QED BY <1>1, <2>1 DEF Answered
<1> QED BY <1>3, <1>4 DEF Answered

\* A rule that responds: none of those above it has, and none of those below it will.
LEMMA ResponseAnswers ==
  ASSUME RulesInv, NEW s, IsSequence(s), s # <<>>, Calls(s), s[1].ids # <<>>,
         Len(s) = 1 => setting[s[1].ids[1]].group # MatchRule,
         NEW t, Advanced(t, s), t[1].responded > 0, NEW A, Answered(s, A)
  PROVE  Answered(t, A \cup {s[1].ids[1]})
<1> DEFINE r == s[1].ids[1]
<1>1. /\ Len(s) \in Nat /\ Len(t) = Len(s) /\ Len(s) > 0 /\ 1 \in 1..Len(s)
      /\ \A x \in Unseen(t, 1) : \E a \in 2..Len(s[1].ids) : x = s[1].ids[a]
      /\ \A j \in 2..Len(s) : Unseen(t, j) = Unseen(s, j) /\ t[j] = s[j]
  BY AdvancedUnseen, StackFacts DEF Advanced
<1>2. /\ Path(r, Len(s) - 1)
      /\ \A x : x \in Chain(r) <=> \E j \in 1..Len(s) : x = s[j].ids[1]
  BY StackPath
<1>3. Answered(t, A)
  BY AdvancedAnswers
<1>4. \A j \in 1..Len(s) : /\ Listed(s[j]) /\ s[j].ids # <<>> /\ 1 \in 1..Len(s[j].ids) /\ Len(s[j].ids) \in Nat
                           /\ s[j].ids[1] \in RuleIds
  <2>1. \A j \in 1..Len(s) : j = 1 \/ j \in 2..Len(s)
    BY <1>1
  <2>2. \A j \in 1..Len(s) : Listed(s[j]) /\ s[j].ids # <<>>
    BY <2>1 DEF Calls
  <2> QED BY <2>2, ListedFacts
<1>5. r \in Unseen(s, 1)
  BY <1>1, <1>4 DEF Unseen
<1>6. ASSUME NEW u \in A PROVE r \notin Chain(u) /\ u \notin Chain(r)
  <2>1. \A v \in A : r \notin Chain(v)
    BY <1>1, <1>5 DEF Answered
  <2>2. u # r
    BY <2>1, ChainHasIt
  <2>3. \A j \in 2..Len(s) : s[j].ids[1] # u
    BY DEF Answered
  <2>4. \A j \in 1..Len(s) : j = 1 \/ j \in 2..Len(s)
    BY <1>1
  <2> QED BY <1>2, <2>1, <2>2, <2>3, <2>4
\* What is still to be looked at is no rule that the stack has come to.
<1>7. ASSUME NEW j \in 1..Len(s), NEW a \in 2..Len(s[j].ids), NEW i \in 1..Len(s)
      PROVE  s[j].ids[a] # s[i].ids[1]
  <2>1. a \in 1..Len(s[j].ids) /\ a # 1 /\ (i < j \/ j < i \/ i = j)
    BY <1>1, <1>4
  <2>2. CASE i = j
    BY <1>4, <2>1, <2>2 DEF Listed
  <2>3. CASE i # j
    <3>1. Apart(s[i], s[j]) \/ Apart(s[j], s[i])
      BY <2>1, <2>3 DEF Calls
    <3> QED BY <1>4, <2>1, <3>1 DEF Apart
  <2> QED BY <2>2, <2>3
<1>8. ASSUME NEW j \in 1..Len(t), NEW x \in Unseen(t, j) PROVE x \notin Chain(r)
  <2>1. j = 1 \/ j \in 2..Len(s)
    BY <1>1
  <2>2. \E a \in 2..Len(s[j].ids) : x = s[j].ids[a]
    <3>1. CASE j = 1
      BY <1>1, <3>1
    <3>2. CASE j \in 2..Len(s)
      BY <1>1, <3>2 DEF Unseen
    <3> QED BY <2>1, <3>1, <3>2
  <2> QED BY <1>1, <1>2, <1>7, <2>2
<1>9. ASSUME NEW j \in 2..Len(t) PROVE t[j].ids[1] # r /\ Covered(t, j)
  <2>1. t[j] = s[j] /\ j \in 1..Len(s) /\ 1 < j /\ 1 \in 1..(j - 1)
    BY <1>1
  <2>2. Apart(s[1], s[j])
    BY <1>1, <2>1 DEF Calls
  <2>3. s[j].ids[1] # r
    BY <1>1, <1>4, <2>1, <2>2 DEF Apart
  <2> QED BY <2>1, <2>3 DEF Covered
<1>10. r \in RuleIds /\ Len(s) - 1 \in Nat
  BY <1>1, <1>4
<1> HIDE DEF r
<1> DEFINE B == A \cup {r}
<1>11. \A u \in B : u \in RuleIds /\ \E m \in Nat : Path(u, m)
  BY <1>2, <1>3, <1>10 DEF Answered
<1>12. \A u, l \in B : l \in Chain(u) => l = u
  BY <1>3, <1>6 DEF Answered
<1>13. \A j \in 1..Len(t) : \A x \in Unseen(t, j) : \A u \in B : x \notin Chain(u)
  BY <1>3, <1>8 DEF Answered
<1>14. \A j \in 2..Len(t) : /\ t[j].ids[1] \notin B
                            /\ \A u \in B : t[j].ids[1] \in Chain(u) => Covered(t, j)
  BY <1>3, <1>9 DEF Answered
<1> QED BY <1>11, <1>12, <1>13, <1>14 DEF Answered, r
-----------------------------------------------------------------------------
\* The stack t is s without its top frame.
Returned(t, s) ==
    IsSequence(t) /\ Len(t) = Len(s) - 1 /\ \A j \in 1..Len(t) : t[j] = s[j + 1]

\* A return leaves a stack of calls.
LEMMA ReturnedCalls ==
  ASSUME NEW s, IsSequence(s), Len(s) > 1, Calls(s), NEW t, Returned(t, s)
  PROVE  /\ Calls(t) /\ t # <<>> /\ t[1].ids # <<>> /\ t[1] = s[2]
         /\ Len(t) = 1 => setting[t[1].ids[1]].group # MatchRule
<1>1. /\ Len(s) \in Nat /\ Len(t) \in Nat /\ Len(t) = Len(s) - 1 /\ Len(t) > 0
      /\ \A j \in 1..Len(t) : t[j] = s[j + 1] /\ j + 1 \in 2..Len(s) /\ j + 1 \in 1..Len(s)
  BY StackFacts DEF Returned
<1>2. \A j \in 1..Len(t) : Listed(t[j])
  BY <1>1 DEF Calls
<1>3. ASSUME NEW j \in 2..Len(t) PROVE t[j].ids # <<>> /\ Above(t[j - 1], t[j].ids[1])
  <2>1. j \in 1..Len(t) /\ j - 1 \in 1..Len(t) /\ (j - 1) + 1 = j /\ j + 1 \in 2..Len(s) /\ (j + 1) - 1 = j
    BY <1>1
  <2>2. t[j] = s[j + 1] /\ t[j - 1] = s[j]
    BY <1>1, <2>1
  <2>3. s[j + 1].ids # <<>> /\ Above(s[(j + 1) - 1], s[j + 1].ids[1])
    BY <2>1 DEF Calls
  <2> QED BY <2>1, <2>2, <2>3
<1>4. ASSUME NEW i \in 1..Len(t), NEW j \in 1..Len(t), i < j PROVE Apart(t[i], t[j])
  <2>1. i + 1 < j + 1
    BY <1>1, <1>4
  <2> QED BY <1>1, <2>1 DEF Calls
<1>5. t[Len(t)] = s[Len(s)] /\ 1 \in 1..Len(t) /\ t[1] = s[2] /\ 2 \in 2..Len(s)
  <2>1. Len(t) \in 1..Len(t) /\ Len(t) + 1 = Len(s) /\ 1 \in 1..Len(t) /\ 1 + 1 = 2
    BY <1>1
  <2> QED BY <1>1, <2>1
<1>6. OfEvent(t[Len(t)]) /\ setting[t[Len(t)].ids[1]].group # MatchRule
  BY <1>5 DEF Calls
<1>7. t[1].ids # <<>>
  BY <1>5 DEF Calls
<1>8. t # <<>>
  BY <1>1, EmptySeq
<1> QED BY <1>2, <1>3, <1>4, <1>5, <1>6, <1>7, <1>8 DEF Calls

\* The rules of the frames after a return.
LEMMA ReturnedUnseen ==
  ASSUME NEW s, IsSequence(s), Len(s) > 1, NEW t, Returned(t, s)
  PROVE  /\ \A x \in Unseen(t, 1) : x = s[2].ids[1] \/ x \in Unseen(s, 2)
         /\ \A j \in 2..Len(t) : Unseen(t, j) = Unseen(s, j + 1)
<1>1. /\ Len(s) \in Nat /\ Len(t) = Len(s) - 1
      /\ \A j \in 1..Len(t) : t[j] = s[j + 1]
  BY StackFacts DEF Returned
<1>2. t[1] = s[2]
  <2>1. 1 \in 1..Len(t) /\ 1 + 1 = 2
    BY <1>1
  <2> QED BY <1>1, <2>1
<1>3. ASSUME NEW x \in Unseen(t, 1) PROVE x = s[2].ids[1] \/ x \in Unseen(s, 2)
  <2>1. PICK a \in 1..Len(t[1].ids) : x = t[1].ids[a]
    BY DEF Unseen
  <2>2. a = 1 \/ a \in 2..Len(s[2].ids)
    BY <1>2
  <2> QED BY <1>2, <2>1, <2>2 DEF Unseen
<1>4. ASSUME NEW j \in 2..Len(t) PROVE Unseen(t, j) = Unseen(s, j + 1)
  <2>1. j \in 1..Len(t) /\ j # 1 /\ j + 1 # 1
    BY <1>1
  <2> QED BY <1>1, <2>1 DEF Unseen
<1> QED BY <1>3, <1>4

\* No rule above has responded: the rule that called may.
LEMMA ReturnedAnswers ==
  ASSUME NEW s, IsSequence(s), Len(s) > 1, Calls(s), NEW t, Returned(t, s), NEW A, Answered(s, A),
         ~(s[1].responded > 0)
  PROVE  Answered(t, A)
<1>1. /\ Len(s) \in Nat /\ Len(t) = Len(s) - 1
      /\ \A j \in 1..Len(t) : t[j] = s[j + 1]
  BY StackFacts DEF Returned
<1>2. /\ \A x \in Unseen(t, 1) : x = s[2].ids[1] \/ x \in Unseen(s, 2)
      /\ \A j \in 2..Len(t) : Unseen(t, j) = Unseen(s, j + 1)
  BY ReturnedUnseen
<1>3. /\ \A j \in 1..Len(s) : \A x \in Unseen(s, j) : \A u \in A : x \notin Chain(u)
      /\ \A j \in 2..Len(s) : /\ s[j].ids[1] \notin A
                              /\ \A u \in A : s[j].ids[1] \in Chain(u) => Covered(s, j)
  BY DEF Answered
<1>4. ~Covered(s, 2) /\ 2 \in 2..Len(s) /\ 2 \in 1..Len(s)
  <2>1. \A i \in 1..(2 - 1) : i = 1
    OBVIOUS
  <2> QED BY <1>1, <2>1 DEF Covered
<1>5. ASSUME NEW j \in 1..Len(t), NEW x \in Unseen(t, j), NEW u \in A PROVE x \notin Chain(u)
  <2>1. CASE j = 1
    BY <1>2, <1>3, <1>4, <2>1
  <2>2. CASE j # 1
    <3>1. j \in 2..Len(t) /\ j + 1 \in 1..Len(s)
      BY <1>1, <2>2
    <3> QED BY <1>2, <1>3, <3>1
  <2> QED BY <2>1, <2>2
<1>6. ASSUME NEW j \in 2..Len(t)
      PROVE  t[j].ids[1] \notin A /\ \A u \in A : t[j].ids[1] \in Chain(u) => Covered(t, j)
  <2>1. t[j] = s[j + 1] /\ j + 1 \in 2..Len(s)
    BY <1>1
  <2>2. ASSUME Covered(s, j + 1) PROVE Covered(t, j)
    <3>1. PICK i \in 1..((j + 1) - 1) : s[i].responded > 0
      BY <2>2 DEF Covered
    <3>2. i # 1
      BY <3>1
    <3>3. i - 1 \in 1..(j - 1) /\ i - 1 \in 1..Len(t) /\ (i - 1) + 1 = i
      BY <1>1, <3>2
    <3>4. t[i - 1] = s[i]
      BY <1>1, <3>3
    <3> QED BY <3>1, <3>3, <3>4 DEF Covered
  <2> QED BY <1>3, <2>1, <2>2
<1> QED BY <1>5, <1>6 DEF Answered

\* A rule above has responded: the rule that called is passed over.
LEMMA ReturnedOver ==
  ASSUME NEW s, IsSequence(s), Len(s) > 1, Calls(s), NEW p, Returned(p, s), NEW t, Advanced(t, p),
         t[1].responded > 0, NEW A, Answered(s, A)
  PROVE  Answered(t, A)
<1>1. /\ Len(s) \in Nat /\ Len(p) = Len(s) - 1 /\ Len(t) = Len(p) /\ Len(p) \in Nat
      /\ \A j \in 1..Len(p) : p[j] = s[j + 1]
  BY StackFacts DEF Returned, Advanced
<1>2. Calls(p) /\ p # <<>> /\ p[1].ids # <<>> /\ p[1] = s[2] /\ IsSequence(p)
  BY ReturnedCalls DEF Returned
<1>3. \A j \in 2..Len(p) : Unseen(p, j) = Unseen(s, j + 1)
  BY ReturnedUnseen
<1>4. /\ \A x \in Unseen(t, 1) : \E a \in 2..Len(p[1].ids) : x = p[1].ids[a]
      /\ \A j \in 2..Len(p) : Unseen(t, j) = Unseen(p, j)
  BY <1>2, AdvancedUnseen
<1>5. /\ \A j \in 1..Len(s) : \A x \in Unseen(s, j) : \A u \in A : x \notin Chain(u)
      /\ \A j \in 2..Len(s) : s[j].ids[1] \notin A
  BY DEF Answered
<1>6. ASSUME NEW j \in 1..Len(t), NEW x \in Unseen(t, j), NEW u \in A PROVE x \notin Chain(u)
  <2>1. CASE j = 1
    <3>1. x \in Unseen(s, 2)
      <4>1. PICK a \in 2..Len(p[1].ids) : x = p[1].ids[a]
        BY <1>4, <2>1
      <4> QED BY <1>2, <4>1 DEF Unseen
    <3>2. 2 \in 1..Len(s)
      BY <1>1
    <3> QED BY <1>5, <3>1, <3>2
  <2>2. CASE j # 1
    <3>1. j \in 2..Len(p) /\ j + 1 \in 1..Len(s)
      BY <1>1, <2>2
    <3> QED BY <1>3, <1>4, <1>5, <3>1
  <2> QED BY <2>1, <2>2
<1>7. ASSUME NEW j \in 2..Len(t) PROVE t[j].ids[1] \notin A /\ Covered(t, j)
  <2>1. j \in 2..Len(p) /\ j \in 1..Len(p) /\ j + 1 \in 2..Len(s) /\ 1 \in 1..(j - 1)
    BY <1>1
  <2>2. t[j] = s[j + 1]
    BY <1>1, <2>1 DEF Advanced
  <2> QED BY <1>5, <2>1, <2>2 DEF Covered
<1> QED BY <1>6, <1>7 DEF Answered

\* The stack t is s with a frame of the rules above the rule that s has come to.
Called(t, s) ==
    /\ IsSequence(t) /\ Len(t) = Len(s) + 1 /\ \A j \in 2..(Len(s) + 1) : t[j] = s[j - 1]
    /\ Listed(t[1]) /\ Above(t[1], s[1].ids[1])

\* A call makes a stack of calls: no rule of the new frame is in another.
LEMMA CalledCalls ==
  ASSUME NEW s, IsSequence(s), s # <<>>, Calls(s), s[1].ids # <<>>,
         Len(s) = 1 => setting[s[1].ids[1]].group # MatchRule,
         NEW t, Called(t, s)
  PROVE  Calls(t) /\ t[2] = s[1]
<1> DEFINE r == s[1].ids[1]
<1>0. \A n \in Nat : n > 0 => n = 1 \/ n > 1
  OBVIOUS
<1>1. /\ Len(s) \in Nat /\ Len(s) > 0 /\ Len(t) = Len(s) + 1 /\ 1 \in 1..Len(s)
      /\ \A j \in 2..(Len(s) + 1) : t[j] = s[j - 1] /\ j - 1 \in 1..Len(s)
      /\ Listed(t[1]) /\ Above(t[1], r)
  BY StackFacts DEF Called
<1>2. \A j \in 1..Len(t) : j = 1 \/ (j \in 2..(Len(s) + 1) /\ j - 1 \in 1..Len(s))
  BY <1>1
<1>3. \A j \in 1..Len(s) : Listed(s[j]) /\ (j = 1 \/ j \in 2..Len(s))
  BY <1>1 DEF Calls
<1>4. t[2] = s[1]
  <2>1. 2 \in 2..(Len(s) + 1) /\ 2 - 1 = 1
    BY <1>1
  <2> QED BY <1>1, <2>1
<1>5. \A j \in 1..Len(t) : Listed(t[j])
  BY <1>1, <1>2, <1>3
<1>6. ASSUME NEW j \in 2..Len(t) PROVE t[j].ids # <<>> /\ Above(t[j - 1], t[j].ids[1])
  <2>1. CASE j = 2
    BY <1>1, <1>4, <2>1
  <2>2. CASE j # 2
    <3>1. j \in 2..(Len(s) + 1) /\ j - 1 \in 2..(Len(s) + 1) /\ j - 1 \in 2..Len(s)
      BY <1>1, <2>2
    <3>2. t[j] = s[j - 1] /\ t[j - 1] = s[(j - 1) - 1]
      BY <1>1, <3>1
    <3> QED BY <3>1, <3>2 DEF Calls
  <2> QED BY <2>1, <2>2
<1>7. ASSUME NEW j \in 1..Len(s) PROVE Apart(t[1], s[j])
  <2> SUFFICES ASSUME NEW a \in 1..Len(t[1].ids), NEW b \in 1..Len(s[j].ids) PROVE t[1].ids[a] # s[j].ids[b]
    BY DEF Apart
  <2>1. setting[t[1].ids[a]].group = MatchRule /\ setting[t[1].ids[a]].local = r
    BY <1>1 DEF Above
  <2>2. CASE j = Len(s)
    <3>1. setting[s[j].ids[1]].group # MatchRule /\ 1 \in 1..Len(s[j].ids)
      <4>1. s[j].ids # <<>>
        BY <1>3 DEF Calls
      <4>2. Len(s) = 1 \/ Len(s) > 1
        BY <1>0, <1>1
      <4> QED BY <1>3, <2>2, <4>1, <4>2, ListedFacts DEF Calls
    <3>2. setting[s[j].ids[b]].group = setting[s[j].ids[1]].group
      BY <2>2, <3>1 DEF Calls, OfEvent
    <3> QED BY <2>1, <3>1, <3>2
  <2>3. CASE j # Len(s)
    <3>1. j + 1 \in 2..Len(s) /\ (j + 1) - 1 = j /\ j + 1 \in 1..Len(s) /\ 1 < j + 1
      BY <1>1, <2>3
    <3>2. s[j + 1].ids # <<>> /\ Above(s[(j + 1) - 1], s[j + 1].ids[1]) /\ Apart(s[1], s[j + 1])
      BY <1>1, <3>1 DEF Calls
    <3>3. setting[s[j].ids[b]].local = s[j + 1].ids[1]
      BY <3>1, <3>2 DEF Above
    <3>4. r # s[j + 1].ids[1]
      <4>1. 1 \in 1..Len(s[1].ids) /\ 1 \in 1..Len(s[j + 1].ids)
        BY <1>1, <1>3, <3>1, <3>2, ListedFacts
      <4> QED BY <3>2, <4>1 DEF Apart
    <3> QED BY <2>1, <3>3, <3>4
  <2> QED BY <2>2, <2>3
<1>8. ASSUME NEW i \in 1..Len(t), NEW j \in 1..Len(t), i < j PROVE Apart(t[i], t[j])
  <2>1. j \in 2..(Len(s) + 1) /\ j - 1 \in 1..Len(s) /\ t[j] = s[j - 1]
    BY <1>1, <1>8
  <2>2. CASE i = 1
    BY <1>7, <2>1, <2>2
  <2>3. CASE i # 1
    <3>1. t[i] = s[i - 1] /\ i - 1 \in 1..Len(s) /\ i - 1 < j - 1
      BY <1>1, <1>2, <1>8, <2>3
    <3> QED BY <2>1, <3>1 DEF Calls
  <2> QED BY <2>2, <2>3
<1>9. OfEvent(t[Len(t)]) /\ setting[t[Len(t)].ids[1]].group # MatchRule
  <2>1. Len(t) \in 2..(Len(s) + 1) /\ Len(t) - 1 = Len(s)
    BY <1>1
  <2>2. t[Len(t)] = s[Len(s)]
    BY <1>1, <2>1
  <2>3. Len(s) = 1 \/ Len(s) > 1
    BY <1>0, <1>1
  <2> QED BY <2>2, <2>3 DEF Calls
<1> QED BY <1>4, <1>5, <1>6, <1>8, <1>9 DEF Calls

\* No rule above a rule that may still respond has responded.
LEMMA CalledAnswers ==
  ASSUME RulesInv, NEW s, IsSequence(s), s # <<>>, Calls(s), s[1].ids # <<>>,
         Len(s) = 1 => setting[s[1].ids[1]].group # MatchRule,
         NEW t, Called(t, s), NEW A, Answered(s, A)
  PROVE  Answered(t, A)
<1> DEFINE r == s[1].ids[1]
<1>1. /\ Len(s) \in Nat /\ Len(s) > 0 /\ Len(t) = Len(s) + 1 /\ 1 \in 1..Len(s)
      /\ \A j \in 2..(Len(s) + 1) : t[j] = s[j - 1] /\ j - 1 \in 1..Len(s)
      /\ Above(t[1], r) /\ Listed(s[1]) /\ t[2] = s[1]
  BY StackFacts, CalledCalls DEF Called, Calls
<1>2. /\ \A u \in A : u \in RuleIds /\ \E m \in Nat : Path(u, m)
      /\ \A j \in 1..Len(s) : \A x \in Unseen(s, j) : \A u \in A : x \notin Chain(u)
      /\ \A j \in 2..Len(s) : /\ s[j].ids[1] \notin A
                              /\ \A u \in A : s[j].ids[1] \in Chain(u) => Covered(s, j)
  BY DEF Answered
<1>3. r \in Unseen(s, 1)
  <2>1. 1 \in 1..Len(s[1].ids)
    BY <1>1, ListedFacts
  <2> QED BY <2>1 DEF Unseen
<1>4. ASSUME NEW x \in Unseen(t, 1), NEW u \in A PROVE x \notin Chain(u)
  <2>1. setting[x].group = MatchRule /\ setting[x].local = r
    BY <1>1 DEF Unseen, Above
  <2>2. r \notin Chain(u)
    BY <1>1, <1>2, <1>3
  <2>3. PICK m \in Nat : Path(u, m)
    BY <1>2
  <2> QED BY <1>2, <2>1, <2>2, <2>3, LowerInChain
<1>5. ASSUME NEW j \in 2..Len(t), NEW x \in Unseen(t, j) PROVE x \in Unseen(s, j - 1)
  <2>1. t[j] = s[j - 1] /\ j # 1 /\ j \in 2..(Len(s) + 1)
    BY <1>1
  <2>2. PICK a \in 2..Len(t[j].ids) : x = t[j].ids[a]
    BY <2>1 DEF Unseen
  <2>3. a \in 1..Len(s[j - 1].ids) /\ a \in 2..Len(s[j - 1].ids)
    BY <2>1
  <2> QED BY <2>1, <2>2, <2>3 DEF Unseen
<1>6. ASSUME NEW j \in 1..Len(t), NEW x \in Unseen(t, j), NEW u \in A PROVE x \notin Chain(u)
  <2>1. CASE j = 1
    BY <1>4, <2>1
  <2>2. CASE j # 1
    <3>1. j \in 2..Len(t) /\ j - 1 \in 1..Len(s)
      BY <1>1, <2>2
    <3> QED BY <1>2, <1>5, <3>1
  <2> QED BY <2>1, <2>2
<1>7. ASSUME NEW j \in 2..Len(t)
      PROVE  t[j].ids[1] \notin A /\ \A u \in A : t[j].ids[1] \in Chain(u) => Covered(t, j)
  <2>1. CASE j = 2
    <3>1. \A u \in A : r \notin Chain(u)
      BY <1>1, <1>2, <1>3
    <3>2. r \notin A
      BY <3>1, ChainHasIt
    <3> QED BY <1>1, <2>1, <3>1, <3>2
  <2>2. CASE j # 2
    <3>1. t[j] = s[j - 1] /\ j - 1 \in 2..Len(s)
      BY <1>1, <2>2
    <3>2. ASSUME Covered(s, j - 1) PROVE Covered(t, j)
      <4>1. PICK i \in 1..((j - 1) - 1) : s[i].responded > 0
        BY <3>2 DEF Covered
      <4>2. i + 1 \in 2..(Len(s) + 1) /\ i + 1 \in 1..(j - 1) /\ (i + 1) - 1 = i
        BY <1>1
      <4>3. t[i + 1] = s[i]
        BY <1>1, <4>2
      <4> QED BY <4>1, <4>2, <4>3 DEF Covered
    <3> QED BY <1>2, <3>1, <3>2
  <2> QED BY <2>1, <2>2
<1>8. \A u, l \in A : l \in Chain(u) => l = u
  BY DEF Answered
<1> QED BY <1>2, <1>6, <1>7, <1>8 DEF Answered

\* The stack of the first call.
LEMMA FirstCall ==
  ASSUME NEW f, Listed(f), OfEvent(f)
  PROVE  Calls(<<f>>) /\ Answered(<<f>>, {})
<1> DEFINE s == <<f>>
<1>1. Len(s) = 1 /\ s[1] = f
  BY OneFrame
<1> HIDE DEF s
<1>2. \A j \in 1..Len(s) : j = 1
  BY <1>1
<1>3. /\ ~(Len(s) > 1) /\ \A j \in 2..Len(s) : FALSE
      /\ \A i, j \in 1..Len(s) : ~(i < j)
  BY <1>1
<1>4. Calls(s)
  BY <1>1, <1>2, <1>3 DEF Calls
<1>5. Answered(s, {})
  BY <1>3 DEF Answered
<1> QED BY <1>4, <1>5 DEF s
-----------------------------------------------------------------------------
\* The rules that a search finds wait for the event, and are found once.
LEMMA FoundRules ==
  ASSUME RulesInv, NEW f
  PROVE  /\ RulesFor(f) \in Seq(RuleIds)
         /\ \A a \in 1..Len(RulesFor(f)) :
               Registered(RulesFor(f)[a]) /\ SameEvent(setting[RulesFor(f)[a]], f)
         /\ \A a, b \in 1..Len(RulesFor(f)) : a # b => RulesFor(f)[a] # RulesFor(f)[b]
<1> DEFINE first == BinarySearch(f)
           run == {m \in 0..MaxDuplicates :
                     /\ m <= Len(sorted) - first + 1
                     /\ \A k \in 0..(m - 1) : SameEvent(sorted[first + k], f)}
           length == CHOOSE m \in run : \A other \in run : other <= m
<1>1. /\ Len(sorted) \in Nat /\ first \in 0..Len(sorted) /\ MaxDuplicates \in Nat
      /\ \A i \in 1..Len(sorted) : sorted[i].id \in RuleIds /\ Registered(sorted[i].id)
                                   /\ SameEvent(setting[sorted[i].id], sorted[i])
      /\ \A i, j \in 1..Len(sorted) : sorted[i].id = sorted[j].id => i = j
  BY RulesInvFacts, SearchInside, RulesAssumption DEF RulesInv, IndexMatchesRules, IndexEntry
<1>2. RulesFor(f) = IF first = 0 THEN <<>> ELSE [k \in 1..length |-> sorted[first + k - 1].id]
  BY DEF RulesFor
<1> HIDE DEF first
<1>3. CASE first = 0
  <2>1. RulesFor(f) = <<>> /\ Len(RulesFor(f)) = 0 /\ RulesFor(f) \in Seq(RuleIds)
    BY <1>2, <1>3, EmptySeq
  <2> QED BY <2>1
<1>4. CASE first # 0
  <2>1. length \in run
    <3> DEFINE S == {d \in Nat : \E m \in run : d = MaxDuplicates - m}
    <3>1. 0 \in run /\ run \subseteq 0..MaxDuplicates
      BY <1>1
    <3> HIDE DEF run
    <3>2. S \in SUBSET Nat /\ MaxDuplicates \in S
      BY <1>1, <3>1
    <3>3. Min(S) \in S /\ \A x \in S : Min(S) <= x
      <4> HIDE DEF S
      <4> QED BY <3>2, MinOfNats
    <3>4. PICK m \in run : Min(S) = MaxDuplicates - m
      BY <3>3
    <3>5. \A other \in run : MaxDuplicates - other \in S
      BY <1>1, <3>1
    <3> HIDE DEF S
    <3>6. \A other \in run : other <= m
      BY <1>1, <3>1, <3>3, <3>4, <3>5
    <3> QED BY <3>6
  <2>2. /\ length \in Nat /\ first \in Nat /\ first >= 1
        /\ \A k \in 1..length : first + k - 1 \in 1..Len(sorted)
        /\ \A k \in 1..length : SameEvent(sorted[first + k - 1], f)
    <3>1. /\ length \in 0..MaxDuplicates /\ length <= Len(sorted) - first + 1
          /\ \A k \in 0..(length - 1) : SameEvent(sorted[first + k], f)
      BY <2>1
    <3> HIDE DEF length
    <3>2. \A k \in 1..length : k - 1 \in 0..(length - 1)
      BY <1>1, <3>1
    <3>3. \A k \in 1..length : SameEvent(sorted[first + (k - 1)], f)
      BY <3>1, <3>2
    <3>4. \A k \in 1..length : first + k - 1 \in 1..Len(sorted)
      BY <1>1, <1>4, <3>1
    <3> QED BY <1>1, <1>4, <3>1, <3>3, <3>4
  <2> HIDE DEF length, run
  <2> DEFINE ids == RulesFor(f)
  <2>3. ids = [k \in 1..length |-> sorted[first + k - 1].id]
    BY <1>2, <1>4
  <2> HIDE DEF ids
  <2>4. /\ ids \in Seq(RuleIds) /\ Len(ids) = length
        /\ \A k \in 1..length : ids[k] = sorted[first + k - 1].id
    BY <1>1, <2>2, <2>3
  <2>5. ASSUME NEW a \in 1..length PROVE Registered(ids[a]) /\ SameEvent(setting[ids[a]], f)
    BY <1>1, <2>2, <2>4 DEF SameEvent
  <2>6. ASSUME NEW a \in 1..length, NEW b \in 1..length, a # b PROVE ids[a] # ids[b]
    <3>1. first + a - 1 # first + b - 1
      BY <2>2, <2>6
    <3> QED BY <1>1, <2>2, <2>4, <3>1
  <2> QED BY <2>4, <2>5, <2>6 DEF ids
<1> QED BY <1>3, <1>4

\* The frame of an event whose rules are looked up.
LEMMA FoundFrame ==
  ASSUME RulesInv, NEW level, NEW slot, NEW e, NEW f,
         f = [level |-> level, slot |-> slot, ids |-> RulesFor(e), responded |-> 0]
  PROVE  /\ Listed(f) /\ f.level = level /\ f.slot = slot
         /\ \A a \in 1..Len(f.ids) : SameEvent(setting[f.ids[a]], e)
<1> DEFINE ids == RulesFor(e)
<1>1. /\ DOMAIN f = FrameFields /\ f.responded = 0 /\ f.ids = ids /\ f.level = level /\ f.slot = slot
  BY DEF FrameFields
<1>2. /\ ids \in Seq(RuleIds)
      /\ \A a \in 1..Len(ids) : Registered(ids[a]) /\ SameEvent(setting[ids[a]], e)
      /\ \A a, b \in 1..Len(ids) : a # b => ids[a] # ids[b]
  BY FoundRules
<1> HIDE DEF ids
<1> QED BY <1>1, <1>2 DEF Listed
-----------------------------------------------------------------------------
\* Every level has stored events of its own.
StoredLevels(log) == \A l \in Levels : \A k \in 1..Len(log.stored[l]) : log.stored[l][k].level = l

LEMMA RingHasLevels ==
  ASSUME NEW log, LogInv(log), StoredLevels(log), NEW l \in Levels \ {"EH"}, NEW i \in Slots(l)
  PROVE  log.ring[l][i].level # "EH"
<1> DEFINE c == TLogCapacity[l]
           w == log.wp[l]
           n == IF i < w THEN w - 1 - i ELSE w - 1 - i + c
           s == log.stored[l]
<1>1. c \in Nat \ {0} /\ w \in 0..(c - 1) /\ i \in 0..(c - 1) /\ Len(s) \in Nat
  BY LevelsFacts, LogInvFacts DEF Slots
<1>2. RingHolds(log.ring[l], w, s, c)
  BY LogInvFacts DEF TlogOK
<1>3. \A k \in 1..Len(s) : s[k].level = l
  BY DEF StoredLevels
<1>4. NoEvent.level = "HIGH"
  BY DEF NoEvent, Event
<1> HIDE DEF c, w, s
<1>5. n \in 0..(c - 1)
  BY <1>1
<1>6. (w - 1 - n + c) % c = IF n < w THEN w - 1 - n ELSE (w - 1 - n) + c
  <2> HIDE DEF n
  <2> QED BY <1>1, <1>5, SlotIs
<1>7. (IF n < w THEN w - 1 - n ELSE (w - 1 - n) + c) = i
  BY <1>1
<1> HIDE DEF n
<1>8. log.ring[l][i] = IF n < Len(s) THEN s[Len(s) - n] ELSE NoEvent
  BY <1>2, <1>5, <1>6, <1>7 DEF RingHolds
<1>9. n < Len(s) => Len(s) - n \in 1..Len(s)
  BY <1>1, <1>5
<1> QED BY <1>3, <1>4, <1>8, <1>9

\* Recording keeps it.
LEMMA RecordsLevels ==
  ASSUME NEW log, LogInv(log), StoredLevels(log), NEW new, Records(new, log)
  PROVE  StoredLevels(new)
<1> SUFFICES ASSUME NEW l \in Levels, NEW k \in 1..Len(new.stored[l]) PROVE new.stored[l][k].level = l
  BY DEF StoredLevels
<1>1. Continues(new.stored[l], log.stored[l]) /\ FreshEvents(new, log, l)
  BY DEF Records, Grown
<1>2. Len(log.stored[l]) \in Nat /\ Len(new.stored[l]) \in Nat
  BY <1>1, StackFacts DEF Continues
<1>3. k \in 1..Len(log.stored[l]) \/ k \in (Len(log.stored[l]) + 1)..Len(new.stored[l])
  BY <1>2
<1> QED BY <1>1, <1>3 DEF StoredLevels, Continues, FreshEvents

\* So do the commands of the logger.
LEMMA CommandLevels ==
  ASSUME LogInv(el), StoredLevels(el), LoggerCommand(EventGroups, Levels)
  PROVE  StoredLevels(el')
<1>1. /\ \A l \in Levels : Initialized.stored[l] = <<>>
      /\ IsLog(Initialized) /\ IsLog(el) /\ DOMAIN el.stored = Levels
  BY InitializedFields DEF LogInv, TlogOK
<1>2. /\ \A log, level : ClearedTlog(log, level).stored = [log.stored EXCEPT ![level] = <<>>] \/ ~IsLog(log)
      /\ \A log, level : ClearedClog(log, level).stored = log.stored \/ ~IsLog(log)
      /\ \A log, level : (IsLog(ClearedTlog(log, level)) /\ IsLog(ClearedClog(log, level))) \/ ~IsLog(log)
      /\ \A log : Incomplete(log).stored = log.stored \/ ~IsLog(log)
  BY DEF IsLog, LogFields, ClearedTlog, ClearedClog, Incomplete
<1>3. \/ el'.stored = el.stored \/ el'.stored = Initialized.stored
      \/ \E level \in Levels : el'.stored = [el.stored EXCEPT ![level] = <<>>]
  <2>1. CASE ClearingCommand
    BY <1>1, <2>1 DEF ClearingCommand, InitializeLogger, Reinitialized, ClearLogAll, ClearStatistics,
                      ClearedStatistics, IsLog, LogFields
  <2>2. CASE KeepingCommand(EventGroups, Levels)
    <3>1. CASE \E level \in Levels : ClearLogByErrLevel(level) \/ ClearTlog(level) \/ ClearClog(level)
      <4> HIDE DEF IsLog
      <4> QED BY <1>1, <1>2, <3>1 DEF ClearLogByErrLevel, ClearTlog, ClearClog
    <3>2. CASE ~\E level \in Levels : ClearLogByErrLevel(level) \/ ClearTlog(level) \/ ClearClog(level)
      BY <1>1, <2>2, <3>2 DEF KeepingCommand, LoggingCommand, SetLogging, SetOverwriteAll, SetOverwrite,
                              IsLog, LogFields
    <3> QED BY <3>1, <3>2
  <2> QED BY <2>1, <2>2 DEF LoggerCommand
<1>4. ASSUME NEW l \in Levels PROVE el'.stored[l] = el.stored[l] \/ el'.stored[l] = <<>>
  BY <1>1, <1>3
<1> QED BY <1>4, NoFrame DEF StoredLevels
-----------------------------------------------------------------------------
\* The search for the oldest event finds a slot of a level other than EH.
SeenTyped == eh.seen \in [Levels -> Int]
ScanIn(s) ==
    /\ ScanOK(s) /\ StoredLevels(s.log) /\ s.seen \in [Levels -> Int]
    /\ s.oldest = <<>> \/ \E l \in Levels \ {"EH"} : \E slot \in Slots(l) : s.oldest = <<l, slot>>

LEMMA ScannedIn ==
  ASSUME NEW s, ScanIn(s), NEW level
  PROVE  ScanIn(Scanned(s, level))
<1>1. CASE level \notin CheckedLevels \/ s.log.count[level] <= s.seen[level]
  BY <1>1 DEF Scanned
<1>2. CASE level \in CheckedLevels /\ ~(s.log.count[level] <= s.seen[level])
  <2> DEFINE g == GivenUp(s, level)
             drop == (s.log.count[level] - s.seen[level]) - (TLogCapacity[level] \div 2)
             with == WithOldestOf(g, level)
             slot == OldestSlot(g.log, g.seen, level)
             lost == LossRecorded(s.log)
  <2>1. /\ level \in Levels \ {"EH"} /\ "HIGH" \in Levels /\ TLogCapacity[level] \in Nat \ {0}
        /\ DOMAIN s = ScanFields /\ LogInv(s.log) /\ s.log.number \in Nat
        /\ s.log.count[level] \in Nat /\ s.seen[level] \in Int
    BY <1>2, LevelsFacts, LogInvFacts DEF CheckedLevels, ScanIn, ScanOK, CountersOK
  <2>2. LogInv(lost) /\ StoredLevels(lost)
    <3>1. Records(lost, s.log)
      BY <2>1, RecordedRecords DEF LossRecorded, RecordError
    <3> QED BY <2>1, <3>1, RecordsLevels DEF Records, ScanIn
  <2>3. g = s \/ (/\ DOMAIN g = ScanFields /\ g.log = lost /\ g.oldest = s.oldest
                  /\ g.seen = [s.seen EXCEPT ![level] = @ + drop])
    <3> HIDE DEF lost
    <3> QED BY <2>1 DEF GivenUp, lost, ScanFields
  <2>4. drop \in Int
    BY <2>1
  <2> HIDE DEF drop, lost, g
  <2>5. ScanIn(g)
    BY <2>1, <2>2, <2>3, <2>4 DEF ScanIn, ScanOK
  <2>6. slot \in Slots(level)
    <3> DEFINE c == TLogCapacity[level]
               n == g.log.count[level] - g.seen[level] - 1
               w == g.log.wp[level]
    <3>1. c \in Nat \ {0} /\ n \in Int /\ w \in Int
      BY <2>1, <2>5, LogInvFacts DEF ScanIn, ScanOK, Slots
    <3>2. slot = IF n >= c THEN 0 ELSE (w - 1 - n + c) % c
      BY DEF OldestSlot, SlotFromLatest
    <3> HIDE DEF c, n, w, slot
    <3>3. \A a \in Int : a % c \in 0..(c - 1)
      BY <3>1
    <3>4. w - 1 - n + c \in Int /\ 0 \in 0..(c - 1)
      BY <3>1
    <3> QED BY <3>2, <3>3, <3>4 DEF Slots, c
  <2>7. \/ with = g
        \/ DOMAIN with = ScanFields /\ with.log = g.log /\ with.seen = g.seen /\ with.oldest = <<level, slot>>
    <3> HIDE DEF slot
    <3> QED BY <2>5 DEF WithOldestOf, ScanIn, ScanOK, ScanFields, slot
  <2> HIDE DEF with, slot
  <2>8. ScanIn(with)
    BY <2>1, <2>5, <2>6, <2>7 DEF ScanIn, ScanOK
  <2> QED BY <1>2, <2>8 DEF Scanned, with, g
<1> QED BY <1>1, <1>2

LEMMA ScanFindsSlot ==
  ASSUME LogInv(el), StoredLevels(el), SeenTyped
  PROVE  ScanIn(Scan)
<1> DEFINE s1 == Scanned(ScanStart, "HIGH")
           s2 == Scanned(s1, "MIDDLE")
           s3 == Scanned(s2, "LOW")
           s4 == Scanned(s3, "EL")
           s5 == Scanned(s4, "EH")
<1>1. ScanIn(ScanStart)
  BY DEF ScanIn, ScanOK, ScanStart, ScanFields, SeenTyped
<1>2. Scan = s5
  BY ScanIsFiveSteps
<1>3. ScanIn(s1)
  BY <1>1, ScannedIn
<1> HIDE DEF s1
<1>4. ScanIn(s2)
  BY <1>3, ScannedIn
<1> HIDE DEF s2
<1>5. ScanIn(s3)
  BY <1>4, ScannedIn
<1> HIDE DEF s3
<1>6. ScanIn(s4)
  BY <1>5, ScannedIn
<1> HIDE DEF s4
<1>7. ScanIn(s5)
  BY <1>6, ScannedIn
<1> QED BY <1>2, <1>7

\* Every step keeps the levels, and the counters of the handler are numbers.
LEMMA LevelsNext ==
  ASSUME SeenInv, StoredLevels(el), SeenTyped, [HandlerNext]_handlerVars
  PROVE  StoredLevels(el') /\ SeenTyped'
<1>1. LogInv(el) /\ el.number \in Nat /\ DOMAIN eh = EhFields /\ {"HIGH", "EH"} \subseteq Levels
  BY LevelsFacts DEF SeenInv, LogInv, CountersOK
<1>2. \A log : LogInv(log) => log.count \in [Levels -> Int]
  BY DEF LogInv, CountersOK
<1>3. /\ \A log : eh' = Matched(log) => eh'.seen = log.count
      /\ \A log, a, b : eh' = [Matched(log) EXCEPT !.maxResponse = a, !.maxCheck = b, !.logWp = 0]
            => eh'.seen = log.count
  BY <1>1 DEF Matched, EhFields
<1>4. LogInv(el')
  BY <1>1, HandlerNextLogStep
<1>5. \A group, local, time : \A level \in Levels : Records(Recorded(el, group, local, level, time), el)
  BY <1>1, RecordedRecords
<1>6. CASE /\ el' = el \/ LoggerCommand(EventGroups, Levels) \/ Records(el', el)
           /\ eh'.seen \in {eh.seen, el.count, el'.count}
  <2>1. SeenTyped'
    BY <1>1, <1>2, <1>4, <1>6 DEF SeenTyped
  <2>2. CASE el' = el
    BY <2>1, <2>2 DEF StoredLevels
  <2> QED BY <1>1, <1>6, <2>1, <2>2, CommandLevels, RecordsLevels
<1>0. \A f \in [Levels -> Int], n \in Int : \A l : [f EXCEPT ![l] = f[l] + n] \in [Levels -> Int]
  <2> SUFFICES ASSUME NEW f \in [Levels -> Int], NEW l, NEW n \in Int
               PROVE  [f EXCEPT ![l] = f[l] + n] \in [Levels -> Int]
    OBVIOUS
  <2>1. \A k \in Levels : f[k] + n \in Int
    OBVIOUS
  <2> QED BY <2>1
<1> HIDE DEF LogInv, SeenTyped
<1>7. CASE NextEvent
  <2>1. PICK event : el' = Scan.log /\ eh' = [eh EXCEPT !.seen = [Scan.seen EXCEPT ![event.level] = @ + 1],
                                                        !.total = Scan.total + 1]
    BY <1>7 DEF NextEvent
  <2>2. eh'.seen = [Scan.seen EXCEPT ![event.level] = @ + 1]
    BY <1>1, <2>1 DEF EhFields
  <2>3. StoredLevels(Scan.log) /\ Scan.seen \in [Levels -> Int]
    BY <1>1, ScanFindsSlot DEF ScanIn
  <2>4. eh'.seen \in [Levels -> Int]
    <3> DEFINE f == Scan.seen
               t == eh'.seen
               l == event.level
    <3>1. f \in [Levels -> Int] /\ t = [f EXCEPT ![l] = f[l] + 1]
      BY <2>2, <2>3
    <3> HIDE DEF f, t, l
    <3>2. t \in [Levels -> Int]
      BY <1>0, <3>1
    <3> QED BY <3>2 DEF t
  <2> HIDE DEF StoredLevels
  <2> QED BY <2>1, <2>3, <2>4 DEF SeenTyped
<1>8. CASE HigherIsAsked
  <2>1. el' = el /\ eh' = [eh EXCEPT !.seen["EH"] = @ + Delta("EH"), !.total = @ + Delta("EH")]
    BY <1>8 DEF HigherIsAsked
  <2>2. Delta("EH") \in Int
    BY <1>1, <1>2 DEF Delta, SeenTyped
  <2>3. eh'.seen = [eh.seen EXCEPT !["EH"] = @ + Delta("EH")]
    BY <1>1, <2>1 DEF EhFields
  <2>4. eh'.seen \in [Levels -> Int]
    <3> DEFINE f == eh.seen
               t == eh'.seen
               n == Delta("EH")
    <3>1. f \in [Levels -> Int] /\ t = [f EXCEPT !["EH"] = f["EH"] + n] /\ n \in Int
      BY <2>2, <2>3 DEF SeenTyped
    <3> HIDE DEF f, t, n
    <3>2. t \in [Levels -> Int]
      BY <1>0, <3>1
    <3> QED BY <3>2 DEF t
  <2> QED BY <2>1, <2>4 DEF SeenTyped, StoredLevels
<1>9. CASE \E outcome : Respond(outcome)
  <2>1. PICK outcome : Respond(outcome)
    BY <1>9
  <2>2. eh'.seen = eh.seen
    BY <1>1, <2>1 DEF Respond, EhFields
  <2> QED BY <1>1, <1>6, <2>1, <2>2, RespondRecords
<1>10. CASE HandlerStep /\ ~NextEvent /\ ~HigherIsAsked /\ ~\E outcome : Respond(outcome)
  <2>1. el' = el \/ \E group, local, time : \E level \in Levels : el' = Recorded(el, group, local, level, time)
    BY <1>1, <1>10 DEF HandlerStep, Execute, ExecuteDisagrees, ExecuteEnds, RuleIsStrange, RuleIsSkipped,
       RuleCounts, RuleMatches, HigherIsRefused, ReturnToLower, ReturnToRespond, ReturnToExecute, RecordError
  <2>2. eh' = eh \/ eh' = Matched(el')
    BY <1>10 DEF HandlerStep, Execute, ExecuteDisagrees, ExecuteEnds, RuleIsStrange, RuleIsSkipped,
       RuleCounts, RuleMatches, HigherIsRefused, ReturnToLower, ReturnToRespond, ReturnToExecute
  <2> QED BY <1>3, <1>5, <1>6, <2>1, <2>2
<1>11. CASE HandlerCommand(EventGroups, Levels)
  <2>1. el' = el \/ LoggerCommand(EventGroups, Levels)
    BY <1>11 DEF HandlerCommand, ClearCounters, CommandLogger, MatchCounters, Set, CommandRule,
       CommandCounter, CommandMaxLevels, CommandTable, ClearTable, LoggerCommand
  <2>2. eh'.seen = eh.seen \/ (\E log \in {el, el'} : eh'.seen = log.count)
    <3>1. Set => eh'.seen = eh.seen
      BY <1>1 DEF Set, EhFields
    <3> QED BY <1>3, <1>11, <3>1 DEF HandlerCommand, ClearCounters, CommandLogger, MatchCounters, CommandRule,
       CommandCounter, CommandMaxLevels, CommandTable, ClearTable
  <2> QED BY <1>6, <2>1, <2>2
<1>12. CASE ClockTick \/ UNCHANGED handlerVars \/
            \E group \in EventGroups, local \in Locals, level \in Levels : RecordByUser(group, local, level)
  <2>1. el' = el \/ \E group, local, time : \E level \in Levels : el' = Recorded(el, group, local, level, time)
    BY <1>12 DEF ClockTick, Tick, handlerVars, RecordByUser, RecordEvent
  <2>2. eh' = eh
    BY <1>12 DEF ClockTick, handlerVars, RecordByUser
  <2> QED BY <1>5, <1>6, <2>1, <2>2
<1> QED BY <1>7, <1>8, <1>9, <1>10, <1>11, <1>12 DEF HandlerNext
-----------------------------------------------------------------------------
\* The rules stay well formed: EH_register_rule refuses the others.
LEMMA WellFormedStep ==
  ASSUME RulesInv, WellFormedRules, RuleCommand
  PROVE  WellFormedRules'
<1>1. setting \in [RuleIds -> Settings \cup {NoRule}] /\ NoRule.group = NullGroup
  BY RulesInvFacts DEF NoRule
<1>2. \/ setting' = setting \/ setting' = [id \in RuleIds |-> NoRule]
      \/ \E id \in RuleIds : \E s : (WellFormed(s) \/ s = NoRule) /\ setting' = [setting EXCEPT ![id] = s]
  BY DEF RuleCommand, ClearAllRule, InitializeRules, NoRules, RegisterRule, MayRegister, DeleteRule,
         OperateRule, OperateGroup, Operate, OperateGroupOutside, SetRuleCounter, ClearRuleCounterByEvent,
         SetMaxMultiLevelNum
<1>3. \A id \in RuleIds :
         \/ setting'[id] = setting[id] \/ setting'[id] = NoRule \/ WellFormed(setting'[id])
  BY <1>1, <1>2
<1>4. \A s : WellFormed(s)' <=> WellFormed(s)
  BY DEF WellFormed
<1>5. ASSUME NEW id \in RuleIds, setting'[id].group # NullGroup PROVE WellFormed(setting'[id])
  <2>1. setting'[id] = setting[id] => WellFormed(setting[id])
    BY <1>5 DEF WellFormedRules, Registered
  <2> HIDE DEF WellFormed
  <2> QED BY <1>1, <1>3, <1>5, <2>1
<1> QED BY <1>5 DEF WellFormedRules, Registered, WellFormed

\* The handler leaves the rules as they are registered.
LEMMA TableNext ==
  ASSUME Inv, RulesInv, WellFormedRules, [HandlerNext]_handlerVars
  PROVE  /\ RulesInv' /\ WellFormedRules'
         /\ exec.pc # "idle" => UNCHANGED setting
<1>1. \/ RuleCommand /\ exec.pc = "idle"
      \/ UNCHANGED <<setting, sorted, maxLevels, undef>>
  <2>1. HandlerStep => UNCHANGED <<setting, sorted, maxLevels, undef>>
    BY DEF HandlerStep, Execute, ExecuteDisagrees, ExecuteEnds, NextEvent, RuleIsStrange, RuleIsSkipped,
           RuleCounts, RuleMatches, HigherIsRefused, HigherIsAsked, ReturnToLower, ReturnToRespond,
           ReturnToExecute, Respond, ruleVars
  <2> DEFINE Same == UNCHANGED <<setting, sorted, maxLevels, undef>>
  <2>2. /\ ClearCounters => Same
        /\ CommandLogger(EventGroups, Levels) => Same
        /\ MatchCounters => Same
        /\ Set => Same
    BY DEF ClearCounters, CommandLogger, MatchCounters, Set, RulesUnchanged, ruleVars
  <2>3. ASSUME NEW op \in Ops, NEW id \in RuleIds, NEW multiLevel \in BOOLEAN, CommandRule(op, id, multiLevel)
        PROVE  RuleCommand /\ exec.pc = "idle"
    BY <2>3 DEF CommandRule, RuleCommand, Between
  <2>4. ASSUME NEW id \in RuleIds, NEW n \in CounterValues, CommandCounter(id, n)
        PROVE  RuleCommand /\ exec.pc = "idle"
    BY <2>4 DEF CommandCounter, RuleCommand, Between
  <2>5. ASSUME NEW n \in MultiLevels, CommandMaxLevels(n) PROVE RuleCommand /\ exec.pc = "idle"
    BY <2>5 DEF CommandMaxLevels, RuleCommand, Between
  <2>6. CommandTable => RuleCommand /\ exec.pc = "idle"
    BY DEF CommandTable, RuleCommand, Between
  <2>7. ClearTable => RuleCommand /\ exec.pc = "idle"
    BY DEF ClearTable, RuleCommand, Between
  <2>8. HandlerCommand(EventGroups, Levels) => (RuleCommand /\ exec.pc = "idle") \/ Same
    <3> HIDE DEF Same
    <3> QED BY <2>2, <2>3, <2>4, <2>5, <2>6, <2>7 DEF HandlerCommand
  <2> QED BY <2>1, <2>8 DEF HandlerNext, ClockTick, RecordByUser, RulesUnchanged, ruleVars, handlerVars
<1>2. Inv'
  BY InvNext
<1>3. CASE RuleCommand /\ exec.pc = "idle"
  BY <1>3, RuleCommandStep, WellFormedStep
<1>4. CASE UNCHANGED <<setting, sorted, maxLevels, undef>>
  <2>1. active' \in [RuleIds -> BOOLEAN]
    BY <1>2 DEF Inv, Accounts
  <2>2. RulesInv'
    BY <1>4, <2>1, RulesInvFacts, SameTable
  <2> QED BY <1>4, <2>2 DEF WellFormedRules, Registered, WellFormed
<1> QED BY <1>1, <1>3, <1>4
-----------------------------------------------------------------------------
\* The stack of the next state under the rules of this one.
LEMMA TreeFrom ==
  ASSUME UNCHANGED setting,
         InEvent(exec') => Calls(exec'.stack) /\ CallsOn(exec') /\ Answered(exec'.stack, hist'.answers)
  PROVE  TreeInv'
<1>1. \A id : Below(id)' = Below(id)
  BY DEF Below
<1>2. \A id : Registered(id)' <=> Registered(id)
  BY DEF Registered
<1>3. \A id : Chain(id)' = Chain(id)
  BY <1>1, <1>2 DEF Chain
<1>4. \A id, m : Path(id, m)' <=> Path(id, m)
  BY <1>1, <1>2 DEF Path
<1>5. \A s : Calls(s)' <=> Calls(s)
  <2>1. \A f : Listed(f)' <=> Listed(f)
    BY <1>2 DEF Listed
  <2>2. /\ \A f, id : Above(f, id)' <=> Above(f, id)
        /\ \A f, g : Apart(f, g)' <=> Apart(f, g)
        /\ \A f : OfEvent(f)' <=> OfEvent(f)
    BY DEF Above, Apart, OfEvent
  <2> QED BY <2>1, <2>2 DEF Calls
<1>6. \A s, A : Answered(s, A)' <=> Answered(s, A)
  BY <1>3, <1>4 DEF Answered, Unseen, Covered
<1> QED BY <1>5, <1>6 DEF TreeInv, InEvent, CallsOn

\* The first rule of the top frame is done, after n more responses.
LEMMA Continued ==
  ASSUME NEW p, IsSequence(p), p # <<>>, Listed(p[1]), NEW n \in Nat
  PROVE  LET t == <<[p[1] EXCEPT !.ids = Tail(@), !.responded = @ + n]>> \o Tail(p)
         IN  Advanced(t, p) /\ t[1].responded = p[1].responded + n
<1> DEFINE f == [p[1] EXCEPT !.ids = Tail(@), !.responded = @ + n]
           t == <<f>> \o Tail(p)
<1>1. DOMAIN p[1] = FrameFields /\ p[1].responded \in Nat
  BY DEF Listed
<1>2. /\ DOMAIN f = FrameFields /\ f.ids = Tail(p[1].ids) /\ f.responded = p[1].responded + n
      /\ f.level = p[1].level /\ f.slot = p[1].slot
  BY <1>1 DEF FrameFields
<1> HIDE DEF f
<1>3. /\ IsSequence(t) /\ Len(t) = Len(p) /\ t[1] = f /\ \A j \in 2..Len(p) : t[j] = p[j]
  BY Replaced
<1> HIDE DEF t
<1>4. \A a, b, c \in Nat : a = b + c => a >= b
  OBVIOUS
<1>5. f.responded \in Nat /\ f.responded >= p[1].responded
  BY <1>1, <1>2, <1>4
<1>6. Advanced(t, p) /\ t[1].responded = p[1].responded + n
  BY <1>2, <1>3, <1>5 DEF Advanced
<1> QED BY <1>6 DEF t, f
-----------------------------------------------------------------------------
\* The steps of a call.

LEMMA TreeFacts ==
  ASSUME Inv, TreeInv, InEvent(exec)
  PROVE  /\ IsSequence(exec.stack) /\ exec.stack # <<>> /\ Len(exec.stack) \in Nat /\ Len(exec.stack) > 0
         /\ Calls(exec.stack) /\ CallsOn(exec) /\ Answered(exec.stack, hist.answers)
         /\ Top = exec.stack[1] /\ Listed(exec.stack[1]) /\ {"pc", "stack"} \subseteq DOMAIN exec
         /\ Top.ids # <<>> => Rule = exec.stack[1].ids[1] /\ Registered(Rule)
<1>1. /\ IsSequence(exec.stack) /\ exec.stack # <<>> /\ Len(exec.stack) \in Nat /\ Len(exec.stack) > 0
      /\ Top = exec.stack[1] /\ {"pc", "stack"} \subseteq DOMAIN exec
  BY TopFacts DEF InEvent
<1>2. Calls(exec.stack) /\ CallsOn(exec) /\ Answered(exec.stack, hist.answers)
  BY DEF TreeInv
<1>3. 1 \in 1..Len(exec.stack)
  BY <1>1
<1>4. Listed(exec.stack[1])
  BY <1>2, <1>3 DEF Calls
<1>5. Top.ids # <<>> => Rule = Top.ids[1]
  BY <1>1, <1>4 DEF Rule, Listed
<1>6. Top.ids # <<>> => Registered(Top.ids[1])
  BY <1>1, <1>4, ListedFacts
<1> QED BY <1>1, <1>2, <1>4, <1>5, <1>6

\* The rules of an event of another level than EH wait for no match, and the rules of a match for
\* that of one rule.
LEMMA MatchesAreHigher ==
  ASSUME Inv, RulesInv, WellFormedRules, LogInv(el), StoredLevels(el), TreeInv, InEvent(exec),
         Top.ids # <<>>, Applies, Len(exec.stack) = 1
  PROVE  setting[Rule].group # MatchRule
<1>1. OfEvent(Top) /\ Registered(Rule)
  <2>1. /\ Calls(exec.stack) /\ Top = exec.stack[1] /\ (Top.ids # <<>> => Registered(Rule))
    BY TreeFacts
  <2> QED BY <2>1 DEF Calls
<1>2. TopEvent.level # "EH"
  BY <1>1, RingHasLevels DEF OfEvent, TopEvent
<1>3. WellFormed(setting[Rule])
  BY <1>1 DEF WellFormedRules, Registered
<1> QED BY <1>2, <1>3 DEF WellFormed, Applies

\* The next rule is looked at.
LEMMA LooksOn ==
  ASSUME Inv, TreeInv, exec.pc = "rules", Top.ids # <<>>, UNCHANGED setting,
         exec'.pc = "rules", exec'.stack = NextRule(0), hist'.answers = hist.answers
  PROVE  TreeInv'
<1>1. /\ IsSequence(exec.stack) /\ exec.stack # <<>> /\ Top = exec.stack[1] /\ Listed(exec.stack[1])
      /\ Calls(exec.stack) /\ Answered(exec.stack, hist.answers)
  BY TreeFacts DEF InEvent
<1> DEFINE t == <<[exec.stack[1] EXCEPT !.ids = Tail(@), !.responded = @ + 0]>> \o Tail(exec.stack)
<1>2. exec'.stack = t
  BY <1>1 DEF NextRule
<1>3. 0 \in Nat
  OBVIOUS
<1>4. Advanced(t, exec.stack)
  BY <1>1, <1>3, Continued
<1> HIDE DEF t
<1>5. Calls(t) /\ Answered(t, hist.answers)
  BY <1>1, <1>4, AdvancedCalls, AdvancedAnswers
<1>6. CallsOn(exec')
  BY DEF CallsOn
<1> QED BY <1>2, <1>5, <1>6, TreeFrom

LEMMA StrangeTree ==
  ASSUME SeenInv, Inv, TreeInv, UNCHANGED setting, RuleIsStrange \/ RuleIsSkipped \/ RuleCounts
  PROVE  TreeInv'
<1>1. exec.pc = "rules" /\ Top.ids # <<>> /\ exec' = [exec EXCEPT !.stack = NextRule(0)]
  BY DEF RuleIsStrange, RuleIsSkipped, RuleCounts
<1>2. {"pc", "stack"} \subseteq DOMAIN exec
  BY DEF Inv, Stacked
<1>3. exec'.pc = "rules" /\ exec'.stack = NextRule(0)
  BY <1>1, <1>2, Zenon
<1>4. hist'.answers = hist.answers
  BY DEF SeenInv, HistoryFields, RuleIsStrange, RuleIsSkipped, RuleCounts
<1> QED BY <1>1, <1>3, <1>4, LooksOn

\* The rule matches, and a higher one is asked or not.
LEMMA MatchTree ==
  ASSUME SeenInv, Inv, RulesInv, WellFormedRules, StoredLevels(el), TreeInv, UNCHANGED setting, RuleMatches
  PROVE  TreeInv'
<1>1. exec.pc = "rules" /\ Top.ids # <<>> /\ Applies /\ exec' = [exec EXCEPT !.pc = "higher"] /\ hist' = hist
  BY DEF RuleMatches
<1>2. InEvent(exec) /\ LogInv(el)
  BY <1>1 DEF InEvent, SeenInv
<1>3. /\ Calls(exec.stack) /\ Answered(exec.stack, hist.answers) /\ {"pc", "stack"} \subseteq DOMAIN exec
      /\ Top = exec.stack[1] /\ Rule = exec.stack[1].ids[1]
  BY <1>1, <1>2, TreeFacts
<1>4. exec'.pc = "higher" /\ exec'.stack = exec.stack
  BY <1>1, <1>3, Zenon
<1>5. Len(exec.stack) = 1 => setting[Rule].group # MatchRule
  BY <1>1, <1>2, MatchesAreHigher
<1>6. CallsOn(exec')
  BY <1>1, <1>3, <1>4, <1>5 DEF CallsOn
<1> QED BY <1>1, <1>3, <1>4, <1>6, TreeFrom

LEMMA RefusedTree ==
  ASSUME SeenInv, Inv, TreeInv, UNCHANGED setting, HigherIsRefused
  PROVE  TreeInv'
<1>1. exec.pc = "higher" /\ exec' = [exec EXCEPT !.pc = "respond", !.multiLevel = @ + 1]
  BY DEF HigherIsRefused
<1>2. hist'.answers = hist.answers
  BY DEF SeenInv, HistoryFields, HigherIsRefused
<1>3. /\ Calls(exec.stack) /\ CallsOn(exec) /\ Answered(exec.stack, hist.answers)
      /\ {"pc", "stack"} \subseteq DOMAIN exec
  BY <1>1, TreeFacts DEF InEvent
<1>4. exec'.pc = "respond" /\ exec'.stack = exec.stack
  BY <1>1, <1>3, Zenon
<1>5. CallsOn(exec')
  BY <1>1, <1>3, <1>4 DEF CallsOn
<1> QED BY <1>2, <1>3, <1>4, <1>5, TreeFrom

LEMMA AskedTree ==
  ASSUME SeenInv, Inv, RulesInv, TreeInv, UNCHANGED setting, HigherIsAsked
  PROVE  TreeInv'
<1> DEFINE f == [level |-> "EH", slot |-> LatestEH, ids |-> RulesFor(el.ring["EH"][LatestEH]), responded |-> 0]
           s == exec.stack
           t == <<f>> \o s
<1>1. /\ exec.pc = "higher" /\ exec' = [exec EXCEPT !.pc = "rules", !.multiLevel = @ + 1, !.stack = <<f>> \o @]
      /\ hist' = hist
      /\ SameEvent(el.ring["EH"][LatestEH], [group |-> MatchRule, local |-> Rule])
  BY DEF HigherIsAsked, NotMyMatch
<1>2. Listed(f) /\ \A a \in 1..Len(f.ids) : SameEvent(setting[f.ids[a]], el.ring["EH"][LatestEH])
  BY FoundFrame
<1> HIDE DEF f
<1>3. /\ IsSequence(s) /\ s # <<>> /\ Calls(s) /\ CallsOn(exec) /\ Answered(s, hist.answers)
      /\ Top = s[1] /\ {"pc", "stack"} \subseteq DOMAIN exec
      /\ Top.ids # <<>> => Rule = s[1].ids[1]
  BY <1>1, TreeFacts DEF InEvent
<1>4. exec'.pc = "rules" /\ exec'.stack = t
  BY <1>1, <1>3, Zenon
<1>5. s[1].ids # <<>> /\ (Len(s) = 1 => setting[s[1].ids[1]].group # MatchRule)
  BY <1>1, <1>3 DEF CallsOn
<1>6. Above(f, s[1].ids[1])
  BY <1>1, <1>2, <1>3, <1>5 DEF Above, SameEvent
<1>7. IsSequence(t) /\ Len(t) = Len(s) + 1 /\ t[1] = f /\ \A j \in 2..(Len(s) + 1) : t[j] = s[j - 1]
  BY <1>3, Pushed
<1> HIDE DEF t, s
<1>8. Called(t, s)
  BY <1>2, <1>6, <1>7 DEF Called
<1>9. Calls(t) /\ Answered(t, hist.answers)
  BY <1>3, <1>5, <1>8, CalledCalls, CalledAnswers
<1>10. CallsOn(exec')
  BY <1>4 DEF CallsOn
<1> QED BY <1>1, <1>4, <1>9, <1>10, TreeFrom
-----------------------------------------------------------------------------
\* The returns.

LEMMA ReturnedTail ==
  ASSUME Inv, TreeInv, exec.pc = "rules", Len(exec.stack) > 1
  PROVE  /\ Returned(Tail(exec.stack), exec.stack)
         /\ Calls(Tail(exec.stack)) /\ Tail(exec.stack) # <<>> /\ Caller = Tail(exec.stack)[1]
         /\ Tail(exec.stack)[1].ids # <<>> /\ Listed(Tail(exec.stack)[1])
         /\ Len(Tail(exec.stack)) = 1 => setting[Tail(exec.stack)[1].ids[1]].group # MatchRule
<1> DEFINE s == exec.stack
           p == Tail(s)
<1>1. IsSequence(s) /\ Len(s) \in Nat /\ Calls(s)
  BY TreeFacts DEF InEvent
<1>2. /\ IsSequence(p) /\ p # <<>> /\ Len(p) = Len(s) - 1 /\ Caller = p[1]
      /\ \A i \in 1..(Len(s) - 1) : p[i] = s[i + 1]
  BY BelowTop
<1> HIDE DEF p, s
<1>3. Returned(p, s)
  BY <1>2 DEF Returned
<1>4. /\ Calls(p) /\ p[1].ids # <<>> /\ p[1] = s[2]
      /\ Len(p) = 1 => setting[p[1].ids[1]].group # MatchRule
  BY <1>1, <1>3, ReturnedCalls DEF s
<1>5. 2 \in 1..Len(s)
  BY <1>1 DEF s
<1>6. Listed(p[1])
  BY <1>1, <1>4, <1>5 DEF Calls
<1> QED BY <1>2, <1>3, <1>4, <1>6 DEF p, s

LEMMA LowerTree ==
  ASSUME SeenInv, Inv, TreeInv, UNCHANGED setting, ReturnToLower
  PROVE  TreeInv'
<1> DEFINE s == exec.stack
           p == Tail(s)
           t == <<[p[1] EXCEPT !.ids = Tail(@), !.responded = @ + s[1].responded]>> \o Tail(p)
<1>1. /\ exec.pc = "rules" /\ Len(s) > 1 /\ Top.responded > 0 /\ hist' = hist
      /\ exec' = [exec EXCEPT !.stack =
                    <<[Caller EXCEPT !.ids = Tail(@), !.responded = @ + Top.responded]>> \o Tail(Tail(@))]
  BY DEF ReturnToLower, HigherResponded
<1>2. /\ IsSequence(s) /\ Calls(s) /\ Answered(s, hist.answers) /\ Top = s[1] /\ Listed(s[1])
      /\ {"pc", "stack"} \subseteq DOMAIN exec
  BY <1>1, TreeFacts DEF InEvent
<1>3. /\ Returned(p, s) /\ Calls(p) /\ p # <<>> /\ Caller = p[1] /\ p[1].ids # <<>> /\ Listed(p[1])
  BY <1>1, ReturnedTail
<1>4. exec'.pc = "rules" /\ exec'.stack = t
  BY <1>1, <1>2, <1>3, Zenon
<1>5. s[1].responded \in Nat /\ p[1].responded \in Nat /\ IsSequence(p)
  BY <1>2, <1>3 DEF Listed, Returned
<1> HIDE DEF p, s
<1>6. Advanced(t, p) /\ t[1].responded = p[1].responded + s[1].responded
  BY <1>3, <1>5, Continued
<1> HIDE DEF t
<1>7. \A a, b \in Nat : a > 0 => b + a > 0
  OBVIOUS
<1>8. t[1].responded > 0
  BY <1>1, <1>2, <1>5, <1>6, <1>7
<1>9. Calls(t)
  BY <1>3, <1>5, <1>6, AdvancedCalls
<1>10. Answered(t, hist.answers)
  BY <1>1, <1>2, <1>3, <1>6, <1>8, ReturnedOver
<1>11. CallsOn(exec')
  BY <1>4 DEF CallsOn
<1> QED BY <1>1, <1>4, <1>9, <1>10, <1>11, TreeFrom

LEMMA ReturnTree ==
  ASSUME SeenInv, Inv, TreeInv, UNCHANGED setting, ReturnToRespond
  PROVE  TreeInv'
<1> DEFINE s == exec.stack
           p == Tail(s)
<1>1. /\ exec.pc = "rules" /\ Len(s) > 1 /\ ~(Top.responded > 0) /\ hist' = hist
      /\ exec' = [exec EXCEPT !.pc = "respond", !.stack = Tail(@)]
  BY DEF ReturnToRespond, HigherResponded
<1>2. /\ IsSequence(s) /\ Calls(s) /\ Answered(s, hist.answers) /\ Top = s[1]
      /\ {"pc", "stack"} \subseteq DOMAIN exec
  BY <1>1, TreeFacts DEF InEvent
<1>3. /\ Returned(p, s) /\ Calls(p) /\ p[1].ids # <<>>
      /\ Len(p) = 1 => setting[p[1].ids[1]].group # MatchRule
  BY <1>1, ReturnedTail
<1>4. exec'.pc = "respond" /\ exec'.stack = p
  BY <1>1, <1>2, Zenon
<1> HIDE DEF p, s
<1>5. Answered(p, hist.answers)
  BY <1>1, <1>2, <1>3, ReturnedAnswers
<1>6. CallsOn(exec')
  BY <1>3, <1>4 DEF CallsOn
<1> QED BY <1>1, <1>3, <1>4, <1>5, <1>6, TreeFrom

\* The rule responds.
LEMMA RespondTree ==
  ASSUME SeenInv, Inv, RulesInv, TreeInv, UNCHANGED setting, NEW outcome, Respond(outcome)
  PROVE  TreeInv'
<1> DEFINE s == exec.stack
           t == <<[s[1] EXCEPT !.ids = Tail(@), !.responded = @ + 1]>> \o Tail(s)
<1>1. exec.pc = "respond" /\ exec' = [exec EXCEPT !.pc = "rules", !.stack = NextRule(1)]
  BY DEF Respond
<1>2. hist'.answers = hist.answers \cup {Rule}
  BY DEF Respond, SeenInv, HistoryFields
<1>3. /\ IsSequence(s) /\ s # <<>> /\ Calls(s) /\ CallsOn(exec) /\ Answered(s, hist.answers)
      /\ Top = s[1] /\ Listed(s[1]) /\ {"pc", "stack"} \subseteq DOMAIN exec
      /\ Top.ids # <<>> => Rule = s[1].ids[1]
  BY <1>1, TreeFacts DEF InEvent
<1>4. /\ s[1].ids # <<>> /\ Rule = s[1].ids[1]
      /\ Len(s) = 1 => setting[s[1].ids[1]].group # MatchRule
  BY <1>1, <1>3 DEF CallsOn
<1>5. NextRule(1) = t
  BY <1>3 DEF NextRule
<1>6. exec'.pc = "rules" /\ exec'.stack = t
  BY <1>1, <1>3, <1>5, Zenon
<1>7. s[1].responded \in Nat /\ 1 \in Nat
  BY <1>3 DEF Listed
<1> HIDE DEF s
<1>8. Advanced(t, s) /\ t[1].responded = s[1].responded + 1
  BY <1>3, <1>7, Continued
<1> HIDE DEF t
<1>9. t[1].responded > 0
  BY <1>7, <1>8
<1>10. Calls(t) /\ Answered(t, hist'.answers)
  BY <1>2, <1>3, <1>4, <1>8, <1>9, AdvancedCalls, ResponseAnswers
<1>11. CallsOn(exec')
  BY <1>6 DEF CallsOn
<1> QED BY <1>6, <1>10, <1>11, TreeFrom

\* The first call is for an event of another level than EH.
LEMMA EventTree ==
  ASSUME SeenInv, StoredLevels(el), SeenTyped, Inv, RulesInv, UNCHANGED setting, NextEvent
  PROVE  TreeInv'
<1>1. ScanIn(Scan) /\ {"pc", "stack"} \subseteq DOMAIN exec
  BY ScanFindsSlot DEF SeenInv, Inv, Stacked
<1>2. PICK found \in {Scan} :
        /\ found.oldest # <<>>
        /\ \E event \in {found.log.ring[found.oldest[1]][found.oldest[2]]} :
              /\ exec' = [exec EXCEPT !.pc = "rules", !.multiLevel = 0,
                                     !.stack = <<[level |-> found.oldest[1], slot |-> found.oldest[2],
                                                  ids |-> RulesFor(event), responded |-> 0]>>]
              /\ hist' = [hist EXCEPT !.done = Append(@, event.number), !.answers = {}]
  BY Zenon DEF NextEvent
<1>3. PICK event : 
        /\ exec' = [exec EXCEPT !.pc = "rules", !.multiLevel = 0,
                               !.stack = <<[level |-> found.oldest[1], slot |-> found.oldest[2],
                                            ids |-> RulesFor(event), responded |-> 0]>>]
        /\ hist' = [hist EXCEPT !.done = Append(@, event.number), !.answers = {}]
  BY <1>2
<1>4. PICK l \in Levels \ {"EH"} : \E slot \in Slots(l) : found.oldest = <<l, slot>>
  BY <1>1, <1>2 DEF ScanIn
<1> DEFINE f == [level |-> found.oldest[1], slot |-> found.oldest[2], ids |-> RulesFor(event), responded |-> 0]
<1>5. exec'.pc = "rules" /\ exec'.stack = <<f>>
  BY <1>1, <1>3, Zenon
<1>6. hist'.answers = {}
  BY <1>3 DEF SeenInv, HistoryFields
<1>7. /\ Listed(f) /\ f.level = l /\ f.slot \in Slots(l)
      /\ \A a \in 1..Len(f.ids) : SameEvent(setting[f.ids[a]], event)
  BY <1>4, FoundFrame
<1> HIDE DEF f
<1>8. OfEvent(f)
  BY <1>7 DEF OfEvent, SameEvent
<1>9. Calls(<<f>>) /\ Answered(<<f>>, {})
  BY <1>7, <1>8, FirstCall
<1>10. CallsOn(exec')
  BY <1>5 DEF CallsOn
<1> QED BY <1>5, <1>6, <1>9, <1>10, TreeFrom
-----------------------------------------------------------------------------
\* While an event is checked the rules that have responded are no part of what is still to come.
TakesInv ==
    /\ SeenInv /\ Inv /\ RulesInv /\ WellFormedRules /\ StoredLevels(el) /\ SeenTyped
    /\ TreeInv

LEMMA NoCallTree ==
  ASSUME Inv, ExecuteEnds \/ Execute \/ ReturnToExecute
  PROVE  TreeInv'
<1>1. {"pc", "stack"} \subseteq DOMAIN exec
  BY DEF Inv, Stacked
<1>2. Idle.pc = "idle" /\ [Idle EXCEPT !.pc = "events"].pc = "events"
  BY DEF Idle
<1>3. exec'.pc \in {"idle", "events"}
  <2>1. CASE Execute \/ ExecuteEnds
    BY <1>2, <2>1 DEF Execute, ExecuteEnds
  <2>2. CASE ReturnToExecute
    <3>1. \/ exec' = Idle
          \/ exec' = [exec EXCEPT !.pc = "events", !.checked = @ + 1, !.stack = <<>>,
                                  !.responded = @ + Top.responded]
      BY <2>2 DEF ReturnToExecute
    <3>2. [exec EXCEPT !.pc = "events", !.checked = @ + 1, !.stack = <<>>,
                       !.responded = @ + Top.responded].pc = "events"
      BY <1>1, Zenon
    <3> QED BY <1>2, <3>1, <3>2
  <2> QED BY <2>1, <2>2
<1> QED BY <1>3 DEF TreeInv, InEvent

LEMMA TreeNext ==
  ASSUME TakesInv, [HandlerNext]_handlerVars
  PROVE  TreeInv'
<1>1. /\ SeenInv /\ Inv /\ RulesInv /\ WellFormedRules /\ StoredLevels(el) /\ SeenTyped /\ TreeInv
      /\ exec.pc # "idle" => UNCHANGED setting
  BY TableNext DEF TakesInv
<1>2. ASSUME UNCHANGED <<exec, hist>> PROVE TreeInv'
  <2>1. InEvent(exec) => exec.pc # "idle"
    BY DEF InEvent
  <2>2. CASE InEvent(exec)
    BY <1>1, <1>2, <2>1, <2>2, TreeFrom DEF TreeInv
  <2> QED BY <1>2, <2>2 DEF TreeInv, InEvent
<1>3. ASSUME exec.pc = "idle", UNCHANGED exec PROVE TreeInv'
  BY <1>3 DEF TreeInv, InEvent
<1>4. CASE HandlerStep
  <2>1. CASE Execute \/ ExecuteEnds \/ ReturnToExecute
    BY <1>1, <2>1, NoCallTree
  <2>2. CASE ExecuteDisagrees
    BY <1>3, <2>2 DEF ExecuteDisagrees
  <2>3. ASSUME UNCHANGED setting, ~(Execute \/ ExecuteEnds \/ ReturnToExecute \/ ExecuteDisagrees)
        PROVE  TreeInv'
    <3>1. CASE NextEvent
      BY <1>1, <2>3, <3>1, EventTree
    <3>2. CASE RuleIsStrange \/ RuleIsSkipped \/ RuleCounts
      BY <1>1, <2>3, <3>2, StrangeTree
    <3>3. CASE RuleMatches
      BY <1>1, <2>3, <3>3, MatchTree
    <3>4. CASE HigherIsRefused
      BY <1>1, <2>3, <3>4, RefusedTree
    <3>5. CASE HigherIsAsked
      BY <1>1, <2>3, <3>5, AskedTree
    <3>6. CASE ReturnToLower
      BY <1>1, <2>3, <3>6, LowerTree
    <3>7. CASE ReturnToRespond
      BY <1>1, <2>3, <3>7, ReturnTree
    <3>8. ASSUME NEW outcome, Respond(outcome) PROVE TreeInv'
      BY <1>1, <2>3, <3>8, RespondTree
    <3> QED BY <1>4, <2>3, <3>1, <3>2, <3>3, <3>4, <3>5, <3>6, <3>7, <3>8 DEF HandlerStep
  <2>4. exec.pc # "idle" \/ Execute \/ ExecuteDisagrees
    BY <1>4 DEF HandlerStep, ExecuteEnds, NextEvent, RuleIsStrange, RuleIsSkipped, RuleCounts,
                RuleMatches, HigherIsRefused, HigherIsAsked, ReturnToLower, ReturnToRespond,
                ReturnToExecute, Respond
  <2> QED BY <1>1, <2>1, <2>2, <2>3, <2>4
<1>5. CASE HandlerCommand(EventGroups, Levels)
  <2>1. exec.pc = "idle" /\ UNCHANGED exec
    BY <1>5 DEF HandlerCommand, ClearCounters, CommandLogger, MatchCounters, Set, CommandRule,
                CommandCounter, CommandMaxLevels, CommandTable, ClearTable, Between
  <2> QED BY <1>3, <2>1
<1>6. CASE ClockTick \/ UNCHANGED handlerVars
  BY <1>2, <1>6 DEF ClockTick, handlerVars
<1>7. CASE \E group \in EventGroups, local \in Locals, level \in Levels : RecordByUser(group, local, level)
  BY <1>2, <1>7 DEF RecordByUser
<1> QED BY <1>4, <1>5, <1>6, <1>7 DEF HandlerNext

LEMMA TakesInit == HandlerInit => TakesInv
<1> SUFFICES ASSUME HandlerInit PROVE TakesInv
  OBVIOUS
<1>1. SeenInv /\ Inv /\ RulesInv
  BY SeenInit, InvInit, RulesInitInv DEF HandlerInit
<1>2. /\ el.stored = [l \in Levels |-> <<>>] /\ el.count = [l \in Levels |-> 0]
      /\ eh.seen = el.count /\ exec.pc = "idle"
  BY InitializedFields DEF HandlerInit, HandlerStart, LoggerInit, Idle
<1>3. StoredLevels(el) /\ SeenTyped
  BY <1>2 DEF StoredLevels, SeenTyped
<1>4. WellFormedRules
  BY DEF HandlerInit, RulesInit, NoRule, WellFormedRules, Registered
<1> QED BY <1>1, <1>2, <1>3, <1>4 DEF TakesInv, TreeInv, InEvent

LEMMA TakesNext == TakesInv /\ [HandlerNext]_handlerVars => TakesInv'
<1> SUFFICES ASSUME TakesInv, [HandlerNext]_handlerVars PROVE TakesInv'
  OBVIOUS
<1>1. SeenInv /\ Inv /\ RulesInv /\ WellFormedRules /\ StoredLevels(el) /\ SeenTyped
  BY DEF TakesInv
<1>2. SeenInv' /\ Inv' /\ RulesInv' /\ WellFormedRules'
  BY <1>1, SeenNext, InvNext, TableNext
<1>3. StoredLevels(el') /\ SeenTyped'
  BY <1>1, LevelsNext
<1>4. StoredLevels(el)'
  BY <1>3 DEF StoredLevels
<1> QED BY <1>2, <1>3, <1>4, TreeNext DEF TakesInv

\* For one event never both a rule and one below it respond: where the higher rule has responded,
\* the frame it was called for tells the rules below it not to, and a rule that has responded is
\* not asked again for this event by any way through the tree of rules.
THEOREM TheHigherTakesOver == HandlerSpec => []HigherTakesOver
<1>1. TakesInv => HigherTakesOver
  <2> SUFFICES ASSUME TakesInv, exec.pc \notin {"idle", "events"} PROVE HigherTakesOver
    BY DEF HigherTakesOver
  <2>1. InEvent(exec)
    BY DEF TakesInv, Inv, Stacked, InEvent
  <2>2. Answered(exec.stack, hist.answers)
    BY <2>1 DEF TakesInv, TreeInv
  <2> QED BY <2>2 DEF HigherTakesOver, Answered
<1> QED BY <1>1, TakesInit, TakesNext, PTL DEF HandlerSpec
=============================================================================
