----------------------------- MODULE EventRules -----------------------------
(***************************************************************************)
(* The rule table of the event handler (event_handler.c): which rule waits *)
(* for which event, whether it is active, and how often its event has      *)
(* come.                                                                   *)
(*                                                                         *)
(* Rules are kept by their number, and an index sorted by event (group and *)
(* local id) is kept beside them for binary search.  Several rules may     *)
(* wait for one event: they are told apart by a duplicate id, and the      *)
(* search looks for duplicate 0.  A rule of the group MatchRule waits for  *)
(* the match of another rule, its lower rule, whose number is the local    *)
(* id.                                                                     *)
(***************************************************************************)
EXTENDS Integers, Sequences, FiniteSets, SequencesExt

CONSTANTS
    RuleMax,        \* EH_RULE_MAX
    Groups,         \* the groups of events, without EL_CORE_GROUP_NULL
    MatchRule,      \* EL_CORE_GROUP_EH_MATCH_RULE
    Locals,         \* the local ids of events
    Settings,       \* the settings a registration is tried with
    MaxDuplicates,  \* EH_MAX_RULE_NUM_OF_EL_ID_DUPLICATES
    MultiLevels,    \* what max_multi_level_num is set to
    DefaultLevels,  \* EH_MAX_MULTI_LEVEL_NUM_DEFAULT
    CounterValues   \* what the counter of a rule is set to

NullGroup == 0
RuleIds == 0..(RuleMax - 1)

\* No rule: the cleared settings.
NoRule == [group |-> NullGroup, local |-> 0, level |-> "HIGH", match |-> FALSE,
           type |-> "SINGLE", threshold |-> 0, window |-> 0]

ASSUME RulesAssumption ==
    /\ RuleMax \in Nat \ {0} /\ MaxDuplicates \in Nat \ {0}
    /\ Groups \subseteq Nat \ {NullGroup} /\ MatchRule \in Groups
    /\ Locals \subseteq Nat
    /\ MultiLevels \subseteq Nat /\ DefaultLevels \in MultiLevels
    /\ CounterValues \subseteq Nat /\ 0 \in CounterValues
    /\ \A s \in Settings : s.group \in Groups /\ s.local \in Locals /\ s.threshold \in Nat

VARIABLES
    setting,    \* EH_Rule.settings of each rule
    active,     \* EH_RuleSettings.is_active of each rule
    counter,    \* EH_Rule.counter of each rule
    sorted,     \* sorted_idxes[0..registered_rule_num-1]
    maxLevels,  \* exec_settings.max_multi_level_num
    undef       \* a search by group has read outside of the index

ruleVars == <<setting, active, counter, sorted, maxLevels, undef>>

Entry(group, local, dup, id) == [group |-> group, local |-> local, dup |-> dup, id |-> id]

\* EH_check_rule_id_
Registered(id) == id \in RuleIds /\ setting[id].group # NullGroup
-----------------------------------------------------------------------------
\* Search.

SameEvent(e, f) == e.group = f.group /\ e.local = f.local
EventBefore(e, f) == e.group < f.group \/ (e.group = f.group /\ e.local < f.local)

\* BUG (mutant): any rule of the event will do.
CompareAny(f, e) ==
    IF SameEvent(e, f) THEN "here"
    ELSE IF EventBefore(e, f) THEN "behind" ELSE "before"
\* EH_compare_sorted_index_for_bsearch_: where the first rule of event f lies as seen from e.
Compare(f, e) ==
    IF SameEvent(e, f) THEN (IF e.dup = 0 THEN "here" ELSE "before")
    ELSE IF EventBefore(e, f) THEN "behind" ELSE "before"

\* bsearch of the C library: the position it finds in 1..Len(sorted), 0 if none.
BinarySearch(f) ==
    LET Ends == 1..(Len(sorted) + 1)
        find[range \in Ends \X Ends] ==
            LET lo == range[1]
                hi == range[2]
                mid == (lo + hi) \div 2
                where == Compare(f, sorted[mid])
            IN  IF lo >= hi THEN 0
                ELSE IF where = "here" THEN mid
                ELSE IF where = "before" THEN find[<<lo, mid>>] ELSE find[<<mid + 1, hi>>]
    IN  find[<<1, Len(sorted) + 1>>]

\* EH_search_rule_table_index_: the rules that wait for event f.
RulesFor(f) ==
    LET first == BinarySearch(f)
        run == {n \in 0..MaxDuplicates :
                   /\ n <= Len(sorted) - first + 1
                   /\ \A k \in 0..(n - 1) : SameEvent(sorted[first + k], f)}
        length == CHOOSE n \in run : \A other \in run : other <= n
    IN  IF first = 0 THEN <<>> ELSE [k \in 1..length |-> sorted[first + k - 1].id]

\* EH_search_rule_table_index_by_event_group_: the neighbours with the group of the entry
\* at position found, and the rules there.
GroupFirst(found) ==
    CHOOSE i \in 1..found :
        /\ \A k \in i..found : sorted[k].group = sorted[found].group
        /\ i > 1 => sorted[i - 1].group # sorted[found].group
GroupRun(found) ==
    {k \in 1..Len(sorted) : /\ k >= GroupFirst(found)
                            /\ \A m \in GroupFirst(found)..k : sorted[m].group = sorted[found].group}
-----------------------------------------------------------------------------
\* Insertion and deletion.

FirstNotBefore(f) ==
    CHOOSE i \in 1..(Len(sorted) + 1) :
        /\ i <= Len(sorted) => ~EventBefore(sorted[i], f)
        /\ \A k \in 1..(i - 1) : EventBefore(sorted[k], f)

\* BUG (mutant): the new rule is taken for the first of its event.
DuplicatesNone(f) == 0
\* How many rules already wait for event f, from the first one on, at most MaxDuplicates.
Duplicates(f) ==
    CHOOSE n \in 0..MaxDuplicates :
        /\ \A k \in 0..(n - 1) : /\ FirstNotBefore(f) + k <= Len(sorted)
                                 /\ SameEvent(sorted[FirstNotBefore(f) + k], f)
        /\ n < MaxDuplicates => \/ FirstNotBefore(f) + n > Len(sorted)
                                \/ ~SameEvent(sorted[FirstNotBefore(f) + n], f)

IndexWith(id, s) ==
    InsertAt(sorted, FirstNotBefore(s) + Duplicates(s), Entry(s.group, s.local, Duplicates(s), id))

PlaceOf(id) == CHOOSE k \in 1..Len(sorted) : sorted[k].id = id

\* BUG (mutant): the duplicate ids are left.
MovesDownNever(k, i) == FALSE
\* The entry at position k taken out: the later duplicates of its event move down.
MovesDown(k, i) == i >= k /\ i < k + MaxDuplicates - 1 /\ \A m \in k..i : SameEvent(sorted[m + 1], sorted[k])
Without(k) ==
    [i \in 1..(Len(sorted) - 1) |->
        LET e == sorted[IF i < k THEN i ELSE i + 1]
        IN  IF MovesDown(k, i) THEN Entry(e.group, e.local, e.dup - 1, e.id) ELSE e]
-----------------------------------------------------------------------------
\* Rules above rules.

\* The n-th rule below a rule, with the rule itself as number 0.
Below(id) ==
    LET below[n \in 0..RuleMax] ==
            IF n = 0 THEN id
            ELSE LET upper == below[n - 1]
                 IN  IF upper \in RuleIds /\ setting[upper].group = MatchRule
                     THEN setting[upper].local ELSE RuleMax
    IN  below

\* The loops of EH_{init,activate,inactivate}_rule_for_multi_level, from a registered rule on.
Chain(id) ==
    {id} \cup {Below(id)[n] : n \in {n \in 1..(RuleMax - 1) : \A k \in 1..n : Registered(Below(id)[k])}}

\* The loop of EH_register_rule over the rules below a new rule above rule id.
HasLower(id) == id \in RuleIds /\ setting[id].group = MatchRule
ChainRefused(id) ==
    \/ maxLevels <= 1
    \/ \E n \in 0..(RuleMax - 1) :
          /\ \A k \in 0..(n - 1) : HasLower(Below(id)[k])
          /\ Below(id)[n] \notin RuleIds \/ (HasLower(Below(id)[n]) /\ n >= maxLevels - 2)

\* The checks of EH_register_rule on the settings themselves.
WellFormed(s) ==
    /\ s.group \in Groups
    /\ s.type = "SINGLE" \/ s.threshold > 0
    /\ s.level = "EH" <=> s.group = MatchRule
    /\ s.group = MatchRule => s.match
-----------------------------------------------------------------------------
\* EH_clear_rules_ (and the memset of EH_initialize); the default rules are registered by
\* EH_register_rule like any other.
NoRules ==
    /\ setting' = [id \in RuleIds |-> NoRule]
    /\ active' = [id \in RuleIds |-> FALSE]
    /\ counter' = [id \in RuleIds |-> 0]
    /\ sorted' = <<>>

RulesInit ==
    /\ setting = [id \in RuleIds |-> NoRule]
    /\ active = [id \in RuleIds |-> FALSE]
    /\ counter = [id \in RuleIds |-> 0]
    /\ sorted = <<>> /\ maxLevels = DefaultLevels /\ undef = FALSE

\* Cmd_EH_CLEAR_ALL_RULE
ClearAllRule == NoRules /\ UNCHANGED <<maxLevels, undef>>

\* EH_initialize
InitializeRules == NoRules /\ maxLevels' = DefaultLevels /\ UNCHANGED undef

MayRegister(id, s) ==
    /\ WellFormed(s)
    /\ s.group = MatchRule => ~ChainRefused(s.local)
    /\ id \in RuleIds /\ ~Registered(id)
    /\ Len(sorted) < RuleMax
    /\ Duplicates(s) < MaxDuplicates

\* EH_register_rule, EH_insert_rule_table_; a refused registration changes nothing.
RegisterRule(id, s, isActive) ==
    /\ MayRegister(id, s)
    /\ setting' = [setting EXCEPT ![id] = s]
    /\ active' = [active EXCEPT ![id] = isActive]
    /\ counter' = [counter EXCEPT ![id] = 0]
    /\ sorted' = IndexWith(id, s)
    /\ UNCHANGED <<maxLevels, undef>>

\* EH_delete_rule_table_
DeleteRule(id) ==
    /\ Registered(id)
    /\ setting' = [setting EXCEPT ![id] = NoRule]
    /\ active' = [active EXCEPT ![id] = FALSE]
    /\ counter' = [counter EXCEPT ![id] = 0]
    /\ sorted' = Without(PlaceOf(id))
    /\ UNCHANGED <<maxLevels, undef>>

\* EH_init_rule, EH_activate_rule, EH_inactivate_rule on a set of rules.
Operate(op, ids) ==
    /\ active' = [id \in RuleIds |-> IF id \in ids THEN op # "INACTIVATE" ELSE active[id]]
    /\ counter' = [id \in RuleIds |-> IF id \in ids /\ op = "INIT" THEN 0 ELSE counter[id]]
    /\ UNCHANGED <<setting, sorted, maxLevels>>

Ops == {"INIT", "ACTIVATE", "INACTIVATE"}

\* Cmd_EH_{INIT,ACTIVATE,INACTIVATE}_RULE and .._FOR_MULTI_LEVEL
OperateRule(op, id, multiLevel) ==
    /\ Registered(id)
    /\ Operate(op, IF multiLevel THEN Chain(id) ELSE {id})
    /\ UNCHANGED undef

\* Cmd_EH_.._RULE_BY_EVENT_GROUP and .._FOR_MULTI_LEVEL; found is the entry that bsearch
\* returns, any entry of the group.
OperateGroup(op, found, multiLevel) ==
    /\ LET ids == {sorted[k].id : k \in GroupRun(found)}
       IN  Operate(op, IF multiLevel THEN UNION {Chain(id) : id \in ids} ELSE ids)
    /\ UNCHANGED undef

\* The loop "for (i = found_idx; i >= 0; --i)" on an unsigned i goes on below 0 if the group
\* reaches the start of the index: what it reads there may end it (OperateGroup) or not.
OperateGroupOutside(found) ==
    /\ GroupFirst(found) = 1
    /\ undef' = TRUE
    /\ UNCHANGED <<setting, active, counter, sorted, maxLevels>>

\* Cmd_EH_SET_RULE_COUNTER, Cmd_EH_CLEAR_RULE_COUNTER
SetRuleCounter(id, n) ==
    /\ Registered(id)
    /\ counter' = [counter EXCEPT ![id] = n]
    /\ UNCHANGED <<setting, active, sorted, maxLevels, undef>>

\* EH_clear_rule_counter_by_event
ClearRuleCounterByEvent(f, level) ==
    /\ counter' = [id \in RuleIds |->
                      IF /\ id \in ToSet(RulesFor(f))
                         /\ setting[id].match => setting[id].level = level
                      THEN 0 ELSE counter[id]]
    /\ UNCHANGED <<setting, active, sorted, maxLevels, undef>>

\* Cmd_EH_SET_MAX_MULTI_LEVEL_NUM
SetMaxMultiLevelNum(n) ==
    /\ maxLevels' = n
    /\ UNCHANGED <<setting, active, counter, sorted, undef>>

RuleCommand ==
    \/ ClearAllRule
    \/ InitializeRules
    \/ \E id \in RuleIds, s \in Settings, isActive \in BOOLEAN : RegisterRule(id, s, isActive)
    \/ \E id \in RuleIds : DeleteRule(id)
    \/ \E op \in Ops, id \in RuleIds, multiLevel \in BOOLEAN : OperateRule(op, id, multiLevel)
    \/ \E op \in Ops, found \in 1..Len(sorted), multiLevel \in BOOLEAN :
          OperateGroup(op, found, multiLevel) \/ OperateGroupOutside(found)
    \/ \E id \in RuleIds, n \in CounterValues : SetRuleCounter(id, n)
    \/ \E s \in Settings : ClearRuleCounterByEvent(s, s.level)
    \/ \E n \in MultiLevels : SetMaxMultiLevelNum(n)

RulesNext == ~undef /\ RuleCommand
RulesSpec == RulesInit /\ [][RulesNext]_ruleVars
-----------------------------------------------------------------------------
\* Type correctness: the index has no more entries than there are rules, and duplicate ids
\* stay below their maximum.
RulesTypeOK ==
    /\ setting \in [RuleIds -> Settings \cup {NoRule}]
    /\ active \in [RuleIds -> BOOLEAN]
    /\ counter \in [RuleIds -> CounterValues]
    /\ sorted \in Seq([group : Groups, local : Locals, dup : 0..(MaxDuplicates - 1), id : RuleIds])
    /\ Len(sorted) <= RuleMax
    /\ maxLevels \in MultiLevels /\ undef \in BOOLEAN

\* The index has every registered rule exactly once, under its own event
\* (EH_insert_rule_table_, EH_delete_rule_table_ keep two tables in step).
IndexMatchesRules ==
    /\ \A i, j \in 1..Len(sorted) : sorted[i].id = sorted[j].id => i = j
    /\ \A i \in 1..Len(sorted) : /\ Registered(sorted[i].id)
                                  /\ SameEvent(setting[sorted[i].id], sorted[i])
    /\ \A id \in RuleIds : Registered(id) => \E i \in 1..Len(sorted) : sorted[i].id = id

\* The index is strictly sorted by event and duplicate id, and the duplicates of an event are
\* numbered from 0 without a gap: what bsearch and its comparison with duplicate 0 rely on,
\* whatever is registered and deleted in between.
IndexIsSorted ==
    /\ \A i \in 1..(Len(sorted) - 1) :
          \/ EventBefore(sorted[i], sorted[i + 1]) /\ sorted[i + 1].dup = 0
          \/ SameEvent(sorted[i], sorted[i + 1]) /\ sorted[i + 1].dup = sorted[i].dup + 1
    /\ sorted # <<>> => sorted[1].dup = 0

\* The rules of an event in the order of the index.
EventOf(s) == <<s.group, s.local>>
EntriesFor(e) == {i \in 1..Len(sorted) : EventOf(sorted[i]) = e}
Nth(places, n) == CHOOSE i \in places : Cardinality({j \in places : j < i}) = n - 1
IdsAt(places) == [n \in 1..Cardinality(places) |-> sorted[Nth(places, n)].id]
Waiting == [e \in {EventOf(s) : s \in Settings} |-> IdsAt(EntriesFor(e))]

\* A search by event (EH_search_rule_table_index_) finds all the rules that wait for the event,
\* and no other, however deletions have renumbered them.
SearchFindsTheRules == \A s \in Settings : RulesFor(s) = Waiting[EventOf(s)]

\* A search by group (EH_search_rule_table_index_by_event_group_) finds all the rules of the
\* group, whichever of them bsearch returns first.
GroupSearchFindsTheRules ==
    \A found \in 1..Len(sorted) :
        {sorted[k].id : k \in GroupRun(found)} = {id \in RuleIds : setting[id].group = sorted[found].group}

\* The index is a permutation of the registered rules in the order of their events, and the
\* rules of one event are numbered without a gap: what both searches rely on.
RuleTableIsSound == RulesTypeOK /\ IndexMatchesRules /\ IndexIsSorted

\* Both searches find what they are for: a rule that is registered is never passed over.
LookupsAreExact == SearchFindsTheRules /\ GroupSearchFindsTheRules

\* The rule table implements the registry: rules are appended to and taken from the list of
\* their event and no list changes otherwise.
Registry == INSTANCE RuleRegistry WITH Events <- {EventOf(s) : s \in Settings}, waiting <- Waiting
ImplementsRegistry == Registry!RegistrySpec

\* "The maximum number of levels that can be set up" (EH_ExecSettings.max_multi_level_num),
\* "check that the maximum of the multi-level set-up is not exceeded" (EH_register_rule):
\* the registration looks at the rules below the new one only, so that rules registered from
\* the top down make a longer chain.
ChainsWithinLimit == \A id \in RuleIds : Cardinality(Chain(id)) <= maxLevels
=============================================================================
