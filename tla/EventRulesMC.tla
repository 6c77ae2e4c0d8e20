---------------------------- MODULE EventRulesMC ----------------------------
(***************************************************************************)
(* An instance of EventRules for TLC: four rules, two of which may stand   *)
(* above others, of three events.                                           *)
(***************************************************************************)
EXTENDS EventRules

Rule(group, local, level) ==
    [group |-> group, local |-> local, level |-> level, match |-> level = "EH",
     type |-> "SINGLE", threshold |-> 0, window |-> 0]

\* Group 1 is one of users, group 2 that of the matches: rules above rule 0 and rule 1.
MixedSettings == {Rule(1, 1, "HIGH"), Rule(2, 0, "EH"), Rule(2, 1, "EH")}
=============================================================================
