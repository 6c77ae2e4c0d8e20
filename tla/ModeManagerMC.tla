--------------------------- MODULE ModeManagerMC ---------------------------
(***************************************************************************)
(* Instances of ModeManager for TLC: three modes, two task lists, a        *)
(* transition block as in the examples (commands, then the end), one that  *)
(* goes on to the next mode by itself, and one that fills the line.        *)
(***************************************************************************)
EXTENDS ModeManager

McModes == {"start_up", "initial", "science"}
McBlocks == {"tl_a", "tl_b", "sl", "fill"}

Cmd(op) == [op |-> op]
On(op, block) == [op |-> op, block |-> block]
To(mode) == [op |-> "START", to |-> mode]
At(t, c) == [ti |-> t, cmd |-> c]

McBlockCmds == [b \in McBlocks |->
    CASE b = "sl" -> <<At(0, Cmd("NOP")), At(1, Cmd("FINISH"))>>
      [] b = "fill" -> <<At(0, To("science")), At(1, Cmd("NOP"))>>
      [] OTHER -> <<At(0, Cmd("NOP"))>>]

McModeList == [m \in McModes |-> IF m = "science" THEN NotDefined ELSE "tl_a"]
McTable == [f \in McModes |-> [t \in McModes |->
    IF <<f, t>> \in {<<"start_up", "initial">>, <<"initial", "science">>, <<"science", "initial">>}
      THEN "sl" ELSE NotDefined]]

\* Transitions, deployments and removals that meet in the line, while the tables and the
\* blocks they name change.
McGround == {To("science"), To("initial"), Cmd("FINISH"), Cmd("CLEAR_ALL"),
             [op |-> "CLEAR_AT", at |-> 2], On("DEPLOY", "fill"),
             [op |-> "SET_MODE_LIST", mode |-> "science", block |-> "tl_b"],
             [op |-> "SET_TRANSITION_TABLE", from |-> "science", to |-> "initial", block |-> "tl_b"],
             On("INACTIVATE", "sl"), On("ACTIVATE", "sl"), On("CLEAR_BLOCK", "tl_b"),
             On("SET_TASK_LIST", "tl_b")}
=============================================================================
