-------------------------- MODULE TaskDispatcherMC --------------------------
(***************************************************************************)
(* Instances of TaskDispatcher for TLC.  A cycle has three steps.  The     *)
(* task "gs" executes commands from the ground; the other ones do nothing  *)
(* to the dispatcher.                                                      *)
(***************************************************************************)
EXTENDS TaskDispatcher

Task(ti, cmd) == [ti |-> ti, cmd |-> cmd]

\* "initial" fits into a cycle; "crowded" has two tasks at the same step, one of which is
\* put off, and a task behind the end of the cycle.
McBlocks == {"initial", "crowded"}
McBlockCmds == [b \in McBlocks |->
    IF b = "initial" THEN <<Task(0, "gs"), Task(2, "app")>>
                     ELSE <<Task(1, "app"), Task(1, "gs"), Task(4, "app")>>]

None == [op |-> "none"]
On(op, block) == [op |-> op, block |-> block]
McEffects == [task \in {"gs", "app"} |->
    IF task = "app" THEN {None}
    ELSE {None, [op |-> "SET_TIME", to |-> 1]}
         \cup {On("SET_TASK_LIST", b) : b \in McBlocks}
         \cup {On("INACTIVATE", "crowded"), On("ACTIVATE", "crowded"), On("CLEAR_BLOCK", "crowded")}]

\* No commands: only the clock and the dispatcher.
PlainEffects == [task \in {"gs", "app"} |-> {None}]
=============================================================================
