------------------------ MODULE BlockCommandTableMC ------------------------
(***************************************************************************)
(* An instance of BlockCommandTable for TLC: two blocks of up to two       *)
(* commands, one of which is also loaded on board, with as many commands   *)
(* as it has cells and with more.                                          *)
(***************************************************************************)
EXTENDS BlockCommandTable

McLoads == {[block |-> "b1", cmds |-> <<"nop", "cmd">>],
            [block |-> "b1", cmds |-> <<"cmd", "nop", "cmd">>]}
=============================================================================
