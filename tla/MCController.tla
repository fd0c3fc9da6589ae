---------------------------- MODULE MCController ----------------------------
(***************************************************************************)
(* A plan of three entries, one of which has a rate beyond the 32 bits.      *)
(***************************************************************************)
EXTENDS ControlPrograms, TLC

MCDevices == {"macvlan0", "macvlan1", "enp1s0", "ifb0", "ifb1"}

MCPlan == [e \in 0..2 |-> [bandwidth |-> <<122, 25, 8>>[e + 1], delay |-> <<1, 2, 0>>[e + 1]]]
=============================================================================
