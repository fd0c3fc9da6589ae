---------------------------- MODULE MCTcpCounter ----------------------------
(***************************************************************************)
(* A small instance of TcpCounter: two connections that share their source *)
(* port and wrap at different places, one SYN, data in segments of two     *)
(* numbers and a pure acknowledgement.                                     *)
(***************************************************************************)
EXTENDS TcpCounterLog

CONSTANT MaxLog     \* bound of the number of packets

SmallPorts == {1, 2}

Segment(dport, pos, psize, syn) ==
    [sport |-> 1, dport |-> dport, pos |-> pos, psize |-> psize, syn |-> syn]

SmallPackets ==
    {Segment(1, 0, 0, TRUE), Segment(1, 1, 2, FALSE), Segment(1, 3, 2, FALSE),
     Segment(1, 5, 0, FALSE), Segment(2, 1, 2, FALSE), Segment(2, 3, 2, FALSE)}

SmallIsn == [f \in SmallPorts \X SmallPorts |-> IF f = <<1, 1>> THEN 13 ELSE 12]

NextBounded == NextLogged /\ Len(log') <= MaxLog

SpecBounded == InitLogged /\ [][NextBounded]_varsLogged
=============================================================================
