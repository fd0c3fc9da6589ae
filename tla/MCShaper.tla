------------------------------ MODULE MCShaper ------------------------------
(***************************************************************************)
(* A small instance of Shaper: the tc command asks for a fast rate, a      *)
(* smaller burst and another limit than the two rounds.  One of these asks *)
(* for rate zero, at which a byte costs one unit.                          *)
(***************************************************************************)
EXTENDS Shaper, MCTbf

TcOpt == Opt(4, 2, 5)
Rounds == [e \in {0, 1} |-> IF e = 0 THEN Opt(0, 3, 4) ELSE Opt(1, 3, 4)]
ShaperOpts == {TcOpt, Rounds[0], Rounds[1]}
=============================================================================
