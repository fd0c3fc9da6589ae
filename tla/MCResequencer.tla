--------------------------- MODULE MCResequencer ---------------------------
(***************************************************************************)
(* A small instance of Resequencer: streams whose numbers wrap after three *)
(* positions, in segments of one or two numbers.                           *)
(***************************************************************************)
EXTENDS ResequencerGaps

CONSTANT MaxCount   \* bound of the count

Data(f, pos, psize) == [flow |-> f, pos |-> pos, psize |-> psize, syn |-> FALSE]

\* A SYN, a stream with a retransmission that is larger, and a second flow.
MixedPackets ==
    {[Data(1, 0, 0) EXCEPT !.syn = TRUE]} \cup
    {Data(1, pos, 1) : pos \in 1..6} \cup {Data(1, 3, 2)} \cup
    {Data(2, pos, 1) : pos \in 0..2}

TwoFlows == {1, 2}

WrapsAtThree == [f \in Flows |-> 2 * Half - 3]

NextBounded == reorder_count < MaxCount /\ NextLogged

SpecBounded == InitLogged /\ [][NextBounded]_varsLogged
=============================================================================
