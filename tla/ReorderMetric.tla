--------------------------- MODULE ReorderMetric ---------------------------
(***************************************************************************)
(* What a reorder counter promises: a packet counts if it starts before    *)
(* the end of a packet of its flow that came in sequence.  Positions in a  *)
(* stream are natural numbers here, which do not wrap.                     *)
(***************************************************************************)
EXTENDS Integers

CONSTANTS
    Flows,      \* connections
    Segments    \* what a packet covers of its stream: first position, length

None == -1

VARIABLES
    input,      \* {} or the flow and the segment that arrived last
    hi,         \* end of the packets in sequence, for every flow seen
    count,      \* reordered packets
    report      \* the count that was reported, or None

vars == <<input, hi, count, report>>

Init == input = {} /\ hi = [f \in {} |-> 0] /\ count = 0 /\ report = None

\* Where the next packet of flow f should start, given that seg arrived.
NextExp(f, seg) == IF f \in DOMAIN hi THEN hi[f] ELSE seg.pos

Arrive(f, seg) ==
    /\ report = None
    /\ input' = {<<f, seg>>}
    /\ \/ /\ seg.pos < NextExp(f, seg)
          /\ count' = count + 1
          /\ UNCHANGED hi
       \/ /\ seg.pos >= NextExp(f, seg)
          /\ hi' = [g \in DOMAIN hi \cup {f} |->
                        IF g = f THEN seg.pos + seg.len ELSE hi[g]]
          /\ UNCHANGED count
    /\ UNCHANGED report

Report ==
    /\ report = None
    /\ report' = count
    /\ UNCHANGED <<input, hi, count>>

Next == (\E f \in Flows, seg \in Segments : Arrive(f, seg)) \/ Report

Spec == Init /\ [][Next]_vars
=============================================================================
