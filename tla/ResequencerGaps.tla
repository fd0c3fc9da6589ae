-------------------------- MODULE ResequencerGaps --------------------------
(***************************************************************************)
(* Resequencer with a history of the orderly flows, of which the first     *)
(* packet came first, every packet came once and takes one number, and     *)
(* the buffer was never full when a packet came early.                     *)
(***************************************************************************)
EXTENDS Resequencer, Sequences, Functions

VARIABLES
    log,        \* of every orderly flow, the positions in the order they came
    orderly     \* the orderly flows

InitLogged == Init /\ log = [f \in Flows |-> <<>>] /\ orderly = Flows

\* The packet finds its buffer full and is not due.
Overflows(p) == /\ FlowBuf(p).size >= FBUF_SIZ
                /\ ~Due(th_seq(p), FlowBuf(p).expected_next)

Orderly(p) ==
    /\ p.flow \in orderly
    /\ ~Overflows(p)
    /\ p.psize = 1 \/ (p.syn /\ p.pos = 0)
    /\ p.pos \notin Range(log[p.flow])
    /\ log[p.flow] = <<>> => p.pos = 0

Logged(p) ==
    /\ orderly' = IF Orderly(p) THEN orderly ELSE orderly \ {p.flow}
    /\ log' = [log EXCEPT ![p.flow] = IF Orderly(p) THEN Append(@, p.pos) ELSE <<>>]

NextLogged == \E p \in Packets : rc_handle_packet(p) /\ Logged(p)

varsLogged == <<vars, log, orderly>>

SpecLogged == InitLogged /\ [][NextLogged]_varsLogged
-----------------------------------------------------------------------------
\* n is the first position that is not in arrived.
IsFirstMissing(n, arrived) == n \notin arrived /\ \A m \in 0..n - 1 : m \in arrived

FirstMissing(f) == CHOOSE n \in 0..Half : IsFirstMissing(n, Range(log[f]))

\* The packets that came before one in front of them.
Early(f) == {i \in DOMAIN log[f] :
                \E m \in 0..log[f][i] - 1 : \A j \in 1..i : log[f][j] # m}

EarlyPackets == UNION {{f} \X Early(f) : f \in Flows}

\* Of an orderly flow rc_handle_packet expects the first packet that is missing
\* and keeps exactly the packets beyond it; as long as all flows are orderly it
\* has counted the packets that came early.
GapExact ==
    /\ \A f \in orderly : log[f] # <<>> =>
        /\ bufs[f].expected_next = U32Of(Isn[f] + FirstMissing(f))
        /\ bufs[f].root = {[seq |-> U32Of(Isn[f] + n), seg_size |-> 1] :
                           n \in {m \in Range(log[f]) : m > FirstMissing(f)}}
    /\ orderly = Flows => reorder_count = Cardinality(EarlyPackets)
=============================================================================
