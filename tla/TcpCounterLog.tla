--------------------------- MODULE TcpCounterLog ---------------------------
(***************************************************************************)
(* TcpCounter with a log of the packets it received.                       *)
(***************************************************************************)
EXTENDS TcpCounter, FiniteSets, Sequences

VARIABLE log

InitLogged == Init /\ log = <<>>

NextLogged ==
    \/ \E p \in Packets : rc_handle_packet(p) /\ log' = Append(log, p)
    \/ catch_function /\ UNCHANGED log

varsLogged == <<vars, log>>

SpecLogged == InitLogged /\ [][NextLogged]_varsLogged
-----------------------------------------------------------------------------
Ends(p) == p.pos + Advance(p)

\* Retransmissions keep the boundaries of the segments: a packet that starts in
\* front of the end of another one of its connection does not reach beyond it.
ASSUME BoundariesAssumption ==
    \A p, q \in Packets :
        Connection(p) = Connection(q) /\ p.pos < Ends(q) => Ends(p) <= Ends(q)

\* The packets that arrived after one of their connection that ends behind their
\* start.
Late == {i \in DOMAIN log : \E j \in 1..i - 1 :
            Connection(log[j]) = Connection(log[i]) /\ Ends(log[j]) > log[i].pos}

\* rc_handle_packet, which remembers one number of a connection, has counted the
\* packets that are late with respect to everything that arrived.
CountExact == reorder_count = Cardinality(Late)
=============================================================================
