----------------------------- MODULE TcpCounter -----------------------------
(***************************************************************************)
(* The reorder counter of src/reordering_buffer/tcp_reordercounter.c.      *)
(*                                                                         *)
(* A packet is given by the ports of its connection, by its position in    *)
(* the stream and by its payload; on the wire the position is a sequence   *)
(* number that starts anywhere and wraps.  The network loses, duplicates   *)
(* and reorders packets as it likes.                                       *)
(***************************************************************************)
EXTENDS SeqSpace

CONSTANTS
    Ports,      \* TCP ports
    Packets,    \* packets of any connection
    Isn         \* initial sequence number of every connection

PacketType == [sport : Ports, dport : Ports, pos : Nat, psize : Nat, syn : BOOLEAN]

\* What a packet takes of the sequence space, as the counter sees it.
Advance(p) == IF p.syn THEN 1 ELSE p.psize

\* A stream is shorter than half of the sequence space, as the window of a TCP
\* connection is.
ASSUME TcpAssumption ==
    /\ Packets \subseteq PacketType
    /\ \A p \in Packets : p.pos + Advance(p) < Half
    /\ Isn \in [Ports \X Ports -> SeqNumbers]

VARIABLES
    buffer,         \* {} or the packet that recvfrom delivered last
    expected_next,  \* of every flow buffer that exists
    reorder_count,
    written         \* what the signal handler wrote, or NotWritten

NotWritten == -1

vars == <<buffer, expected_next, reorder_count, written>>

Init ==
    /\ buffer = {}
    /\ expected_next = [f \in {} |-> 0]
    /\ reorder_count = 0
    /\ written = NotWritten

\* Mutant: the chain of a source port is not searched.
SportOnly(p) == <<p.sport, p.sport>>

\* The chain of a source port holds one flow buffer per destination port.
FlowKey(p) == <<p.sport, p.dport>>

Connection(p) == <<p.sport, p.dport>>

\* th_seq as the sender put it into the header.
th_seq(p) == U32Of(Isn[Connection(p)] + p.pos)

\* The flow buffer of a packet; a new one expects the packet itself.
Expected(p) == IF FlowKey(p) \in DOMAIN expected_next
               THEN expected_next[FlowKey(p)] ELSE th_seq(p)

\* Mutant: a late packet sets what is expected, too.
HandleMoves(p) ==
    /\ written = NotWritten
    /\ buffer' = {p}
    /\ reorder_count' = reorder_count + IF before(th_seq(p), Expected(p)) THEN 1 ELSE 0
    /\ expected_next' = [f \in DOMAIN expected_next \cup {FlowKey(p)} |->
            IF f = FlowKey(p) THEN U32Of(th_seq(p) + Advance(p)) ELSE expected_next[f]]
    /\ UNCHANGED written

\* A packet is received and handled.
rc_handle_packet(p) ==
    /\ written = NotWritten
    /\ buffer' = {p}
    /\ \/ /\ before(th_seq(p), Expected(p))
          /\ reorder_count' = reorder_count + 1
          /\ UNCHANGED expected_next
       \/ /\ ~before(th_seq(p), Expected(p))
          /\ expected_next' = [f \in DOMAIN expected_next \cup {FlowKey(p)} |->
                IF f = FlowKey(p) THEN U32Of(th_seq(p) + Advance(p))
                                  ELSE expected_next[f]]
          /\ UNCHANGED reorder_count
    /\ UNCHANGED written

\* SIGINT or SIGTERM: the count is written to a file and the program exits.
catch_function ==
    /\ written = NotWritten
    /\ written' = reorder_count
    /\ UNCHANGED <<buffer, expected_next, reorder_count>>

Next == (\E p \in Packets : rc_handle_packet(p)) \/ catch_function

Spec == Init /\ [][Next]_vars
-----------------------------------------------------------------------------
TypeOK ==
    /\ buffer \subseteq Packets
    /\ DOMAIN expected_next \subseteq Ports \X Ports
    /\ expected_next \in [DOMAIN expected_next -> SeqNumbers]
    /\ reorder_count \in Nat
    /\ written \in Nat \cup {NotWritten}

\* The position that a flow buffer expects.
Position(f) == U32Of(expected_next[f] - Isn[f])

SegmentOf(p) == [pos |-> p.pos, len |-> Advance(p)]

Metric == INSTANCE ReorderMetric WITH
    Flows    <- Ports \X Ports,
    Segments <- {SegmentOf(p) : p \in Packets},
    input    <- {<<Connection(p), SegmentOf(p)>> : p \in buffer},
    hi       <- [f \in DOMAIN expected_next |-> Position(f)],
    count    <- reorder_count,
    report   <- written

\* rc_handle_packet counts the packets that the metric counts, for each connection by itself
\* and across the wrap of the sequence numbers; catch_function reports it.
CountsReordering == Metric!Spec
=============================================================================
