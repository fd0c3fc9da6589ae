---------------------------- MODULE Resequencer ----------------------------
(***************************************************************************)
(* The resequencing buffer of src/reordering_buffer/reorder_counter.c.     *)
(* The red-black tree of a flow is the set of its entries; the packets of  *)
(* a flow lie within half of the sequence space, where before orders them. *)
(***************************************************************************)
EXTENDS SeqSpace, FiniteSets

CONSTANTS
    Flows,      \* pairs of ports
    Packets,    \* packets of any connection
    Isn,        \* initial sequence number of every connection
    FBUF_SIZ    \* capacity of a flow buffer

PacketType == [flow : Flows, pos : Nat, psize : Nat, syn : BOOLEAN]

ASSUME ReseqAssumption ==
    /\ Packets \subseteq PacketType
    /\ \A p \in Packets : p.pos + p.psize + 1 < Half
    /\ Isn \in [Flows -> SeqNumbers]
    /\ FBUF_SIZ \in Nat \ {0}

VARIABLES
    bufs,           \* the flow buffers: expected_next, size and entries
    reorder_count,
    overflown       \* history: the flows whose buffer was full once

vars == <<bufs, reorder_count, overflown>>

Init ==
    /\ bufs = [f \in {} |-> 0]
    /\ reorder_count = 0
    /\ overflown = {}

th_seq(p) == U32Of(Isn[p.flow] + p.pos)

\* The flow buffer of a packet; a new one expects the packet itself.
FlowBuf(p) == IF p.flow \in DOMAIN bufs THEN bufs[p.flow]
              ELSE [expected_next |-> th_seq(p), size |-> 0, root |-> {}]

\* The entry that no other is before.
rb_first(root) == CHOOSE e \in root : \A d \in root : ~before(d.seq, e.seq)

\* Due: not after what is expected.
Due(seq, expected) == before(seq, expected) \/ seq = expected

\* An entry leaves the buffer.
send_packet_at(b, e) ==
    [expected_next |-> U32Of(e.seq + e.seg_size),
     size |-> b.size - 1,
     root |-> b.root \ {e}]

\* An entry with the number of the packet, which takes its place.
Collides(b, seq) == \E e \in b.root : e.seq = seq

\* Mutant: the size is counted for a retransmission, too.
InsertCounts(b, seq, seg_size) ==
    [b EXCEPT !.size = @ + 1,
              !.root = {e \in @ : e.seq # seq} \cup {[seq |-> seq, seg_size |-> seg_size]}]

\* The packet is added; a retransmission only leaves the larger size.
insert_or_send_packet(b, seq, seg_size) ==
    IF Collides(b, seq)
    THEN [b EXCEPT !.root = {IF e.seq = seq /\ e.seg_size <= seg_size
                             THEN [seq |-> seq, seg_size |-> seg_size] ELSE e : e \in @}]
    ELSE [b EXCEPT !.size = @ + 1,
                   !.root = @ \cup {[seq |-> seq, seg_size |-> seg_size]}]

\* One turn of the loop that releases what is due.
Release(b) ==
    IF b.root # {} /\ Due(rb_first(b.root).seq, b.expected_next)
    THEN send_packet_at(b, rb_first(b.root)) ELSE b

\* Mutant: one entry is released instead of all that are due.
DrainOnce(b) == Release(b)

\* The loop takes at most as many turns as there are entries.
Drain(b) ==
    LET after[n \in 0..FBUF_SIZ] == IF n = 0 THEN b ELSE Release(after[n - 1])
    IN after[FBUF_SIZ]

\* The packet is due: it sets what is expected, and the buffer is drained.
InOrder(b, p) ==
    /\ Due(th_seq(p), b.expected_next)
    /\ bufs' = [f \in DOMAIN bufs \cup {p.flow} |-> IF f # p.flow THEN bufs[f] ELSE
            Drain([b EXCEPT !.expected_next =
                        U32Of(th_seq(p) + IF p.syn THEN 1 ELSE p.psize)])]
    /\ UNCHANGED reorder_count

\* The packet came early and is kept; a new entry is counted.
Store(b, p) ==
    /\ bufs' = [f \in DOMAIN bufs \cup {p.flow} |-> IF f # p.flow THEN bufs[f] ELSE
            insert_or_send_packet(b, th_seq(p), p.psize)]
    /\ reorder_count' = reorder_count + IF Collides(b, th_seq(p)) THEN 0 ELSE 1

\* The packet came early and the buffer is full: the lowest entry makes room for
\* it.  The two numbers are compared as unsigned integers.
Full(b, p) ==
    LET first == rb_first(b.root)
    IN IF first.seq <= th_seq(p) THEN Store(send_packet_at(b, first), p)
       ELSE UNCHANGED <<bufs, reorder_count>>

rc_handle_packet(p) ==
    LET b == FlowBuf(p)
        early == ~Due(th_seq(p), b.expected_next)
    IN /\ \/ InOrder(b, p)
          \/ early /\ b.size < FBUF_SIZ /\ Store(b, p)
          \/ early /\ b.size >= FBUF_SIZ /\ Full(b, p)
       /\ overflown' = overflown \cup
                       IF early /\ b.size >= FBUF_SIZ THEN {p.flow} ELSE {}

Next == \E p \in Packets : rc_handle_packet(p)

Spec == Init /\ [][Next]_vars
-----------------------------------------------------------------------------
TypeOK ==
    /\ DOMAIN bufs \subseteq Flows
    /\ \A f \in DOMAIN bufs :
            /\ bufs[f].expected_next \in SeqNumbers
            /\ bufs[f].root \subseteq [seq : SeqNumbers, seg_size : Nat]
    /\ reorder_count \in Nat
    /\ overflown \subseteq DOMAIN bufs

\* size is the number of entries, no two of which have the same number, and the
\* buffer never grows beyond its capacity, through overflow and retransmissions.
SizeExact ==
    \A f \in DOMAIN bufs :
        /\ bufs[f].size = Cardinality(bufs[f].root)
        /\ bufs[f].size = Cardinality({e.seq : e \in bufs[f].root})
        /\ bufs[f].size <= FBUF_SIZ

\* As long as its buffer has not overflown, a flow keeps no packet that is due:
\* the loop of rc_handle_packet releases all of them.
NothingDueWaits ==
    \A f \in DOMAIN bufs \ overflown : \A e \in bufs[f].root :
        ~Due(e.seq, bufs[f].expected_next)

\* The number expected only grows (lines 103-106: the packet must equal it, then
\* "Increment expected_num by 1").
ExpectedGrows ==
    [][\A f \in DOMAIN bufs :
            ~before(bufs'[f].expected_next, bufs[f].expected_next)]_vars

\* A packet that comes early when the buffer is full and is not the lowest drives
\* the lowest entry out (lines 157-161: "IF (selected_packet_num less than
\* current_packet_num) ... Release selected packet").
LowestMakesRoom ==
    [][\A p \in Packets :
        LET b == FlowBuf(p)
            first == rb_first(b.root)
        IN /\ rc_handle_packet(p)
           /\ ~Due(th_seq(p), b.expected_next)
           /\ b.size >= FBUF_SIZ
           /\ before(first.seq, th_seq(p))
           => first \notin bufs'[p.flow].root]_vars
=============================================================================
