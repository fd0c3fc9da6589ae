-------------------------- MODULE TcpCounterProofs --------------------------
(***************************************************************************)
(* TcpCounter implements ReorderMetric, for all connections, packets and   *)
(* initial sequence numbers, and its count is the number of packets that   *)
(* are late with respect to all that arrived.                              *)
(***************************************************************************)
EXTENDS TcpCounterLog, SeqSpaceProofs, FiniteSetTheorems

(***************************************************************************)
(* Every flow buffer expects a position within half of the space.          *)
(***************************************************************************)
Inv == /\ TypeOK
       /\ \A f \in DOMAIN expected_next : Position(f) \in 0..Half - 1

\* What the assumptions say of one packet.
LEMMA PacketFacts ==
    ASSUME NEW p \in Packets
    PROVE  /\ Connection(p) \in Ports \X Ports /\ FlowKey(p) = Connection(p)
           /\ p.pos \in 0..Half - 1 /\ p.pos \in Nat
           /\ Advance(p) \in Nat /\ p.pos + Advance(p) \in 0..Half - 1
           /\ Isn[Connection(p)] \in SeqNumbers
           /\ th_seq(p) \in SeqNumbers
<1>1. p \in PacketType /\ p.pos + Advance(p) < Half
    BY TcpAssumption
<1>2. Connection(p) \in Ports \X Ports /\ FlowKey(p) = Connection(p)
    BY <1>1 DEF PacketType, Connection, FlowKey
<1>3. p.pos \in Nat /\ Advance(p) \in Nat
    BY <1>1 DEF PacketType, Advance
<1>4. Isn[Connection(p)] \in SeqNumbers
    BY <1>2, TcpAssumption
<1>5. th_seq(p) \in SeqNumbers
    BY <1>1, <1>3, <1>4, U32Turn, HalfAssumption DEF th_seq, SeqNumbers
<1> QED
    BY <1>1, <1>2, <1>3, <1>4, <1>5, HalfAssumption

\* before decides as the metric does.
LEMMA Decides ==
    ASSUME Inv, NEW p \in Packets
    PROVE  before(th_seq(p), Expected(p)) <=>
             p.pos < (IF Connection(p) \in DOMAIN expected_next
                      THEN Position(Connection(p)) ELSE p.pos)
<1> DEFINE f == Connection(p)
<1>1. /\ f \in Ports \X Ports /\ FlowKey(p) = f
      /\ p.pos \in 0..Half - 1 /\ Isn[f] \in SeqNumbers
    BY PacketFacts
<1>2. th_seq(p) = U32Of(Isn[f] + p.pos)
    BY DEF th_seq
<1> HIDE DEF f
<1>3. CASE f \in DOMAIN expected_next
    <2>1. expected_next[f] \in SeqNumbers /\ Position(f) \in 0..Half - 1
        BY <1>3 DEF Inv, TypeOK
    <2>2. expected_next[f] = U32Of(Isn[f] + Position(f))
        BY <1>1, <2>1, NumberOfPosition DEF Position
    <2>3. Expected(p) = U32Of(Isn[f] + Position(f))
        BY <1>1, <1>3, <2>2 DEF Expected
    <2>4. before(th_seq(p), Expected(p)) <=> p.pos < Position(f)
        BY <1>1, <1>2, <2>1, <2>3, BeforeIsLess
    <2> QED
        BY <1>3, <2>4 DEF f
<1>4. CASE f \notin DOMAIN expected_next
    <2>1. Expected(p) = U32Of(Isn[f] + p.pos)
        BY <1>1, <1>2, <1>4 DEF Expected
    <2>2. before(th_seq(p), Expected(p)) <=> p.pos < p.pos
        BY <1>1, <1>2, <2>1, BeforeIsLess
    <2> QED
        BY <1>4, <2>2 DEF f
<1> QED
    BY <1>3, <1>4

\* A packet in sequence moves its flow to its end and leaves the others.
LEMMA Moves ==
    ASSUME Inv, NEW p \in Packets,
           expected_next' = [g \in DOMAIN expected_next \cup {FlowKey(p)} |->
                IF g = FlowKey(p) THEN U32Of(th_seq(p) + Advance(p))
                                  ELSE expected_next[g]]
    PROVE  /\ DOMAIN expected_next' = DOMAIN expected_next \cup {Connection(p)}
           /\ expected_next' \in [DOMAIN expected_next' -> SeqNumbers]
           /\ DOMAIN expected_next' \subseteq Ports \X Ports
           /\ Position(Connection(p))' = p.pos + Advance(p)
           /\ \A g \in DOMAIN expected_next \ {Connection(p)} : Position(g)' = Position(g)
<1> DEFINE f == Connection(p)
           e == U32Of(th_seq(p) + Advance(p))
<1>1. /\ f \in Ports \X Ports /\ FlowKey(p) = f
      /\ p.pos \in Nat /\ Advance(p) \in Nat /\ p.pos + Advance(p) \in 0..Half - 1
      /\ Isn[f] \in SeqNumbers /\ th_seq(p) \in SeqNumbers
    BY PacketFacts
<1>2. e = U32Of(Isn[f] + p.pos + Advance(p))
    BY <1>1, AddWraps, HalfAssumption DEF th_seq
<1>3. Isn[f] + p.pos + Advance(p) = Isn[f] + (p.pos + Advance(p))
    BY <1>1 DEF SeqNumbers
<1>4. e = U32Of(Isn[f] + (p.pos + Advance(p)))
    BY <1>2, <1>3
<1>5. U32Of(e - Isn[f]) = p.pos + Advance(p)
    BY <1>1, <1>4, PositionOfNumber
<1>6. e \in SeqNumbers
    BY <1>1, U32Turn, HalfAssumption DEF SeqNumbers
<1> HIDE DEF e, f
<1>7. expected_next' = [g \in DOMAIN expected_next \cup {f} |->
                            IF g = f THEN e ELSE expected_next[g]]
    BY <1>1 DEF e
<1>8. /\ DOMAIN expected_next' = DOMAIN expected_next \cup {f}
      /\ expected_next'[f] = e
      /\ \A g \in DOMAIN expected_next \ {f} : expected_next'[g] = expected_next[g]
    BY <1>7
<1>9. expected_next' \in [DOMAIN expected_next' -> SeqNumbers]
    BY <1>6, <1>7, <1>8 DEF Inv, TypeOK
<1>10. DOMAIN expected_next' \subseteq Ports \X Ports
    BY <1>1, <1>8 DEF Inv, TypeOK
<1>11. Position(f)' = p.pos + Advance(p)
    BY <1>5, <1>8 DEF Position
<1>12. \A g \in DOMAIN expected_next \ {f} : Position(g)' = Position(g)
    BY <1>8 DEF Position
<1> QED
    BY <1>8, <1>9, <1>10, <1>11, <1>12 DEF f

LEMMA InvStep ==
    ASSUME Inv, [Next]_vars
    PROVE  Inv'
<1>1. CASE UNCHANGED expected_next /\ buffer' \subseteq Packets /\ reorder_count' \in Nat
           /\ written' \in Nat \cup {NotWritten}
    BY <1>1 DEF Inv, TypeOK, Position
<1>2. CASE UNCHANGED vars
    BY <1>1, <1>2 DEF vars, Inv, TypeOK
<1>3. CASE catch_function
    BY <1>1, <1>3 DEF catch_function, Inv, TypeOK
<1>4. ASSUME NEW p \in Packets, rc_handle_packet(p)
      PROVE  Inv'
    <2>1. CASE before(th_seq(p), Expected(p))
        BY <1>1, <1>4, <2>1 DEF rc_handle_packet, Inv, TypeOK
    <2>2. CASE ~before(th_seq(p), Expected(p))
        <3>1. /\ expected_next' = [g \in DOMAIN expected_next \cup {FlowKey(p)} |->
                    IF g = FlowKey(p) THEN U32Of(th_seq(p) + Advance(p))
                                      ELSE expected_next[g]]
              /\ UNCHANGED <<reorder_count, written>> /\ buffer' = {p}
            BY <1>4, <2>2 DEF rc_handle_packet
        <3>2. /\ DOMAIN expected_next' = DOMAIN expected_next \cup {Connection(p)}
              /\ expected_next' \in [DOMAIN expected_next' -> SeqNumbers]
              /\ DOMAIN expected_next' \subseteq Ports \X Ports
              /\ Position(Connection(p))' = p.pos + Advance(p)
              /\ \A g \in DOMAIN expected_next \ {Connection(p)} : Position(g)' = Position(g)
            BY <3>1, Moves
        <3>3. p.pos + Advance(p) \in 0..Half - 1
            BY PacketFacts
        <3>4. TypeOK'
            BY <3>1, <3>2 DEF Inv, TypeOK
        <3>5. \A g \in DOMAIN expected_next' : Position(g)' \in 0..Half - 1
            BY <3>2, <3>3 DEF Inv
        <3> QED
            BY <3>4, <3>5 DEF Inv
    <2> QED
        BY <2>1, <2>2
<1> QED
    BY <1>2, <1>3, <1>4 DEF Next

\* Every step of the counter is a step of the metric.
LEMMA MetricStep ==
    ASSUME Inv, [Next]_vars
    PROVE  [Metric!Next]_(Metric!vars)
<1> DEFINE hi == [f \in DOMAIN expected_next |-> Position(f)]
<1>1. CASE UNCHANGED vars
    BY <1>1 DEF vars, Metric!vars, Position, Connection
<1>2. CASE catch_function
    <2>1. Metric!Report
        BY <1>2 DEF catch_function, Metric!Report, Metric!None, NotWritten, Position, Connection
    <2> QED
        BY <2>1 DEF Metric!Next
<1>3. ASSUME NEW p \in Packets, rc_handle_packet(p)
      PROVE  Metric!Next
    <2> DEFINE f == Connection(p)
               seg == SegmentOf(p)
    <2>1. before(th_seq(p), Expected(p)) <=> p.pos < Metric!NextExp(f, seg)
        BY Decides DEF Metric!NextExp, SegmentOf
    <2>2. written = Metric!None /\ written' = written
        BY <1>3 DEF rc_handle_packet, NotWritten, Metric!None
    <2>3. /\ p.pos \in Int /\ Metric!NextExp(f, seg) \in Int
          /\ f \in Ports \X Ports
        BY PacketFacts DEF Inv, Metric!NextExp, SegmentOf
    <2>4. {<<Connection(q), SegmentOf(q)>> : q \in buffer}' = {<<f, seg>>}
        <3>1. buffer' = {p}
            BY <1>3 DEF rc_handle_packet
        <3> QED
            BY <3>1 DEF Connection, SegmentOf, Advance
    <2>5. seg.pos = p.pos /\ seg.len = Advance(p)
        BY DEF SegmentOf
    <2>6. CASE before(th_seq(p), Expected(p))
        <3>1. reorder_count' = reorder_count + 1 /\ expected_next' = expected_next
            BY <1>3, <2>6 DEF rc_handle_packet
        <3>2. Metric!Arrive(f, seg)
            BY <2>1, <2>2, <2>6, <2>4, <2>5, <3>1 DEF Metric!Arrive, Position
        <3> QED
            BY <2>3, <3>2 DEF Metric!Next
    <2>7. CASE ~before(th_seq(p), Expected(p))
        <3>1. /\ expected_next' = [g \in DOMAIN expected_next \cup {FlowKey(p)} |->
                    IF g = FlowKey(p) THEN U32Of(th_seq(p) + Advance(p))
                                      ELSE expected_next[g]]
              /\ reorder_count' = reorder_count
            BY <1>3, <2>7 DEF rc_handle_packet
        <3>2. /\ DOMAIN expected_next' = DOMAIN expected_next \cup {f}
              /\ Position(f)' = p.pos + Advance(p)
              /\ \A g \in DOMAIN expected_next \ {f} : Position(g)' = Position(g)
            BY <3>1, Moves
        <3>3. hi' = [g \in DOMAIN hi \cup {f} |->
                        IF g = f THEN seg.pos + seg.len ELSE hi[g]]
            BY <2>5, <3>2
        <3>4. seg.pos >= Metric!NextExp(f, seg)
            BY <2>1, <2>3, <2>7, <2>5
        <3>5. Metric!Arrive(f, seg)
            BY <2>2, <2>4, <3>1, <3>3, <3>4 DEF Metric!Arrive
        <3> QED
            BY <2>3, <3>5 DEF Metric!Next
    <2> QED
        BY <2>6, <2>7
<1> QED
    BY <1>1, <1>2, <1>3 DEF Next

LEMMA InvInit ==
    ASSUME Init
    PROVE  Inv
    BY DEF Init, Inv, TypeOK

\* What a flow expects stays a sequence number and the count a number.
THEOREM CounterTypes == Spec => []TypeOK
<1>1. Init => Inv
    BY InvInit
<1>2. Inv /\ [Next]_vars => Inv'
    BY InvStep
<1>3. Inv => TypeOK
    BY DEF Inv
<1> QED
    BY <1>1, <1>2, <1>3, PTL DEF Spec

\* The counter of tcp_reordercounter.c counts what the metric counts, although it
\* sees sequence numbers that wrap and packets of all connections interleaved.
THEOREM CounterCorrect == Spec => CountsReordering
<1>1. Init => Inv
    BY InvInit
<1>2. Inv /\ [Next]_vars => Inv'
    BY InvStep
<1>3. Init => Metric!Init
    BY DEF Init, Metric!Init, Metric!None, NotWritten
<1>4. Inv /\ [Next]_vars => [Metric!Next]_(Metric!vars)
    BY MetricStep
<1> QED
    BY <1>1, <1>2, <1>3, <1>4, PTL DEF Spec, CountsReordering, Metric!Spec
-----------------------------------------------------------------------------
(***************************************************************************)
(* The one number that is kept of a connection is the largest end of its   *)
(* packets in the log.                                                     *)
(***************************************************************************)
Of(f) == {j \in DOMAIN log : Connection(log[j]) = f}

LogInv ==
    /\ Inv
    /\ log \in Seq(Packets)
    /\ \A f \in DOMAIN expected_next :
            /\ \A j \in Of(f) : Ends(log[j]) <= Position(f)
            /\ \E j \in Of(f) : Ends(log[j]) = Position(f)
    /\ \A j \in DOMAIN log : Connection(log[j]) \in DOMAIN expected_next
    /\ IsFiniteSet(Late)
    /\ reorder_count = Cardinality(Late)

\* before decides whether a packet that is new to the log is late.
LEMMA DecidesLate ==
    ASSUME LogInv, NEW p \in Packets
    PROVE  before(th_seq(p), Expected(p)) <=>
             \E j \in DOMAIN log : Connection(log[j]) = Connection(p) /\ Ends(log[j]) > p.pos
<1> DEFINE f == Connection(p)
<1>1. Inv /\ p.pos \in Nat
    BY PacketFacts DEF LogInv
<1>2. \A j \in DOMAIN log : log[j] \in Packets /\ Ends(log[j]) \in Nat
    BY PacketFacts, HalfAssumption DEF LogInv, Ends
<1>3. CASE f \in DOMAIN expected_next
    <2>1. before(th_seq(p), Expected(p)) <=> p.pos < Position(f)
        BY <1>1, <1>3, Decides
    <2>2. Position(f) \in Nat
        BY <1>1, <1>3, HalfAssumption DEF Inv
    <2>3. /\ \A j \in DOMAIN log : Connection(log[j]) = f => Ends(log[j]) <= Position(f)
          /\ \E j \in DOMAIN log : Connection(log[j]) = f /\ Ends(log[j]) = Position(f)
        BY <1>3 DEF LogInv, Of
    <2> HIDE DEF f
    <2>4. p.pos < Position(f) <=>
            \E j \in DOMAIN log : Connection(log[j]) = f /\ Ends(log[j]) > p.pos
        BY <1>1, <1>2, <2>2, <2>3
    <2> QED
        BY <2>1, <2>4 DEF f
<1>4. CASE f \notin DOMAIN expected_next
    <2>1. ~before(th_seq(p), Expected(p))
        BY <1>1, <1>4, Decides
    <2>2. ~\E j \in DOMAIN log : Connection(log[j]) = f
        BY <1>4 DEF LogInv
    <2> QED
        BY <2>1, <2>2
<1> QED
    BY <1>3, <1>4

\* The log after one more packet.
LEMMA LogGrows ==
    ASSUME LogInv, NEW p \in Packets, log' = Append(log, p)
    PROVE  /\ Len(log) \in Nat /\ log' \in Seq(Packets)
           /\ DOMAIN log = 1..Len(log) /\ DOMAIN log' = 1..Len(log) + 1
           /\ log'[Len(log) + 1] = p /\ \A i \in 1..Len(log) : log'[i] = log[i]
<1>1. log \in Seq(Packets)
    BY DEF LogInv
<1>2. /\ Len(log) \in Nat /\ log' \in Seq(Packets) /\ Len(log') = Len(log) + 1
      /\ log'[Len(log) + 1] = p /\ \A i \in 1..Len(log) : log'[i] = log[i]
    BY <1>1
<1> QED
    BY <1>1, <1>2

LEMMA LateGrows ==
    ASSUME LogInv, NEW p \in Packets, log' = Append(log, p)
    PROVE  /\ Len(log) + 1 \notin Late
           /\ Late' = Late \cup
                IF before(th_seq(p), Expected(p)) THEN {Len(log) + 1} ELSE {}
<1> DEFINE n == Len(log) + 1
           late == before(th_seq(p), Expected(p))
           t == log'
<1>1. /\ Len(log) \in Nat /\ DOMAIN log = 1..Len(log) /\ DOMAIN t = 1..n
      /\ t[n] = p /\ \A i \in 1..Len(log) : t[i] = log[i]
    BY LogGrows
<1>2. late <=> \E j \in 1..Len(log) : Connection(log[j]) = Connection(p)
                                      /\ Ends(log[j]) > p.pos
    BY <1>1, DecidesLate
<1>3. Late' = {i \in DOMAIN t : \E j \in 1..i - 1 :
                Connection(t[j]) = Connection(t[i]) /\ Ends(t[j]) > t[i].pos}
    BY DEF Late, Connection, Ends, Advance
<1> HIDE DEF late, t
<1>4. \A i \in 1..Len(log) : i \in Late' <=> i \in Late
    <2> TAKE i \in 1..Len(log)
    <2>1. i \in 1..n /\ t[i] = log[i] /\ \A j \in 1..i - 1 : t[j] = log[j]
        BY <1>1
    <2> QED
        BY <1>1, <1>3, <2>1 DEF Late
<1>5. n \in Late' <=> late
    <2>1. n \in 1..n /\ n - 1 = Len(log)
        BY <1>1
    <2> QED
        BY <1>1, <1>2, <1>3, <2>1
<1>6. 1..n = 1..Len(log) \cup {n} /\ n \notin 1..Len(log)
    BY <1>1
<1>7. Late \subseteq 1..Len(log) /\ Late' \subseteq 1..n
    BY <1>1, <1>3 DEF Late
<1>8. Late' = Late \cup IF late THEN {n} ELSE {}
    BY <1>4, <1>5, <1>6, <1>7
<1> QED
    BY <1>6, <1>7, <1>8 DEF late

LEMMA LogInvStep ==
    ASSUME LogInv, [NextLogged]_varsLogged
    PROVE  LogInv'
<1>1. ASSUME UNCHANGED <<expected_next, reorder_count, log>>, Inv' PROVE LogInv'
    <2>1. Late' = Late
        BY <1>1 DEF Late, Connection, Ends, Advance
    <2> QED
        BY <1>1, <2>1 DEF LogInv, Of, Connection, Ends, Advance, Position
<1>2. CASE UNCHANGED varsLogged
    BY <1>1, <1>2, InvStep DEF varsLogged, vars, LogInv
<1>3. CASE catch_function /\ UNCHANGED log
    BY <1>1, <1>3, InvStep DEF catch_function, LogInv, Next
<1>4. ASSUME NEW p \in Packets, rc_handle_packet(p), log' = Append(log, p)
      PROVE  LogInv'
    <2> DEFINE f == Connection(p)
               n == Len(log) + 1
               late == before(th_seq(p), Expected(p))
    <2>1. Inv /\ Inv'
        BY <1>4, InvStep DEF LogInv, Next
    <2>2. /\ Len(log) \in Nat /\ log' \in Seq(Packets)
          /\ DOMAIN log = 1..Len(log) /\ DOMAIN log' = 1..n
          /\ log'[n] = p /\ \A i \in 1..Len(log) : log'[i] = log[i]
        BY <1>4, LogGrows
    <2>3. n \notin Late /\ Late' = Late \cup IF late THEN {n} ELSE {}
        BY <1>4, LateGrows
    <2>4. IsFiniteSet(Late) /\ reorder_count = Cardinality(Late) /\ reorder_count \in Nat
        BY <2>1 DEF LogInv, Inv, TypeOK
    <2>5. late => reorder_count' = reorder_count + 1 /\ expected_next' = expected_next
        BY <1>4 DEF rc_handle_packet
    <2>6. ~late => reorder_count' = reorder_count
        BY <1>4 DEF rc_handle_packet
    <2>7. late <=> \E j \in DOMAIN log : Connection(log[j]) = f /\ Ends(log[j]) > p.pos
        BY DecidesLate
    <2>8. IsFiniteSet(Late') /\ reorder_count' = Cardinality(Late')
        <3>1. CASE late
            BY <2>3, <2>4, <2>5, <3>1, FS_AddElement
        <3>2. CASE ~late
            <4>1. Late' = Late
                BY <2>3, <3>2
            <4> QED
                BY <2>4, <2>6, <3>2, <4>1
        <3> QED
            BY <3>1, <3>2
    <2>9. n \in 1..n /\ 1..n = 1..Len(log) \cup {n} /\ n \notin 1..Len(log)
        BY <2>2
    <2>10. \A g : Of(g)' = Of(g) \cup IF g = f THEN {n} ELSE {}
        BY <2>2, <2>9 DEF Of, Connection
    <2>11. /\ p.pos \in Nat /\ Ends(p) \in Nat /\ p.pos <= Ends(p)
           /\ \A j \in DOMAIN log : log[j] \in Packets /\ Ends(log[j]) \in Nat
        BY PacketFacts, HalfAssumption DEF LogInv, Ends
    <2>12. CASE late
        <3>1. PICK j \in DOMAIN log : Connection(log[j]) = f /\ Ends(log[j]) > p.pos
            BY <2>7, <2>12
        <3>2. f \in DOMAIN expected_next /\ expected_next' = expected_next
            BY <2>5, <2>12, <3>1 DEF LogInv
        <3>3. Ends(p) <= Ends(log[j])
            BY <2>11, <3>1, BoundariesAssumption
        <3>4. Ends(log[j]) <= Position(f) /\ Position(f) \in Nat
            BY <2>1, <3>1, <3>2, HalfAssumption DEF LogInv, Of, Inv
        <3>5. Ends(p) <= Position(f)
            BY <2>11, <3>3, <3>4
        <3>6. ASSUME NEW g \in DOMAIN expected_next'
              PROVE  /\ \A i \in Of(g)' : Ends(log'[i]) <= Position(g)'
                     /\ \E i \in Of(g)' : Ends(log'[i]) = Position(g)'
            <4>1. Position(g)' = Position(g) /\ g \in DOMAIN expected_next
                BY <3>2 DEF Position
            <4>2. Of(g) \subseteq 1..Len(log)
                BY <2>2 DEF Of
            <4>3. /\ \A i \in Of(g) : Ends(log[i]) <= Position(g)
                  /\ \E i \in Of(g) : Ends(log[i]) = Position(g)
                BY <4>1 DEF LogInv
            <4>4. \A i \in Of(g) : log'[i] = log[i]
                BY <2>2, <4>2
            <4> QED
                BY <2>2, <2>10, <3>5, <4>1, <4>3, <4>4
        <3>7. \A i \in DOMAIN log' : Connection(log'[i]) \in DOMAIN expected_next'
            BY <2>2, <2>9, <3>2 DEF LogInv
        <3> QED
            BY <2>1, <2>2, <2>8, <3>6, <3>7 DEF LogInv, Connection, Ends, Advance
    <2>13. CASE ~late
        <3>1. expected_next' = [g \in DOMAIN expected_next \cup {FlowKey(p)} |->
                IF g = FlowKey(p) THEN U32Of(th_seq(p) + Advance(p))
                                  ELSE expected_next[g]]
            BY <1>4, <2>13 DEF rc_handle_packet
        <3>2. /\ DOMAIN expected_next' = DOMAIN expected_next \cup {f}
              /\ Position(f)' = Ends(p)
              /\ \A g \in DOMAIN expected_next \ {f} : Position(g)' = Position(g)
            BY <2>1, <3>1, Moves DEF Ends
        <3>3. ASSUME NEW g \in DOMAIN expected_next'
              PROVE  /\ \A i \in Of(g)' : Ends(log'[i]) <= Position(g)'
                     /\ \E i \in Of(g)' : Ends(log'[i]) = Position(g)'
            <4>1. Of(g) \subseteq 1..Len(log)
                BY <2>2 DEF Of
            <4>2. \A i \in Of(g) : log'[i] = log[i]
                BY <2>2, <4>1
            <4>3. CASE g = f
                <5>1. \A i \in Of(g) : Ends(log[i]) <= p.pos
                    BY <2>7, <2>11, <2>13, <4>3 DEF Of
                <5>2. \A i \in Of(g) : Ends(log[i]) <= Ends(p)
                    BY <2>11, <5>1 DEF Of
                <5>3. Of(g)' = Of(g) \cup {n}
                    BY <2>10, <4>3
                <5> QED
                    BY <2>2, <2>11, <3>2, <4>2, <4>3, <5>2, <5>3
            <4>4. CASE g # f
                <5>1. Of(g)' = Of(g) /\ g \in DOMAIN expected_next /\ Position(g)' = Position(g)
                    BY <2>10, <3>2, <4>4
                <5> QED
                    BY <4>2, <5>1 DEF LogInv
            <4> QED
                BY <4>3, <4>4
        <3>4. \A i \in DOMAIN log' : Connection(log'[i]) \in DOMAIN expected_next'
            BY <2>2, <2>9, <3>2 DEF LogInv
        <3> QED
            BY <2>1, <2>2, <2>8, <3>3, <3>4 DEF LogInv, Connection, Ends, Advance
    <2> QED
        BY <2>12, <2>13
<1> QED
    BY <1>2, <1>3, <1>4 DEF NextLogged

\* rc_handle_packet keeps one number of a connection, and that is enough: its count
\* is the number of packets that are late with respect to everything that arrived.
THEOREM CountCorrect == SpecLogged => []CountExact
<1>1. InitLogged => LogInv
    <2> SUFFICES ASSUME InitLogged PROVE LogInv
        OBVIOUS
    <2>1. Inv
        BY InvInit DEF InitLogged
    <2>2. Late = {} /\ log \in Seq(Packets) /\ DOMAIN log = {} /\ DOMAIN expected_next = {}
        BY DEF InitLogged, Init, Late
    <2> QED
        BY <2>1, <2>2, FS_EmptySet DEF LogInv, InitLogged, Init
<1>2. LogInv /\ [NextLogged]_varsLogged => LogInv'
    BY LogInvStep
<1>3. LogInv => CountExact
    BY DEF LogInv, CountExact
<1> QED
    BY <1>1, <1>2, <1>3, PTL DEF SpecLogged
=============================================================================
