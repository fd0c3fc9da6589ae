------------------------- MODULE ResequencerProofs -------------------------
(***************************************************************************)
(* The buffer of Resequencer stays within its capacity and keeps nothing   *)
(* that is due, for all flows, packets and capacities.                     *)
(***************************************************************************)
EXTENDS ResequencerGaps, SeqSpaceProofs, Induction, FiniteSetTheorems

\* The position of the stream of flow f that a sequence number stands for.
Pos(f, n) == U32Of(n - Isn[f])

Entry == [seq : SeqNumbers, seg_size : Nat]

(***************************************************************************)
(* What a flow buffer is at every moment: its numbers lie within half of   *)
(* the sequence space, no two entries have the same number, and size is    *)
(* the number of entries.                                                  *)
(***************************************************************************)
Buffer(f) ==
    {b \in [expected_next : SeqNumbers, size : Nat, root : SUBSET Entry] :
        /\ Pos(f, b.expected_next) < Half
        /\ \A e \in b.root : Pos(f, e.seq) + e.seg_size < Half
        /\ \A d, e \in b.root : d.seq = e.seq => d = e
        /\ IsFiniteSet(b.root)
        /\ b.size = Cardinality(b.root)}

Inv ==
    /\ DOMAIN bufs \subseteq Flows
    /\ \A f \in DOMAIN bufs : bufs[f] \in Buffer(f) /\ bufs[f].size <= FBUF_SIZ
    /\ NothingDueWaits
    /\ reorder_count \in Nat
    /\ overflown \subseteq DOMAIN bufs
-----------------------------------------------------------------------------
(***************************************************************************)
(* Sequence numbers and positions.                                         *)
(***************************************************************************)
LEMMA DueIsLeq ==
    ASSUME NEW f \in Flows, NEW a \in SeqNumbers, NEW b \in SeqNumbers,
           Pos(f, a) < Half, Pos(f, b) < Half
    PROVE  /\ before(a, b) <=> Pos(f, a) < Pos(f, b)
           /\ Due(a, b) <=> Pos(f, a) <= Pos(f, b)
           /\ Pos(f, a) \in Nat /\ Pos(f, b) \in Nat
           /\ a = b <=> Pos(f, a) = Pos(f, b)
<1>1. Isn[f] \in SeqNumbers
    BY ReseqAssumption
<1>2. /\ a = U32Of(Isn[f] + Pos(f, a)) /\ b = U32Of(Isn[f] + Pos(f, b))
      /\ Pos(f, a) \in SeqNumbers /\ Pos(f, b) \in SeqNumbers
    BY <1>1, NumberOfPosition DEF Pos
<1>3. Pos(f, a) \in 0..Half - 1 /\ Pos(f, b) \in 0..Half - 1
    BY <1>2, HalfAssumption DEF SeqNumbers
<1>4. before(a, b) <=> Pos(f, a) < Pos(f, b)
    BY <1>1, <1>2, <1>3, BeforeIsLess
<1>5. a = b <=> Pos(f, a) = Pos(f, b)
    BY <1>2
<1> QED
    BY <1>3, <1>4, <1>5 DEF Due

LEMMA PosAdds ==
    ASSUME NEW f \in Flows, NEW a \in SeqNumbers, NEW n \in Nat, Pos(f, a) + n < Half
    PROVE  U32Of(a + n) \in SeqNumbers /\ Pos(f, U32Of(a + n)) = Pos(f, a) + n
<1> DEFINE p == Pos(f, a)
<1>1. Isn[f] \in SeqNumbers
    BY ReseqAssumption
<1>2. a = U32Of(Isn[f] + p) /\ p \in SeqNumbers
    BY <1>1, NumberOfPosition DEF Pos
<1>3. p \in Nat /\ p + n < Half /\ p + n \in 0..Half - 1
    BY <1>2, HalfAssumption DEF SeqNumbers
<1> HIDE DEF p
<1>4. U32Of(a + n) = U32Of(Isn[f] + p + n)
    BY <1>1, <1>2, <1>3, AddWraps
<1>5. Isn[f] + p + n = Isn[f] + (p + n)
    BY <1>1, <1>3 DEF SeqNumbers
<1>6. U32Of(U32Of(Isn[f] + (p + n)) - Isn[f]) = p + n
    BY <1>1, <1>3, PositionOfNumber
<1>7. U32Of(a + n) \in SeqNumbers
    BY <1>1, <1>3, <1>4, U32Turn, HalfAssumption DEF SeqNumbers
<1> QED
    BY <1>4, <1>5, <1>6, <1>7 DEF Pos, p

\* What the assumptions say of a packet.
LEMMA PacketFacts ==
    ASSUME NEW p \in Packets
    PROVE  /\ p.flow \in Flows /\ p.pos \in Nat /\ p.psize \in Nat
           /\ th_seq(p) \in SeqNumbers
           /\ Pos(p.flow, th_seq(p)) = p.pos
           /\ p.pos + p.psize + 1 < Half
<1>1. p \in PacketType /\ p.pos + p.psize + 1 < Half
    BY ReseqAssumption
<1>2. p.flow \in Flows /\ p.pos \in Nat /\ p.psize \in Nat
    BY <1>1 DEF PacketType
<1>3. Isn[p.flow] \in SeqNumbers /\ p.pos \in 0..Half - 1
    BY <1>1, <1>2, ReseqAssumption, HalfAssumption
<1>4. th_seq(p) \in SeqNumbers
    BY <1>3, U32Turn, HalfAssumption DEF th_seq, SeqNumbers
<1>5. Pos(p.flow, th_seq(p)) = p.pos
    BY <1>3, PositionOfNumber DEF Pos, th_seq
<1> QED
    BY <1>1, <1>2, <1>4, <1>5
-----------------------------------------------------------------------------
(***************************************************************************)
(* The operations on one flow buffer.                                      *)
(***************************************************************************)
LEMMA BufferFacts ==
    ASSUME NEW f \in Flows, NEW b \in Buffer(f)
    PROVE  /\ b = [expected_next |-> b.expected_next, size |-> b.size, root |-> b.root]
           /\ b.expected_next \in SeqNumbers /\ Pos(f, b.expected_next) < Half
           /\ b.size \in Nat /\ IsFiniteSet(b.root) /\ b.size = Cardinality(b.root)
           /\ \A d, e \in b.root : d.seq = e.seq => d = e
           /\ \A e \in b.root :
                /\ e \in Entry /\ e.seq \in SeqNumbers /\ e.seg_size \in Nat
                /\ Pos(f, e.seq) + e.seg_size < Half
                /\ Pos(f, e.seq) \in Nat /\ Pos(f, e.seq) < Half
<1>1. /\ b \in [expected_next : SeqNumbers, size : Nat, root : SUBSET Entry]
      /\ Pos(f, b.expected_next) < Half
      /\ \A e \in b.root : Pos(f, e.seq) + e.seg_size < Half
      /\ \A d, e \in b.root : d.seq = e.seq => d = e
      /\ IsFiniteSet(b.root) /\ b.size = Cardinality(b.root)
    BY DEF Buffer
<1>2. ASSUME NEW e \in b.root
      PROVE  /\ e \in Entry /\ e.seq \in SeqNumbers /\ e.seg_size \in Nat
             /\ Pos(f, e.seq) \in Nat /\ Pos(f, e.seq) < Half
    <2>1. e \in Entry /\ e.seq \in SeqNumbers /\ e.seg_size \in Nat
        BY <1>1 DEF Entry
    <2>2. Isn[f] \in SeqNumbers
        BY ReseqAssumption
    <2>3. Pos(f, e.seq) \in SeqNumbers
        BY <2>1, <2>2, NumberOfPosition DEF Pos
    <2>4. Pos(f, e.seq) \in Nat
        BY <2>3, HalfAssumption DEF SeqNumbers
    <2> QED
        BY <1>1, <2>1, <2>4, HalfAssumption
<1> QED
    BY <1>1, <1>2

\* rb_first is an entry, and the one with the lowest position.
LEMMA FirstIsLowest ==
    ASSUME NEW f \in Flows, NEW b \in Buffer(f), b.root # {}
    PROVE  /\ rb_first(b.root) \in b.root
           /\ \A d \in b.root : Pos(f, rb_first(b.root).seq) <= Pos(f, d.seq)
<1> DEFINE T == {Pos(f, e.seq) : e \in b.root}
<1>1. T \in SUBSET Nat /\ T # {}
    BY BufferFacts
<1>2. PICK x \in T : \A y \in T : x <= y
    <2> HIDE DEF T
    <2> QED BY <1>1, LeastNatural
<1>3. PICK e \in b.root : \A d \in b.root : Pos(f, e.seq) <= Pos(f, d.seq)
    BY <1>2
<1>4. \A c, d \in b.root : before(d.seq, c.seq) <=> Pos(f, d.seq) < Pos(f, c.seq)
    BY BufferFacts, DueIsLeq
<1>5. \A d \in b.root : ~before(d.seq, e.seq)
    BY <1>3, <1>4, BufferFacts
<1>6. /\ rb_first(b.root) \in b.root
      /\ \A d \in b.root : ~before(d.seq, rb_first(b.root).seq)
    BY <1>5, Zenon DEF rb_first
<1> QED
    BY <1>4, <1>6, BufferFacts

\* An entry that leaves moves what is expected to its end.
LEMMA Sends ==
    ASSUME NEW f \in Flows, NEW b \in Buffer(f), NEW e \in b.root
    PROVE  /\ send_packet_at(b, e) \in Buffer(f)
           /\ send_packet_at(b, e).root = b.root \ {e}
           /\ send_packet_at(b, e).size = b.size - 1
           /\ Pos(f, send_packet_at(b, e).expected_next) = Pos(f, e.seq) + e.seg_size
<1> DEFINE c == send_packet_at(b, e)
<1>1. /\ c.expected_next = U32Of(e.seq + e.seg_size)
      /\ c.size = b.size - 1 /\ c.root = b.root \ {e}
      /\ c = [expected_next |-> c.expected_next, size |-> c.size, root |-> c.root]
    BY DEF send_packet_at
<1> HIDE DEF c
<1>2. c.expected_next \in SeqNumbers /\ Pos(f, c.expected_next) = Pos(f, e.seq) + e.seg_size
    BY <1>1, BufferFacts, PosAdds
<1>3. IsFiniteSet(c.root) /\ c.size = Cardinality(c.root) /\ Cardinality(c.root) \in Nat
    BY <1>1, BufferFacts, FS_RemoveElement, FS_CardinalityType
<1>4. c.root \in SUBSET Entry
    BY <1>1, BufferFacts
<1>5. c \in [expected_next : SeqNumbers, size : Nat, root : SUBSET Entry]
    BY <1>1, <1>2, <1>3, <1>4
<1>6. /\ Pos(f, c.expected_next) < Half
      /\ \A d \in c.root : Pos(f, d.seq) + d.seg_size < Half
      /\ \A d, g \in c.root : d.seq = g.seq => d = g
    BY <1>1, <1>2, BufferFacts
<1>7. c \in Buffer(f)
    BY <1>3, <1>5, <1>6 DEF Buffer
<1> QED
    BY <1>1, <1>2, <1>7 DEF c
\* A packet that is kept adds an entry, or enlarges the one with its number.
LEMMA Inserts ==
    ASSUME NEW f \in Flows, NEW b \in Buffer(f), NEW seq \in SeqNumbers, NEW n \in Nat,
           Pos(f, seq) + n < Half
    PROVE  LET c == insert_or_send_packet(b, seq, n)
           IN /\ c \in Buffer(f)
              /\ c.expected_next = b.expected_next
              /\ c.size = b.size + IF Collides(b, seq) THEN 0 ELSE 1
              /\ \A e \in c.root : e.seq = seq \/ e \in b.root
<1> DEFINE c == insert_or_send_packet(b, seq, n)
           new == [seq |-> seq, seg_size |-> n]
<1>1. new \in Entry /\ new.seq = seq /\ Pos(f, new.seq) + new.seg_size < Half
    BY DEF Entry
<1>2. b \in [expected_next : SeqNumbers, size : Nat, root : SUBSET Entry]
    BY DEF Buffer
<1>3. CASE ~Collides(b, seq)
    <2>1. c = [expected_next |-> b.expected_next, size |-> b.size + 1,
               root |-> b.root \cup {new}]
        BY <1>2, <1>3 DEF insert_or_send_packet
    <2>2. new \notin b.root
        BY <1>1, <1>3 DEF Collides
    <2> HIDE DEF new, c
    <2>3. /\ c.expected_next = b.expected_next /\ c.size = b.size + 1
          /\ c.root = b.root \cup {new}
        BY <2>1
    <2>4. IsFiniteSet(c.root) /\ c.size = Cardinality(c.root)
        <3>1. IsFiniteSet(b.root) /\ b.size = Cardinality(b.root)
            BY BufferFacts
        <3>2. /\ IsFiniteSet(b.root \cup {new})
              /\ Cardinality(b.root \cup {new}) = Cardinality(b.root) + 1
            BY <2>2, <3>1, FS_AddElement
        <3> QED
            BY <2>3, <3>1, <3>2
    <2>5. c \in [expected_next : SeqNumbers, size : Nat, root : SUBSET Entry]
        BY <1>1, <2>1, BufferFacts
    <2>6. \A d, e \in c.root : d.seq = e.seq => d = e
        BY <1>1, <1>3, <2>3, BufferFacts DEF Collides
    <2>7. /\ Pos(f, c.expected_next) < Half
          /\ \A d \in c.root : Pos(f, d.seq) + d.seg_size < Half
        BY <1>1, <2>3, BufferFacts
    <2>8. c \in Buffer(f)
        BY <2>4, <2>5, <2>6, <2>7 DEF Buffer
    <2> QED
        BY <1>1, <1>3, <2>3, <2>8 DEF c
<1>4. CASE Collides(b, seq)
    <2>1. PICK e \in b.root : e.seq = seq
        BY <1>4 DEF Collides
    <2> DEFINE kept == IF e.seg_size <= n THEN new ELSE e
               root == {IF d.seq = seq /\ d.seg_size <= n THEN new ELSE d : d \in b.root}
    <2>2. c = [expected_next |-> b.expected_next, size |-> b.size, root |-> root]
        BY <1>2, <1>4 DEF insert_or_send_packet
    <2>3. /\ kept \in Entry /\ kept.seq = seq
          /\ Pos(f, kept.seq) + kept.seg_size < Half
        BY <1>1, <2>1, BufferFacts
    <2>4. root = (b.root \ {e}) \cup {kept}
        BY <2>1, BufferFacts
    <2>5. kept \notin b.root \ {e}
        BY <2>1, <2>3, BufferFacts
    <2> HIDE DEF new, c, kept, root
    <2>6. /\ c.expected_next = b.expected_next /\ c.size = b.size
          /\ c.root = (b.root \ {e}) \cup {kept}
        BY <2>2, <2>4
    <2>7. /\ IsFiniteSet(b.root \ {e})
          /\ Cardinality(b.root \ {e}) = b.size - 1
        BY BufferFacts, FS_RemoveElement
    <2>8. /\ IsFiniteSet((b.root \ {e}) \cup {kept})
          /\ Cardinality((b.root \ {e}) \cup {kept}) = b.size - 1 + 1
        BY <2>5, <2>7, FS_AddElement
    <2>9. IsFiniteSet(c.root) /\ c.size = Cardinality(c.root)
        BY <2>6, <2>8, BufferFacts
    <2>10. c \in [expected_next : SeqNumbers, size : Nat, root : SUBSET Entry]
        BY <2>2, <2>3, <2>4, BufferFacts
    <2>11. \A d, g \in c.root : d.seq = g.seq => d = g
        BY <2>1, <2>3, <2>6, BufferFacts
    <2>12. /\ Pos(f, c.expected_next) < Half
           /\ \A d \in c.root : Pos(f, d.seq) + d.seg_size < Half
        BY <2>3, <2>6, BufferFacts
    <2>13. c \in Buffer(f)
        BY <2>9, <2>10, <2>11, <2>12 DEF Buffer
    <2>14. \A d \in c.root : d.seq = seq \/ d \in b.root
        BY <2>3, <2>6
    <2>15. c.size = b.size + 0
        BY <2>6, BufferFacts
    <2> QED
        BY <1>4, <2>6, <2>13, <2>14, <2>15 DEF c
<1> QED
    BY <1>3, <1>4

NothingDue(b) == \A e \in b.root : ~Due(e.seq, b.expected_next)

\* A turn of the loop releases an entry, unless none is due.
LEMMA Releases ==
    ASSUME NEW f \in Flows, NEW b \in Buffer(f)
    PROVE  /\ Release(b) \in Buffer(f)
           /\ Release(b).root \subseteq b.root
           /\ \/ Release(b).size = b.size - 1
              \/ Release(b) = b /\ NothingDue(b)
<1> DEFINE first == rb_first(b.root)
<1>1. CASE b.root # {} /\ Due(first.seq, b.expected_next)
    BY <1>1, FirstIsLowest, Sends DEF Release
<1>2. CASE b.root = {}
    BY <1>2 DEF Release, NothingDue
<1>3. CASE b.root # {} /\ ~Due(first.seq, b.expected_next)
    <2>1. /\ first \in b.root
          /\ \A d \in b.root : Pos(f, first.seq) <= Pos(f, d.seq)
        BY <1>3, FirstIsLowest
    <2> HIDE DEF first
    <2>2. /\ b.expected_next \in SeqNumbers /\ Pos(f, b.expected_next) < Half
          /\ \A e \in b.root : e.seq \in SeqNumbers /\ Pos(f, e.seq) < Half
        BY BufferFacts
    <2>3. \A e \in b.root : /\ Due(e.seq, b.expected_next) <=>
                                 Pos(f, e.seq) <= Pos(f, b.expected_next)
                            /\ Pos(f, e.seq) \in Nat /\ Pos(f, b.expected_next) \in Nat
        BY <2>2, DueIsLeq
    <2>4. ~(Pos(f, first.seq) <= Pos(f, b.expected_next))
        BY <1>3, <2>1, <2>3
    <2>5. ASSUME NEW e \in b.root PROVE ~Due(e.seq, b.expected_next)
        BY <2>1, <2>3, <2>4
    <2>6. Release(b) = b
        BY <1>3 DEF Release, first
    <2> QED
        BY <2>5, <2>6 DEF NothingDue
<1> QED
    BY <1>1, <1>2, <1>3
\* The recursive function of Drain satisfies its equation: there is a sequence of
\* iterates of Release.
LEMMA DrainEquation ==
    ASSUME NEW f \in Flows, NEW b \in Buffer(f)
    PROVE  \E g : /\ Drain(b) = g[FBUF_SIZ]
                  /\ g[0] = b
                  /\ \A n \in 1..FBUF_SIZ : g[n] = Release(g[n - 1])
<1> DEFINE after[n \in 0..FBUF_SIZ] == IF n = 0 THEN b ELSE Release(after[n - 1])
           S == Buffer(f)
           F == [c \in S |-> Release(c)]
<1>1. FBUF_SIZ \in Nat
    BY ReseqAssumption
<1>2. F \in [S -> S] /\ b \in S /\ \A c \in S : F[c] = Release(c)
    BY Releases
<1> HIDE DEF F, S
<1>3. Runs(S, F, b, FBUF_SIZ) # {}
    BY <1>1, <1>2, Iterates
<1>4. PICK g \in [0..FBUF_SIZ -> S] :
        g[0] = b /\ \A n \in 1..FBUF_SIZ : g[n] = Release(g[n - 1])
    <2>1. PICK g \in [0..FBUF_SIZ -> S] :
            g[0] = b /\ \A n \in 1..FBUF_SIZ : g[n] = F[g[n - 1]]
        BY <1>3 DEF Runs
    <2>2. ASSUME NEW n \in 1..FBUF_SIZ PROVE g[n] = Release(g[n - 1])
        BY <1>1, <1>2, <2>1
    <2> QED
        BY <2>1, <2>2
<1>5. g = [n \in 0..FBUF_SIZ |-> IF n = 0 THEN b ELSE Release(g[n - 1])]
    BY <1>4
<1>6. after = [n \in 0..FBUF_SIZ |-> IF n = 0 THEN b ELSE Release(after[n - 1])]
    BY <1>5, Zenon DEF after
<1>7. Drain(b) = after[FBUF_SIZ]
    BY DEF Drain
<1> HIDE DEF after
<1>8. after[0] = b /\ \A n \in 1..FBUF_SIZ : after[n] = Release(after[n - 1])
    BY <1>1, <1>6
<1> QED
    BY <1>7, <1>8

\* The loop ends with nothing due: a turn either finds nothing due or leaves one
\* entry less, and there are at most FBUF_SIZ of them.
LEMMA Drains ==
    ASSUME NEW f \in Flows, NEW b \in Buffer(f), b.size <= FBUF_SIZ
    PROVE  /\ Drain(b) \in Buffer(f)
           /\ Drain(b).size <= FBUF_SIZ
           /\ NothingDue(Drain(b))
<1>1. FBUF_SIZ \in Nat
    BY ReseqAssumption
<1>2. PICK g : /\ Drain(b) = g[FBUF_SIZ]
               /\ g[0] = b
               /\ \A n \in 1..FBUF_SIZ : g[n] = Release(g[n - 1])
    BY DrainEquation
<1> DEFINE Good == {n \in 0..FBUF_SIZ : /\ g[n] \in Buffer(f)
                                        /\ g[n].size <= FBUF_SIZ
                                        /\ NothingDue(g[n]) \/ g[n].size <= FBUF_SIZ - n}
<1>3. 0 \in Good
    BY <1>1, <1>2
<1>4. ASSUME NEW n \in 1..FBUF_SIZ, n - 1 \in Good
      PROVE  n \in Good
    <2> DEFINE c == g[n - 1]
    <2>1. /\ c \in Buffer(f) /\ c.size <= FBUF_SIZ
          /\ NothingDue(c) \/ c.size <= FBUF_SIZ - (n - 1)
          /\ g[n] = Release(c)
        BY <1>2, <1>4
    <2> HIDE DEF c
    <2>2. c.size \in Nat /\ n \in Nat
        BY <1>4, <2>1, BufferFacts
    <2>3. /\ Release(c) \in Buffer(f)
          /\ Release(c).size = c.size - 1 \/ (Release(c) = c /\ NothingDue(c))
        BY <2>1, Releases
    <2>4. CASE Release(c).size = c.size - 1
        <3>1. NothingDue(c) => NothingDue(Release(c))
            <4>1. ASSUME NothingDue(c) PROVE Release(c) = c
                <5>1. c.root # {} => rb_first(c.root) \in c.root
                    BY <2>1, FirstIsLowest
                <5> QED
                    BY <4>1, <5>1 DEF Release, NothingDue
            <4> QED
                BY <4>1
        <3>2. Release(c).size <= FBUF_SIZ
            BY <1>1, <2>1, <2>2, <2>4
        <3>3. NothingDue(Release(c)) \/ Release(c).size <= FBUF_SIZ - n
            BY <1>1, <2>1, <2>2, <2>4, <3>1
        <3> QED
            BY <1>4, <2>1, <2>3, <3>2, <3>3
    <2>5. CASE Release(c) = c /\ NothingDue(c)
        BY <2>1, <2>5
    <2> QED
        BY <2>3, <2>4, <2>5
<1>5. FBUF_SIZ \in Good
    <2> HIDE DEF Good
    <2> QED BY <1>1, <1>3, <1>4, UpTo
<1> DEFINE d == Drain(b)
<1>6. d \in Buffer(f) /\ d.size <= FBUF_SIZ /\ (NothingDue(d) \/ d.size <= FBUF_SIZ - FBUF_SIZ)
    BY <1>2, <1>5
<1> HIDE DEF d
<1>7. CASE d.size <= FBUF_SIZ - FBUF_SIZ
    <2>1. d.size = 0
        BY <1>1, <1>6, <1>7, BufferFacts
    <2>2. d.root = {}
        BY <1>6, <2>1, BufferFacts, FS_EmptySet
    <2> QED
        BY <1>6, <2>2 DEF NothingDue, d
<1> QED
    BY <1>6, <1>7 DEF d
-----------------------------------------------------------------------------
(***************************************************************************)
(* The invariant.                                                          *)
(***************************************************************************)
\* The flow buffer of a packet, whether it exists or is made for the packet.
LEMMA FlowBufFacts ==
    ASSUME Inv, NEW p \in Packets
    PROVE  /\ FlowBuf(p) \in Buffer(p.flow) /\ FlowBuf(p).size <= FBUF_SIZ
           /\ p.flow \notin overflown => NothingDue(FlowBuf(p))
<1>1. CASE p.flow \in DOMAIN bufs
    BY <1>1 DEF FlowBuf, Inv, NothingDueWaits, NothingDue
<1>2. CASE p.flow \notin DOMAIN bufs
    <2> DEFINE b == [expected_next |-> th_seq(p), size |-> 0, root |-> {}]
    <2>1. FlowBuf(p) = b
        BY <1>2 DEF FlowBuf
    <2>2. b \in [expected_next : SeqNumbers, size : Nat, root : SUBSET Entry]
        BY PacketFacts
    <2>3. Pos(p.flow, th_seq(p)) < Half
        BY PacketFacts, HalfAssumption
    <2>4. IsFiniteSet({}) /\ Cardinality({}) = 0
        BY FS_EmptySet
    <2>5. b \in Buffer(p.flow)
        BY <2>2, <2>3, <2>4 DEF Buffer
    <2> QED
        BY <2>1, <2>5, ReseqAssumption DEF NothingDue
<1> QED
    BY <1>1, <1>2

\* A step that leaves the packet's flow with the buffer c.
LEMMA Replaces ==
    ASSUME Inv, NEW p \in Packets, NEW c \in Buffer(p.flow), c.size <= FBUF_SIZ,
           bufs' = [f \in DOMAIN bufs \cup {p.flow} |-> IF f # p.flow THEN bufs[f] ELSE c],
           reorder_count' \in Nat,
           overflown' \in {overflown, overflown \cup {p.flow}},
           p.flow \notin overflown' => NothingDue(c)
    PROVE  Inv'
<1>1. p.flow \in Flows
    BY PacketFacts
<1>2. /\ DOMAIN bufs' = DOMAIN bufs \cup {p.flow} /\ bufs'[p.flow] = c
      /\ \A f \in DOMAIN bufs \ {p.flow} : bufs'[f] = bufs[f]
    OBVIOUS
<1>3. DOMAIN bufs' \subseteq Flows /\ overflown' \subseteq DOMAIN bufs'
    BY <1>1, <1>2 DEF Inv
<1>4. \A f \in DOMAIN bufs' : bufs'[f] \in Buffer(f) /\ bufs'[f].size <= FBUF_SIZ
    BY <1>2 DEF Inv
<1>5. \A f \in DOMAIN bufs' \ overflown' : \A e \in bufs'[f].root :
            ~Due(e.seq, bufs'[f].expected_next)
    BY <1>2 DEF Inv, NothingDueWaits, NothingDue
<1> QED
    BY <1>3, <1>4, <1>5 DEF Inv, NothingDueWaits, Buffer, Pos

\* Storing in a buffer with room.
LEMMA Stores ==
    ASSUME NEW p \in Packets, NEW b \in Buffer(p.flow), b.size < FBUF_SIZ
    PROVE  LET c == insert_or_send_packet(b, th_seq(p), p.psize)
           IN /\ c \in Buffer(p.flow) /\ c.size <= FBUF_SIZ
              /\ ~Due(th_seq(p), b.expected_next) /\ NothingDue(b) => NothingDue(c)
<1> DEFINE c == insert_or_send_packet(b, th_seq(p), p.psize)
<1>1. /\ p.flow \in Flows /\ th_seq(p) \in SeqNumbers /\ p.psize \in Nat
      /\ Pos(p.flow, th_seq(p)) + p.psize < Half
    BY PacketFacts, HalfAssumption
<1>2. /\ c \in Buffer(p.flow) /\ c.expected_next = b.expected_next
      /\ c.size = b.size + IF Collides(b, th_seq(p)) THEN 0 ELSE 1
      /\ \A e \in c.root : e.seq = th_seq(p) \/ e \in b.root
    BY <1>1, Inserts
<1>3. b.size \in Nat /\ FBUF_SIZ \in Nat
    BY <1>1, BufferFacts, ReseqAssumption
<1> HIDE DEF c
<1>4. c.size <= FBUF_SIZ
    BY <1>2, <1>3
<1>5. ~Due(th_seq(p), b.expected_next) /\ NothingDue(b) => NothingDue(c)
    BY <1>2 DEF NothingDue
<1> QED
    BY <1>2, <1>4, <1>5 DEF c

LEMMA InvStep ==
    ASSUME Inv, [Next]_vars
    PROVE  Inv'
<1>1. CASE UNCHANGED vars
    BY <1>1 DEF vars, Inv, NothingDueWaits, Buffer, Pos
<1>2. ASSUME NEW p \in Packets, rc_handle_packet(p)
      PROVE  Inv'
    <2> DEFINE b == FlowBuf(p)
               seq == th_seq(p)
               early == ~Due(seq, b.expected_next)
    <2>1. /\ b \in Buffer(p.flow) /\ b.size <= FBUF_SIZ
          /\ p.flow \notin overflown => NothingDue(b)
        BY FlowBufFacts
    <2>2. /\ p.flow \in Flows /\ seq \in SeqNumbers /\ p.pos \in Nat /\ p.psize \in Nat
          /\ Pos(p.flow, seq) = p.pos /\ p.pos + p.psize + 1 < Half
        BY PacketFacts
    <2>3. b.size \in Nat /\ FBUF_SIZ \in Nat /\ reorder_count \in Nat
        BY <2>1, <2>2, BufferFacts, ReseqAssumption DEF Inv
    <2>4. /\ InOrder(b, p) \/ (early /\ b.size < FBUF_SIZ /\ Store(b, p))
                           \/ (early /\ b.size >= FBUF_SIZ /\ Full(b, p))
          /\ overflown' = overflown \cup
                          IF early /\ b.size >= FBUF_SIZ THEN {p.flow} ELSE {}
        BY <1>2 DEF rc_handle_packet
    <2> HIDE DEF b, seq
    <2>5. CASE InOrder(b, p)
        <3> DEFINE next == U32Of(seq + IF p.syn THEN 1 ELSE p.psize)
                   c == [b EXCEPT !.expected_next = next]
        <3>1. /\ Due(seq, b.expected_next) /\ reorder_count' = reorder_count
              /\ bufs' = [f \in DOMAIN bufs \cup {p.flow} |->
                            IF f # p.flow THEN bufs[f] ELSE Drain(c)]
            BY <2>5 DEF InOrder, seq
        <3>2. next \in SeqNumbers /\ Pos(p.flow, next) < Half
            <4> DEFINE n == IF p.syn THEN 1 ELSE p.psize
            <4>1. n \in Nat /\ Pos(p.flow, seq) + n < Half
                BY <2>2, HalfAssumption
            <4> HIDE DEF n
            <4> QED
                BY <2>2, <4>1, PosAdds DEF n
        <3> HIDE DEF next
        <3>3. c = [expected_next |-> next, size |-> b.size, root |-> b.root]
            BY <2>1 DEF Buffer
        <3>4. c \in Buffer(p.flow) /\ c.size <= FBUF_SIZ
            BY <2>1, <3>2, <3>3 DEF Buffer
        <3> HIDE DEF c
        <3>5. Drain(c) \in Buffer(p.flow) /\ Drain(c).size <= FBUF_SIZ /\ NothingDue(Drain(c))
            BY <2>2, <3>4, Drains
        <3>6. overflown' = overflown
            BY <2>4, <3>1
        <3> QED
            BY <2>3, <3>1, <3>5, <3>6, Replaces
    <2>6. CASE early /\ b.size < FBUF_SIZ /\ Store(b, p)
        <3> DEFINE c == insert_or_send_packet(b, th_seq(p), p.psize)
        <3>1. c \in Buffer(p.flow) /\ c.size <= FBUF_SIZ /\ (NothingDue(b) => NothingDue(c))
            BY <2>1, <2>6, Stores DEF seq
        <3>2. /\ bufs' = [f \in DOMAIN bufs \cup {p.flow} |->
                            IF f # p.flow THEN bufs[f] ELSE c]
              /\ reorder_count' \in Nat
            BY <2>3, <2>6 DEF Store
        <3> HIDE DEF c
        <3>3. overflown' = overflown
            BY <2>3, <2>4, <2>6
        <3> QED
            BY <2>1, <3>1, <3>2, <3>3, Replaces
    <2>7. CASE early /\ b.size >= FBUF_SIZ /\ Full(b, p)
        <3> DEFINE first == rb_first(b.root)
                   d == send_packet_at(b, first)
                   c == insert_or_send_packet(d, th_seq(p), p.psize)
        <3>1. overflown' = overflown \cup {p.flow}
            BY <2>4, <2>7
        <3>2. b.root # {}
            <4>1. b.size # 0
                BY <2>1, <2>3, <2>7, ReseqAssumption
            <4> QED
                BY <2>1, <2>2, <4>1, BufferFacts, FS_EmptySet
        <3>3. first \in b.root
            BY <2>1, <2>2, <3>2, FirstIsLowest
        <3>4. d \in Buffer(p.flow) /\ d.size = b.size - 1
            BY <2>1, <2>2, <3>3, Sends
        <3>5. d.size < FBUF_SIZ
            BY <2>1, <2>3, <3>4
        <3>6. CASE first.seq <= th_seq(p)
            <4>1. Store(d, p)
                BY <2>7, <3>6 DEF Full
            <4> HIDE DEF d
            <4>2. c \in Buffer(p.flow) /\ c.size <= FBUF_SIZ
                BY <3>4, <3>5, Stores
            <4>3. /\ bufs' = [f \in DOMAIN bufs \cup {p.flow} |->
                                IF f # p.flow THEN bufs[f] ELSE c]
                  /\ reorder_count' \in Nat
                BY <2>3, <4>1 DEF Store
            <4> HIDE DEF c
            <4> QED
                BY <3>1, <4>2, <4>3, Replaces
        <3>7. CASE ~(first.seq <= th_seq(p))
            <4>1. bufs' = bufs /\ reorder_count' = reorder_count
                BY <2>7, <3>7 DEF Full
            <4>2. p.flow \in DOMAIN bufs
                BY <3>2 DEF FlowBuf, b
            <4> QED
                BY <3>1, <4>1, <4>2 DEF Inv, NothingDueWaits, Buffer, Pos
        <3> QED
            BY <3>6, <3>7
    <2> QED
        BY <2>4, <2>5, <2>6, <2>7
<1> QED
    BY <1>1, <1>2 DEF Next

LEMMA InvInit ==
    ASSUME Init
    PROVE  Inv
    BY DEF Init, Inv, NothingDueWaits

\* Every flow's buffer stays well formed and within FBUF_SIZ after each packet that
\* rc_handle_packet takes, and no entry that is due waits in it.
THEOREM InvAlways == Spec => []Inv
<1>1. Init => Inv
    BY InvInit
<1>2. Inv /\ [Next]_vars => Inv'
    BY InvStep
<1> QED
    BY <1>1, <1>2, PTL DEF Spec
-----------------------------------------------------------------------------
\* Distinct entries have distinct numbers, so there are as many numbers as entries.
LEMMA NumbersOfEntries ==
    ASSUME NEW f \in Flows, NEW b \in Buffer(f)
    PROVE  Cardinality({e.seq : e \in b.root}) = Cardinality(b.root)
<1> DEFINE T == {e.seq : e \in b.root}
           g == [e \in b.root |-> e.seq]
<1>1. \A d, e \in b.root : d.seq = e.seq => d = e
    BY BufferFacts
<1>2. g \in Bijection(b.root, T)
    BY <1>1 DEF Bijection, Injection, Surjection, IsInjective
<1>3. ExistsBijection(b.root, T)
    BY <1>2 DEF ExistsBijection
<1> HIDE DEF T
<1> QED
    BY <1>3, BufferFacts, FS_Bijection DEF T

\* rc_handle_packet keeps the expected numbers and the entries of every flow within
\* the sequence space and the count a number.
THEOREM BuffersTyped == Spec => []TypeOK
<1>1. Inv => TypeOK
    <2> SUFFICES ASSUME Inv PROVE TypeOK
        OBVIOUS
    <2>1. \A f \in DOMAIN bufs : /\ bufs[f].expected_next \in SeqNumbers
                                 /\ bufs[f].root \subseteq [seq : SeqNumbers, seg_size : Nat]
        BY DEF Inv, Buffer, Entry
    <2> QED
        BY <2>1 DEF Inv, TypeOK
<1> QED
    BY <1>1, InvAlways, PTL

\* The size that rc_handle_packet keeps for a flow is the number of its entries and
\* never exceeds FBUF_SIZ, through overflow, retransmissions and draining.
THEOREM SizeCorrect == Spec => []SizeExact
<1>1. Inv => SizeExact
    <2> SUFFICES ASSUME Inv, NEW f \in DOMAIN bufs
                 PROVE  /\ bufs[f].size = Cardinality(bufs[f].root)
                        /\ bufs[f].size = Cardinality({e.seq : e \in bufs[f].root})
                        /\ bufs[f].size <= FBUF_SIZ
        BY DEF SizeExact
    <2>1. f \in Flows /\ bufs[f] \in Buffer(f) /\ bufs[f].size <= FBUF_SIZ
        BY DEF Inv
    <2>2. bufs[f].size = Cardinality(bufs[f].root)
        BY <2>1, BufferFacts
    <2> QED
        BY <2>1, <2>2, NumbersOfEntries
<1> QED
    BY <1>1, InvAlways, PTL

\* The loop of rc_handle_packet leaves no entry that is due behind, whatever is in
\* the buffer, as long as the flow has not overflown.
THEOREM LoopReleasesAll == Spec => []NothingDueWaits
<1>1. Inv => NothingDueWaits
    BY DEF Inv
<1> QED
    BY <1>1, InvAlways, PTL
-----------------------------------------------------------------------------
(***************************************************************************)
(* The buffer of an orderly flow, of which the positions A have arrived,   *)
(* has released all in front of the one it expects and keeps the others.   *)
(***************************************************************************)
EntryAt(f, n) == [seq |-> U32Of(Isn[f] + n), seg_size |-> 1]

Keeps(f, b, A) ==
    LET m == Pos(f, b.expected_next)
    IN /\ \A k \in 0..m - 1 : k \in A
       /\ b.root = {EntryAt(f, n) : n \in {k \in A : k >= m}}

\* Positions that leave room for the next one.
Positions == {n \in Nat : n + 1 < Half}

GapInv ==
    /\ Inv
    /\ orderly \subseteq Flows
    /\ log \in [Flows -> Seq(Positions)]
    /\ \A f \in orderly :
        IF log[f] = <<>> THEN f \notin DOMAIN bufs
        ELSE f \in DOMAIN bufs /\ Keeps(f, bufs[f], Range(log[f])) /\ NothingDue(bufs[f])
    /\ orderly = Flows =>
        IsFiniteSet(EarlyPackets) /\ reorder_count = Cardinality(EarlyPackets)

LEMMA EntryAtFacts ==
    ASSUME NEW f \in Flows, NEW n \in Positions
    PROVE  /\ EntryAt(f, n) \in Entry
           /\ EntryAt(f, n).seq \in SeqNumbers /\ EntryAt(f, n).seg_size = 1
           /\ EntryAt(f, n).seq = U32Of(Isn[f] + n)
           /\ Pos(f, EntryAt(f, n).seq) = n /\ n \in Nat /\ n + 1 < Half
<1>1. Isn[f] \in SeqNumbers /\ n \in Nat /\ n + 1 < Half /\ n \in 0..Half - 1
    BY ReseqAssumption, HalfAssumption DEF Positions
<1>2. U32Of(Isn[f] + n) \in SeqNumbers
    BY <1>1, U32Turn, HalfAssumption DEF SeqNumbers
<1>3. U32Of(U32Of(Isn[f] + n) - Isn[f]) = n
    BY <1>1, PositionOfNumber
<1> QED
    BY <1>1, <1>2, <1>3 DEF EntryAt, Entry, Pos

\* A turn of the loop releases the entry that is expected and no other.
LEMMA ReleaseKeeps ==
    ASSUME NEW f \in Flows, NEW b \in Buffer(f), NEW A \in SUBSET Positions, Keeps(f, b, A)
    PROVE  Keeps(f, Release(b), A)
<1> DEFINE first == rb_first(b.root)
           m == Pos(f, b.expected_next)
<1>1. CASE ~(b.root # {} /\ Due(first.seq, b.expected_next))
    BY <1>1 DEF Release
<1>2. CASE b.root # {} /\ Due(first.seq, b.expected_next)
    <2>1. first \in b.root
        BY <1>2, FirstIsLowest
    <2>2. PICK n \in A : first = EntryAt(f, n) /\ n >= m
        BY <2>1 DEF Keeps
    <2>3. /\ first.seq \in SeqNumbers /\ first.seg_size = 1
          /\ Pos(f, first.seq) = n /\ n \in Nat /\ n + 1 < Half
        BY <2>2, EntryAtFacts
    <2>4. b.expected_next \in SeqNumbers /\ m < Half
        BY BufferFacts
    <2>5. n <= m /\ m \in Nat
        <3>1. Pos(f, first.seq) < Half
            BY <2>3, HalfAssumption
        <3> HIDE DEF first, m
        <3> QED
            BY <1>2, <2>3, <2>4, <3>1, DueIsLeq DEF m
    <2>6. n = m
        BY <2>2, <2>3, <2>5
    <2> DEFINE c == send_packet_at(b, first)
    <2>7. c.root = b.root \ {first} /\ Pos(f, c.expected_next) = m + 1 /\ Release(b) = c
        BY <1>2, <2>1, <2>3, <2>6, Sends DEF Release
    <2> HIDE DEF c, first
    <2>8. \A k \in 0..(m + 1) - 1 : k \in A
        BY <2>2, <2>5, <2>6 DEF Keeps
    <2>9. \A k \in A : EntryAt(f, k) = EntryAt(f, m) => k = m
        BY <2>2, <2>6, EntryAtFacts
    <2>10. \A k \in A : k \in Nat
        BY DEF Positions
    <2>11. b.root \ {EntryAt(f, m)} = {EntryAt(f, k) : k \in {j \in A : j >= m + 1}}
        <3>1. b.root = {EntryAt(f, k) : k \in {j \in A : j >= m}}
            BY DEF Keeps
        <3> HIDE DEF m
        <3>2. \A k \in A : k >= m + 1 <=> k >= m /\ k # m
            BY <2>5, <2>10
        <3> QED
            BY <2>9, <3>1, <3>2
    <2> HIDE DEF m
    <2> QED
        BY <2>2, <2>6, <2>7, <2>8, <2>11 DEF Keeps
<1> QED
    BY <1>1, <1>2

LEMMA DrainKeeps ==
    ASSUME NEW f \in Flows, NEW b \in Buffer(f), NEW A \in SUBSET Positions, Keeps(f, b, A)
    PROVE  Keeps(f, Drain(b), A)
<1>1. FBUF_SIZ \in Nat
    BY ReseqAssumption
<1>2. PICK g : /\ Drain(b) = g[FBUF_SIZ]
               /\ g[0] = b
               /\ \A n \in 1..FBUF_SIZ : g[n] = Release(g[n - 1])
    BY DrainEquation
<1> DEFINE Good == {n \in 0..FBUF_SIZ : g[n] \in Buffer(f) /\ Keeps(f, g[n], A)}
<1>3. 0 \in Good
    BY <1>1, <1>2
<1>4. ASSUME NEW n \in 1..FBUF_SIZ, n - 1 \in Good
      PROVE  n \in Good
    <2>1. g[n - 1] \in Buffer(f) /\ Keeps(f, g[n - 1], A) /\ g[n] = Release(g[n - 1])
        BY <1>2, <1>4
    <2>2. g[n] \in Buffer(f) /\ Keeps(f, g[n], A)
        BY <2>1, Releases, ReleaseKeeps
    <2> QED
        BY <2>2
<1>5. FBUF_SIZ \in Good
    <2> HIDE DEF Good
    <2> QED BY <1>1, <1>3, <1>4, UpTo
<1> QED
    BY <1>2, <1>5
LEMMA RangeOfAppend ==
    ASSUME NEW S, NEW s \in Seq(S), NEW x \in S
    PROVE  /\ Range(Append(s, x)) = Range(s) \cup {x}
           /\ Append(s, x) \in Seq(S) /\ Append(s, x) # <<>>
           /\ DOMAIN Append(s, x) = 1..Len(s) + 1 /\ DOMAIN s = 1..Len(s)
           /\ Len(s) \in Nat /\ Append(s, x)[Len(s) + 1] = x
           /\ \A i \in 1..Len(s) : Append(s, x)[i] = s[i]
<1> DEFINE t == Append(s, x)
<1>1. /\ t \in Seq(S) /\ t # <<>> /\ Len(t) = Len(s) + 1 /\ Len(s) \in Nat
      /\ t[Len(s) + 1] = x /\ \A i \in 1..Len(s) : t[i] = s[i]
    OBVIOUS
<1>2. DOMAIN t = 1..Len(s) + 1 /\ DOMAIN s = 1..Len(s)
    BY <1>1
<1> HIDE DEF t
<1>3. Range(t) = Range(s) \cup {x}
    BY <1>1, <1>2 DEF Range
<1> QED
    BY <1>1, <1>2, <1>3 DEF t

\* What holds of the buffer of a packet of an orderly flow before it is handled.
LEMMA OrderlyBuffer ==
    ASSUME GapInv, NEW p \in Packets, Orderly(p)
    PROVE  /\ p.flow \in Flows /\ p.pos \in Positions
           /\ log[p.flow] \in Seq(Positions)
           /\ Range(log[p.flow]) \in SUBSET Positions
           /\ p.pos \notin Range(log[p.flow])
           /\ FlowBuf(p) \in Buffer(p.flow) /\ FlowBuf(p).size <= FBUF_SIZ
           /\ Keeps(p.flow, FlowBuf(p), Range(log[p.flow]))
           /\ NothingDue(FlowBuf(p))
<1>1. Inv
    BY DEF GapInv
<1>2. /\ p.flow \in Flows /\ p.pos \in Nat /\ p.psize \in Nat
      /\ th_seq(p) \in SeqNumbers /\ Pos(p.flow, th_seq(p)) = p.pos
      /\ p.pos + p.psize + 1 < Half
    BY PacketFacts
<1>3. p.pos \in Positions
    BY <1>2, HalfAssumption DEF Positions
<1>4. log[p.flow] \in Seq(Positions)
    BY <1>2 DEF GapInv
<1>5. Range(log[p.flow]) \in SUBSET Positions
    BY <1>4 DEF Range
<1>6. FlowBuf(p) \in Buffer(p.flow) /\ FlowBuf(p).size <= FBUF_SIZ
    BY <1>1, FlowBufFacts
<1>7. p.flow \in orderly /\ p.pos \notin Range(log[p.flow])
    BY DEF Orderly
<1>8. Keeps(p.flow, FlowBuf(p), Range(log[p.flow])) /\ NothingDue(FlowBuf(p))
    <2>1. CASE log[p.flow] = <<>>
        <3>1. p.flow \notin DOMAIN bufs /\ p.pos = 0
            BY <1>7, <2>1 DEF GapInv, Orderly
        <3>2. FlowBuf(p) = [expected_next |-> th_seq(p), size |-> 0, root |-> {}]
            BY <3>1 DEF FlowBuf
        <3>3. /\ Range(log[p.flow]) = {}
              /\ Pos(p.flow, FlowBuf(p).expected_next) = 0 /\ FlowBuf(p).root = {}
            BY <1>2, <2>1, <3>1, <3>2 DEF Range
        <3> QED
            BY <3>3 DEF Keeps, NothingDue
    <2>2. CASE log[p.flow] # <<>>
        BY <1>7, <2>2 DEF GapInv, FlowBuf
    <2> QED
        BY <2>1, <2>2
<1> QED
    BY <1>2, <1>3, <1>4, <1>5, <1>6, <1>7, <1>8

\* What is expected of an orderly flow is the first position that is missing.
LEMMA ExpectsFirstMissing ==
    ASSUME NEW f \in Flows, NEW b \in Buffer(f), NEW A \in SUBSET Positions,
           Keeps(f, b, A), NothingDue(b)
    PROVE  /\ Pos(f, b.expected_next) \in 0..Half
           /\ IsFirstMissing(Pos(f, b.expected_next), A)
<1> DEFINE m == Pos(f, b.expected_next)
<1>1. b.expected_next \in SeqNumbers /\ m < Half
    BY BufferFacts
<1>2. m \in Nat
    BY <1>1, DueIsLeq
<1>3. m \notin A
    <2> SUFFICES ASSUME m \in A PROVE FALSE
        OBVIOUS
    <2>1. m \in Positions /\ m >= m
        BY <1>2
    <2>2. EntryAt(f, m) \in b.root
        BY <2>1 DEF Keeps
    <2>3. EntryAt(f, m).seq \in SeqNumbers /\ Pos(f, EntryAt(f, m).seq) = m
        BY <2>1, EntryAtFacts
    <2>4. Due(EntryAt(f, m).seq, b.expected_next)
        BY <1>1, <1>2, <2>3, DueIsLeq
    <2> QED
        BY <2>2, <2>4 DEF NothingDue
<1> QED
    BY <1>1, <1>2, <1>3, HalfAssumption DEF Keeps, IsFirstMissing
\* A packet of an orderly flow leaves the buffer right for all that has arrived,
\* and is counted if something in front of it is missing.
LEMMA OrderlyStep ==
    ASSUME GapInv, NEW p \in Packets, Orderly(p), rc_handle_packet(p)
    PROVE  /\ \E c : /\ bufs' = [f \in DOMAIN bufs \cup {p.flow} |->
                                    IF f # p.flow THEN bufs[f] ELSE c]
                     /\ Keeps(p.flow, c, Range(log[p.flow]) \cup {p.pos})
                     /\ NothingDue(c)
           /\ reorder_count' = reorder_count +
                IF \E k \in 0..p.pos - 1 : k \notin Range(log[p.flow]) THEN 1 ELSE 0
<1> DEFINE f == p.flow
           q == p.pos
           A == Range(log[f])
           b == FlowBuf(p)
           seq == th_seq(p)
           m == Pos(f, b.expected_next)
<1>1. /\ f \in Flows /\ q \in Positions /\ A \in SUBSET Positions /\ q \notin A
      /\ b \in Buffer(f) /\ b.size <= FBUF_SIZ /\ Keeps(f, b, A) /\ NothingDue(b)
    BY OrderlyBuffer
<1>2. m \in Nat /\ m < Half /\ m \notin A /\ (\A k \in 0..m - 1 : k \in A)
    BY <1>1, ExpectsFirstMissing, BufferFacts, HalfAssumption DEF IsFirstMissing
<1>3. /\ seq \in SeqNumbers /\ Pos(f, seq) = q /\ q \in Nat /\ p.psize \in Nat
      /\ q < Half /\ q + 1 < Half
    BY <1>1, PacketFacts, HalfAssumption DEF Positions
<1>4. b.expected_next \in SeqNumbers
    BY <1>1, BufferFacts
<1>5. Due(seq, b.expected_next) <=> q <= m
    BY <1>1, <1>2, <1>3, <1>4, DueIsLeq
<1>6. \/ InOrder(b, p)
      \/ ~Due(seq, b.expected_next) /\ b.size < FBUF_SIZ /\ Store(b, p)
    BY DEF rc_handle_packet, Orderly, Overflows
<1>7. p.psize = 1 \/ (p.syn /\ q = 0)
    BY DEF Orderly
<1>8. reorder_count \in Nat
    BY DEF GapInv, Inv
<1> HIDE DEF f, q, A, b, seq, m
<1>9. CASE InOrder(b, p)
    <2> DEFINE n == IF p.syn THEN 1 ELSE p.psize
               c == [b EXCEPT !.expected_next = U32Of(seq + n)]
    <2>1. /\ Due(seq, b.expected_next) /\ reorder_count' = reorder_count
          /\ bufs' = [g \in DOMAIN bufs \cup {f} |-> IF g # f THEN bufs[g] ELSE Drain(c)]
        BY <1>9 DEF InOrder, f, seq
    <2>2. n = 1
        BY <1>7
    <2>3. q = m
        BY <1>1, <1>2, <1>3, <1>5, <2>1
    <2>4. c = [expected_next |-> U32Of(seq + 1), size |-> b.size, root |-> b.root]
        BY <1>1, <2>2 DEF Buffer
    <2>5. U32Of(seq + 1) \in SeqNumbers /\ Pos(f, U32Of(seq + 1)) = m + 1
        BY <1>1, <1>3, <2>3, PosAdds
    <2> HIDE DEF c
    <2>6. c \in Buffer(f) /\ c.size <= FBUF_SIZ
        BY <1>1, <1>3, <2>3, <2>4, <2>5 DEF Buffer
    <2>7. A \cup {q} \in SUBSET Positions
        BY <1>1
    <2>8. Keeps(f, c, A \cup {q})
        <3>1. Pos(f, c.expected_next) = m + 1 /\ c.root = b.root
            BY <2>4, <2>5
        <3>2. \A k \in 0..(m + 1) - 1 : k \in A \cup {q}
            BY <1>2, <2>3
        <3>3. \A k \in A : k \in Nat
            BY <1>1 DEF Positions
        <3>4. {k \in A \cup {q} : k >= m + 1} = {k \in A : k >= m}
            BY <1>2, <2>3, <3>3
        <3>5. b.root = {EntryAt(f, k) : k \in {j \in A : j >= m}}
            BY <1>1 DEF Keeps, m
        <3> QED
            BY <3>1, <3>2, <3>4, <3>5 DEF Keeps
    <2>9. Keeps(f, Drain(c), A \cup {q}) /\ NothingDue(Drain(c))
        BY <1>1, <2>6, <2>7, <2>8, DrainKeeps, Drains
    <2>10. ~\E k \in 0..q - 1 : k \notin A
        BY <1>2, <2>3
    <2>11. reorder_count' = reorder_count + 0
        BY <1>8, <2>1
    <2> QED
        BY <2>1, <2>9, <2>10, <2>11 DEF f, q, A
<1>10. CASE ~Due(seq, b.expected_next) /\ b.size < FBUF_SIZ /\ Store(b, p)
    <2> DEFINE c == insert_or_send_packet(b, seq, p.psize)
    <2>1. q > m
        BY <1>2, <1>3, <1>5, <1>10
    <2>2. p.psize = 1
        BY <1>2, <1>7, <2>1
    <2>3. seq = EntryAt(f, q).seq /\ [seq |-> seq, seg_size |-> 1] = EntryAt(f, q)
        BY DEF EntryAt, th_seq, seq, f, q
    <2>4. b.root = {EntryAt(f, k) : k \in {j \in A : j >= m}}
        BY <1>1 DEF Keeps, m
    <2>5. \A k \in A : EntryAt(f, k).seq # seq
        BY <1>1, <1>3, <2>3, EntryAtFacts
    <2>6. ~Collides(b, seq)
        BY <2>4, <2>5 DEF Collides
    <2>7. c = [expected_next |-> b.expected_next, size |-> b.size + 1,
               root |-> b.root \cup {EntryAt(f, q)}]
        <3>1. b \in [expected_next : SeqNumbers, size : Nat, root : SUBSET Entry]
            BY <1>1 DEF Buffer
        <3> QED
            BY <2>2, <2>3, <2>6, <3>1 DEF insert_or_send_packet
    <2>8. /\ bufs' = [g \in DOMAIN bufs \cup {f} |-> IF g # f THEN bufs[g] ELSE c]
          /\ reorder_count' = reorder_count + 1
        BY <1>10, <2>6 DEF Store, f, seq
    <2>9. NothingDue(c)
        BY <1>1, <1>10, Stores DEF seq, f
    <2> HIDE DEF c
    <2>10. Keeps(f, c, A \cup {q})
        <3>1. c.expected_next = b.expected_next /\ c.root = b.root \cup {EntryAt(f, q)}
            BY <2>7
        <3>2. {k \in A \cup {q} : k >= m} = {k \in A : k >= m} \cup {q}
            BY <1>2, <1>3, <2>1
        <3>3. c.root = {EntryAt(f, k) : k \in {j \in A \cup {q} : j >= m}}
            BY <2>4, <3>1, <3>2
        <3> QED
            BY <1>2, <3>1, <3>3 DEF Keeps, m
    <2>11. \E k \in 0..q - 1 : k \notin A
        BY <1>2, <1>3, <2>1
    <2> QED
        BY <2>8, <2>9, <2>10, <2>11 DEF f, q, A
<1> QED
    BY <1>6, <1>9, <1>10
\* The packets that came early, after one more of an orderly flow.
LEMMA EarlyGrows ==
    ASSUME GapInv, NEW p \in Packets, Orderly(p),
           log' = [log EXCEPT ![p.flow] = Append(@, p.pos)]
    PROVE  LET new == <<p.flow, Len(log[p.flow]) + 1>>
           IN /\ new \notin EarlyPackets
              /\ EarlyPackets' = EarlyPackets \cup
                    IF \E k \in 0..p.pos - 1 : k \notin Range(log[p.flow]) THEN {new} ELSE {}
<1> DEFINE f == p.flow
           q == p.pos
           s == log[f]
           n == Len(s) + 1
           late == \E k \in 0..q - 1 : k \notin Range(s)
<1>1. f \in Flows /\ q \in Positions /\ s \in Seq(Positions) /\ q \in Nat
    BY OrderlyBuffer DEF Positions
<1>2. log'[f] = Append(s, q) /\ \A g \in Flows \ {f} : log'[g] = log[g]
    BY <1>1 DEF GapInv
<1> DEFINE t == log'[f]
<1>3. /\ DOMAIN t = 1..n /\ DOMAIN s = 1..Len(s) /\ Len(s) \in Nat
      /\ t[n] = q /\ \A i \in 1..Len(s) : t[i] = s[i]
    BY <1>1, <1>2, RangeOfAppend
<1>4. \A i \in 1..Len(s) : s[i] \in Nat
    BY <1>1, <1>3 DEF Positions
<1> HIDE DEF s, t, q
<1>5. \A g \in Flows \ {f} : Early(g)' = Early(g)
    BY <1>2 DEF Early
<1>6. Early(f) = {i \in DOMAIN s : \E m \in 0..s[i] - 1 : \A j \in 1..i : s[j] # m}
    BY DEF Early, s
<1>7. Early(f)' = {i \in DOMAIN t : \E m \in 0..t[i] - 1 : \A j \in 1..i : t[j] # m}
    BY DEF Early, t
<1>8. n \notin Early(f) /\ Early(f) \subseteq 1..Len(s)
    BY <1>3, <1>6
<1>9. \A i \in 1..Len(s) : i \in Early(f)' <=> i \in Early(f)
    <2> TAKE i \in 1..Len(s)
    <2>1. i \in 1..n /\ t[i] = s[i] /\ \A j \in 1..i : t[j] = s[j]
        BY <1>3
    <2> QED
        BY <1>3, <1>6, <1>7, <2>1
<1>10. n \in Early(f)' <=> late
    <2>1. n \in 1..n /\ t[n] = q
        BY <1>3
    <2>2. n \in Early(f)' <=> \E m \in 0..q - 1 : \A j \in 1..n : t[j] # m
        BY <1>3, <1>7, <2>1
    <2>3. ASSUME NEW m \in 0..q - 1
          PROVE  (\A j \in 1..n : t[j] # m) <=> m \notin Range(s)
        <3>1. q # m
            BY <1>1, <2>3
        <3>2. m \in Range(s) <=> \E j \in 1..Len(s) : s[j] = m
            BY <1>3 DEF Range
        <3>3. \A j \in 1..n : j \in 1..Len(s) \/ j = n
            BY <1>3
        <3>4. \A j \in 1..Len(s) : j \in 1..n
            BY <1>3
        <3> QED
            BY <1>3, <3>1, <3>2, <3>3, <3>4
    <2> QED
        BY <2>2, <2>3
<1>11. Early(f)' \subseteq 1..n /\ 1..n = 1..Len(s) \cup {n}
    BY <1>3, <1>7
<1>12. Early(f)' = Early(f) \cup IF late THEN {n} ELSE {}
    BY <1>8, <1>9, <1>10, <1>11
<1> HIDE DEF n, late
<1>13. EarlyPackets' = EarlyPackets \cup IF late THEN {<<f, n>>} ELSE {}
    <2>1. \A g, i : <<g, i>> \in EarlyPackets <=> g \in Flows /\ i \in Early(g)
        BY DEF EarlyPackets
    <2>2. \A g, i : <<g, i>> \in EarlyPackets' <=> g \in Flows /\ i \in Early(g)'
        BY DEF EarlyPackets
    <2>3. \A x \in EarlyPackets : x = <<x[1], x[2]>>
        BY DEF EarlyPackets
    <2>4. \A x \in EarlyPackets' : x = <<x[1], x[2]>>
        BY DEF EarlyPackets
    <2>5. ASSUME NEW g, NEW i
          PROVE  <<g, i>> \in EarlyPackets' <=>
                    <<g, i>> \in EarlyPackets \/ (late /\ <<g, i>> = <<f, n>>)
        BY <1>1, <1>5, <1>12, <2>1, <2>2
    <2>6. ASSUME NEW x
          PROVE  x \in EarlyPackets' <=> x \in EarlyPackets \/ (late /\ x = <<f, n>>)
        BY <2>3, <2>4, <2>5
    <2> QED
        BY <2>6
<1>14. <<f, n>> \notin EarlyPackets
    BY <1>8 DEF EarlyPackets
<1> QED
    BY <1>13, <1>14 DEF n, late, s, q

LEMMA GapInvStep ==
    ASSUME GapInv, [NextLogged]_varsLogged
    PROVE  GapInv'
<1>1. CASE UNCHANGED varsLogged
    <2>1. Inv'
        BY <1>1, InvStep DEF varsLogged, GapInv
    <2>2. UNCHANGED <<bufs, reorder_count, log, orderly>>
        BY <1>1 DEF varsLogged, vars
    <2>3. EarlyPackets' = EarlyPackets
        BY <2>2 DEF EarlyPackets, Early
    <2> QED
        BY <2>1, <2>2, <2>3 DEF GapInv, Keeps, Pos, NothingDue, EntryAt
<1>2. ASSUME NEW p \in Packets, rc_handle_packet(p), Logged(p)
      PROVE  GapInv'
    <2> DEFINE f == p.flow
    <2>1. Inv'
        BY <1>2, InvStep DEF Next, GapInv
    <2>2. f \in Flows /\ p.pos \in Positions
        BY PacketFacts, HalfAssumption DEF Positions
    <2>3. /\ log \in [Flows -> Seq(Positions)] /\ orderly \subseteq Flows
          /\ log[f] \in Seq(Positions)
        BY <2>2 DEF GapInv
    <2>4. \A g \in DOMAIN bufs \ {f} : g \in DOMAIN bufs' /\ bufs'[g] = bufs[g]
        BY <1>2 DEF rc_handle_packet, InOrder, Store, Full
    <2>5. DOMAIN bufs' \subseteq DOMAIN bufs \cup {f}
        BY <1>2 DEF rc_handle_packet, InOrder, Store, Full
    <2>6. CASE Orderly(p)
        <3>1. orderly' = orderly /\ log' = [log EXCEPT ![f] = Append(@, p.pos)]
            BY <1>2, <2>6 DEF Logged
        <3>2. /\ log'[f] = Append(log[f], p.pos)
              /\ \A g \in Flows \ {f} : log'[g] = log[g]
            BY <2>2, <2>3, <3>1
        <3>3. /\ Range(log'[f]) = Range(log[f]) \cup {p.pos}
              /\ log'[f] \in Seq(Positions) /\ log'[f] # <<>>
            <4> DEFINE s == log[f]
                       x == p.pos
            <4>1. s \in Seq(Positions) /\ x \in Positions
                BY <2>2, <2>3
            <4> HIDE DEF s, x
            <4>2. /\ Range(Append(s, x)) = Range(s) \cup {x}
                  /\ Append(s, x) \in Seq(Positions) /\ Append(s, x) # <<>>
                BY <4>1, RangeOfAppend
            <4> QED
                BY <3>2, <4>2 DEF s, x
        <3>4. log' \in [Flows -> Seq(Positions)]
            <4>1. log' = [log EXCEPT ![f] = log'[f]]
                BY <3>1, <3>2
            <4> QED
                BY <2>3, <3>3, <4>1
        <3>5. PICK c : /\ bufs' = [g \in DOMAIN bufs \cup {f} |->
                                    IF g # f THEN bufs[g] ELSE c]
                       /\ Keeps(f, c, Range(log[f]) \cup {p.pos})
                       /\ NothingDue(c)
            BY <1>2, <2>6, OrderlyStep
        <3>6. f \in DOMAIN bufs' /\ bufs'[f] = c
            BY <3>5
        <3>7. ASSUME NEW g \in orderly'
              PROVE  IF log'[g] = <<>> THEN g \notin DOMAIN bufs'
                     ELSE /\ g \in DOMAIN bufs' /\ Keeps(g, bufs'[g], Range(log'[g]))
                          /\ NothingDue(bufs'[g])
            <4>1. CASE g = f
                BY <3>3, <3>5, <3>6, <4>1
            <4>2. CASE g # f
                <5>1. g \in orderly /\ g \in Flows /\ log'[g] = log[g]
                    BY <2>3, <3>1, <3>2, <4>2
                <5> QED
                    BY <2>4, <2>5, <4>2, <5>1 DEF GapInv
            <4> QED
                BY <4>1, <4>2
        <3>8. orderly' = Flows =>
                IsFiniteSet(EarlyPackets') /\ reorder_count' = Cardinality(EarlyPackets')
            <4> SUFFICES ASSUME orderly' = Flows
                         PROVE  /\ IsFiniteSet(EarlyPackets')
                                /\ reorder_count' = Cardinality(EarlyPackets')
                OBVIOUS
            <4> DEFINE new == <<f, Len(log[f]) + 1>>
                       late == \E k \in 0..p.pos - 1 : k \notin Range(log[f])
            <4>1. IsFiniteSet(EarlyPackets) /\ reorder_count = Cardinality(EarlyPackets)
                BY <3>1 DEF GapInv
            <4>2. reorder_count' = reorder_count + IF late THEN 1 ELSE 0
                BY <1>2, <2>6, OrderlyStep
            <4>3. /\ new \notin EarlyPackets
                  /\ EarlyPackets' = EarlyPackets \cup IF late THEN {new} ELSE {}
                BY <2>6, <3>1, EarlyGrows
            <4> HIDE DEF new, late
            <4>4. reorder_count \in Nat
                BY DEF GapInv, Inv
            <4>5. CASE late
                <5>1. EarlyPackets' = EarlyPackets \cup {new}
                    BY <4>3, <4>5
                <5>2. /\ IsFiniteSet(EarlyPackets \cup {new})
                      /\ Cardinality(EarlyPackets \cup {new}) = Cardinality(EarlyPackets) + 1
                    BY <4>1, <4>3, FS_AddElement
                <5> QED
                    BY <4>1, <4>2, <4>5, <5>1, <5>2
            <4>6. CASE ~late
                <5>1. EarlyPackets' = EarlyPackets /\ reorder_count' = reorder_count
                    BY <4>2, <4>3, <4>4, <4>6
                <5> QED
                    BY <4>1, <5>1
            <4> QED
                BY <4>5, <4>6
        <3>9. orderly' \subseteq Flows
            BY <2>3, <3>1
        <3> QED
            BY <2>1, <3>4, <3>7, <3>8, <3>9 DEF GapInv, Keeps, Pos, EntryAt, NothingDue
    <2>7. CASE ~Orderly(p)
        <3>1. orderly' = orderly \ {f} /\ log' = [log EXCEPT ![f] = <<>>]
            BY <1>2, <2>7 DEF Logged
        <3>2. log' \in [Flows -> Seq(Positions)] /\ \A g \in Flows \ {f} : log'[g] = log[g]
            <4>1. <<>> \in Seq(Positions)
                OBVIOUS
            <4> QED
                BY <2>2, <2>3, <3>1, <4>1
        <3>3. ASSUME NEW g \in orderly'
              PROVE  IF log'[g] = <<>> THEN g \notin DOMAIN bufs'
                     ELSE /\ g \in DOMAIN bufs' /\ Keeps(g, bufs'[g], Range(log'[g]))
                          /\ NothingDue(bufs'[g])
            <4>1. g \in orderly /\ g \in Flows /\ g # f /\ log'[g] = log[g]
                BY <2>3, <3>1, <3>2
            <4> QED
                BY <2>4, <2>5, <4>1 DEF GapInv
        <3>4. orderly' # Flows /\ orderly' \subseteq Flows
            BY <2>2, <2>3, <3>1
        <3> QED
            BY <2>1, <3>2, <3>3, <3>4 DEF GapInv, Keeps, Pos, EntryAt, NothingDue
    <2> QED
        BY <2>6, <2>7
<1> QED
    BY <1>1, <1>2 DEF NextLogged

\* An orderly flow is expected to go on with the first packet that is missing, its
\* buffer holds exactly what rc_handle_packet received beyond that, and the count is
\* the number of packets that came early, for every order of arrival.
THEOREM GapsCorrect == SpecLogged => []GapExact
<1>1. InitLogged => GapInv
    <2> SUFFICES ASSUME InitLogged PROVE GapInv
        OBVIOUS
    <2>1. Inv
        BY InvInit DEF InitLogged
    <2>2. EarlyPackets = {}
        BY DEF InitLogged, EarlyPackets, Early
    <2>3. \A f \in Flows : log[f] = <<>> /\ f \notin DOMAIN bufs
        BY DEF InitLogged, Init
    <2>4. log \in [Flows -> Seq(Positions)]
        <3>1. <<>> \in Seq(Positions)
            OBVIOUS
        <3> QED
            BY <3>1 DEF InitLogged
    <2> QED
        BY <2>1, <2>2, <2>3, <2>4, FS_EmptySet DEF GapInv, InitLogged, Init
<1>2. GapInv /\ [NextLogged]_varsLogged => GapInv'
    BY GapInvStep
<1>3. GapInv => GapExact
    <2> SUFFICES ASSUME GapInv PROVE GapExact
        OBVIOUS
    <2>1. ASSUME NEW f \in orderly, log[f] # <<>>
          PROVE  /\ bufs[f].expected_next = U32Of(Isn[f] + FirstMissing(f))
                 /\ bufs[f].root = {[seq |-> U32Of(Isn[f] + n), seg_size |-> 1] :
                                    n \in {m \in Range(log[f]) : m > FirstMissing(f)}}
        <3> DEFINE b == bufs[f]
                   A == Range(log[f])
                   k == Pos(f, b.expected_next)
        <3>1. f \in Flows /\ b \in Buffer(f) /\ Keeps(f, b, A) /\ NothingDue(b)
            BY <2>1 DEF GapInv, Inv
        <3>2. A \in SUBSET Positions
            <4>1. log[f] \in Seq(Positions)
                BY <3>1 DEF GapInv
            <4> QED
                BY <4>1 DEF Range
        <3> HIDE DEF A, b
        <3>3. k \in 0..Half /\ IsFirstMissing(k, A)
            BY <3>1, <3>2, ExpectsFirstMissing
        <3>4. ASSUME NEW n \in 0..Half, IsFirstMissing(n, A)
              PROVE  n = k
            <4>1. ~(n < k) /\ ~(k < n)
                BY <3>3, <3>4 DEF IsFirstMissing
            <4> QED
                BY <3>3, <4>1, HalfAssumption
        <3>5. FirstMissing(f) = k
            <4>1. FirstMissing(f) \in 0..Half /\ IsFirstMissing(FirstMissing(f), A)
                <5> HIDE DEF k
                <5> QED BY <3>3, Zenon DEF FirstMissing, A
            <4> QED
                BY <3>4, <4>1
        <3>6. b.expected_next = U32Of(Isn[f] + k)
            <4>1. Isn[f] \in SeqNumbers /\ b.expected_next \in SeqNumbers
                BY <3>1, ReseqAssumption, BufferFacts
            <4> QED
                BY <4>1, NumberOfPosition DEF Pos
        <3>7. {m \in A : m > k} = {m \in A : m >= k}
            <4>1. \A m \in A : m \in Nat
                BY <3>2 DEF Positions
            <4>2. k \notin A
                BY <3>3 DEF IsFirstMissing
            <4> QED
                BY <3>3, <4>1, <4>2, HalfAssumption
        <3>8. b.root = {EntryAt(f, n) : n \in {m \in A : m > k}}
            BY <3>1, <3>7 DEF Keeps
        <3> QED
            BY <3>5, <3>6, <3>8 DEF EntryAt, A, b
    <2>2. orderly = Flows => reorder_count = Cardinality(EarlyPackets)
        BY DEF GapInv
    <2> QED
        BY <2>1, <2>2 DEF GapExact
<1> QED
    BY <1>1, <1>2, <1>3, PTL DEF SpecLogged
=============================================================================
