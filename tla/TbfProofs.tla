----------------------------- MODULE TbfProofs -----------------------------
(***************************************************************************)
(* Proofs about Tbf, for all packets, option blocks and bounds.            *)
(***************************************************************************)
EXTENDS Tbf, Induction, SequenceTheorems, TLAPS

(***************************************************************************)
(* The conversions.                                                        *)
(***************************************************************************)
\* psched_l2t_ns yields a time.
LEMMA L2TNat ==
    ASSUME NEW rate \in Nat, NEW len \in Nat
    PROVE  psched_l2t_ns(rate, len) \in Nat
<1>1. len * NSEC_PER_SEC \in Nat
    BY PschedAssumption
<1> QED
    BY <1>1 DEF psched_l2t_ns

\* psched_ns_t2l yields a length, also at rate 0.
LEMMA T2LNat ==
    ASSUME NEW rate \in Nat, NEW time \in Nat
    PROVE  psched_ns_t2l(rate, time) \in Nat
<1>1. time * rate \in Nat
    OBVIOUS
<1> QED
    BY <1>1, PschedAssumption DEF psched_ns_t2l

\* A longer packet takes no less time.
LEMMA L2TMonotonic ==
    ASSUME NEW rate \in Nat, NEW m \in Nat, NEW n \in Nat, m <= n
    PROVE  psched_l2t_ns(rate, m) <= psched_l2t_ns(rate, n)
<1>1. /\ m * NSEC_PER_SEC \in Nat
      /\ n * NSEC_PER_SEC \in Nat
      /\ m * NSEC_PER_SEC <= n * NSEC_PER_SEC
    BY PschedAssumption
<1> QED
    BY <1>1 DEF psched_l2t_ns

\* The length that psched_ns_t2l finds for a time can be sent in that time.
LEMMA L2TInverse ==
    ASSUME NEW rate \in Nat, NEW time \in Nat
    PROVE  psched_l2t_ns(rate, psched_ns_t2l(rate, time)) <= time
<1> DEFINE a == time * rate
           n == a \div NSEC_PER_SEC
<1>1. a \in Nat /\ n \in Nat
    BY PschedAssumption
<1>2. n * NSEC_PER_SEC <= a
    BY <1>1, PschedAssumption
<1>3. n * NSEC_PER_SEC \in Nat
    BY <1>1, PschedAssumption
<1>4. rate # 0 => (n * NSEC_PER_SEC) \div rate <= time
    <2> HIDE DEF n
    <2> QED BY <1>2, <1>3
<1>5. rate = 0 => n = 0
    BY PschedAssumption
<1> QED
    BY <1>4, <1>5 DEF psched_l2t_ns, psched_ns_t2l

\* An accepted option block yields well-typed parameters.
LEMMA ParamsTyped ==
    ASSUME NEW o \in Opts
    PROVE  /\ NewBuffer(o) \in Nat
           /\ NewMtu(o) \in Nat
           /\ NewMaxSize(o) \in Nat
           /\ NewParams(o) \in ParamType
<1>1. o \in OptType
    BY TbfAssumption
<1>2. /\ PSCHED_TICKS2NS(o.buffer) \in Nat
      /\ PSCHED_TICKS2NS(o.mtu) \in Nat
      /\ \A x \in Nat : CapU32(x) \in Nat
    BY <1>1, PschedAssumption DEF OptType, PSCHED_TICKS2NS, CapU32, MinOf
<1>3. NewBuffer(o) \in Nat
    BY <1>1, <1>2, L2TNat DEF NewBuffer, OptType, Absent
<1>4. NewMtu(o) \in Nat
    BY <1>1, <1>2, L2TNat DEF NewMtu, OptType, Absent
<1>5. NewMaxSize(o) \in Nat
    BY <1>1, <1>2, T2LNat DEF NewMaxSize, OptType, Absent, MinOf
<1> QED
    BY <1>1, <1>3, <1>4, <1>5 DEF NewParams, ParamType, OptType
-----------------------------------------------------------------------------
(***************************************************************************)
(* Types and the packet count, which the type of qlen needs.               *)
(***************************************************************************)
TypeInv == TypeOK /\ QlenExact

\* Products and quotients of naturals.
LEMMA ProductNat ==
    ASSUME NEW m \in Nat, NEW n \in Nat
    PROVE  m * n \in Nat
    OBVIOUS

LEMMA QuotientNat ==
    ASSUME NEW m \in Nat, NEW n \in Nat \ {0}
    PROVE  m \div n \in Nat
    OBVIOUS

\* Arithmetic on an unsigned counter stays in its range.
LEMMA U32Type ==
    ASSUME NEW n \in Int
    PROVE  n % U32 \in 0..U32 - 1 /\ n % U32 \in Nat
    BY PschedAssumption

\* A block of equal segments is a sequence of that many lengths.
LEMMA CopiesType ==
    ASSUME NEW n \in Nat, NEW len \in Nat \ {0}
    PROVE  /\ Copies(n, len) \in Seq(Nat \ {0})
           /\ Len(Copies(n, len)) = n
<1> DEFINE c == Copies(n, len)
<1>1. c \in [1..n -> Nat \ {0}]
    BY DEF Copies
<1>2. c \in Seq(Nat \ {0})
    BY <1>1
<1>3. Len(c) = n
    <2>1. DOMAIN c = 1..n /\ DOMAIN c = 1..Len(c) /\ Len(c) \in Nat
        BY <1>1, <1>2, LenProperties
    <2> HIDE DEF c
    <2> QED BY <2>1
<1> QED
    BY <1>2, <1>3

\* tbf_enqueue keeps the types and counts what the inner qdisc took.
LEMMA EnqueueType ==
    ASSUME TypeInv, NEW p \in Skbs, tbf_enqueue(p)
    PROVE  TypeInv'
<1> USE DEF TypeInv, TypeOK, QlenExact
<1>1. p \in SkbType
    BY TbfAssumption
<1>2. CASE UNCHANGED packets
    BY <1>2 DEF tbf_enqueue, packets, params, buckets, history
<1>3. CASE EnqueueInner(p) /\ Accepts(0, p.len)
    <2>1. /\ queue' = Append(queue, p.len)
          /\ ibacklog' = (ibacklog + p.len) % U32
          /\ backlog' = (backlog + p.len) % U32
          /\ qlen' = qlen + 1
        BY <1>3 DEF EnqueueInner
    <2>2. p.len \in Nat \ {0}
        BY <1>1 DEF SkbType
    <2>3. queue' \in Seq(Nat \ {0}) /\ Len(queue') = Len(queue) + 1
        BY <2>1, <2>2, AppendProperties
    <2>4. ibacklog' \in 0..U32 - 1 /\ backlog' \in 0..U32 - 1
        <3>1. ibacklog + p.len \in Int /\ backlog + p.len \in Int
            BY <2>2
        <3> QED BY <2>1, <3>1, U32Type
    <2> QED
        BY <2>1, <2>3, <2>4 DEF tbf_enqueue, params, buckets, history
<1>4. CASE tbf_segment(p)
    <2> DEFINE room == MaxOf(inner.limit - Used, 0)
               full == IF inner.kind = "noop" THEN 0
                       ELSE MinOf(p.full, room \div Weight(p.seg))
               tail == IF Accepts(full * Weight(p.seg), p.tail) THEN 1 ELSE 0
               a == Copies(full, p.seg)
               b == Copies(tail, p.tail)
    <2>1. /\ queue' = queue \o a \o b
          /\ ibacklog' = (ibacklog + full * p.seg + tail * p.tail) % U32
          /\ qlen' = qlen + full + tail
          /\ backlog' = backlog
        BY <1>4 DEF tbf_segment
    <2>2. p.seg \in Nat \ {0} /\ p.tail \in Nat \ {0} /\ p.full \in Nat
        BY <1>1 DEF SkbType
    <2>3. Used \in Nat /\ inner.limit \in Nat
        <3>1. Len(queue) \in Nat /\ ibacklog \in Nat
            OBVIOUS
        <3> QED BY <3>1 DEF Used, InnerType
    <2>4. room \in Nat
        BY <2>3 DEF MaxOf
    <2>5. Weight(p.seg) \in Nat \ {0}
        BY <2>2 DEF Weight
    <2>6. room \div Weight(p.seg) \in Nat
        <3> HIDE DEF room
        <3> QED BY <2>4, <2>5, QuotientNat
    <2>7. full \in Nat /\ tail \in Nat
        BY <2>2, <2>6 DEF MinOf
    <2> HIDE DEF full, tail
    <2>8. /\ a \in Seq(Nat \ {0}) /\ Len(a) = full
          /\ b \in Seq(Nat \ {0}) /\ Len(b) = tail
        BY <2>2, <2>7, CopiesType
    <2>9. /\ queue' \in Seq(Nat \ {0})
          /\ Len(queue') = Len(queue) + full + tail
        <3> DEFINE s == queue \o a
        <3>1. queue' = s \o b
            BY <2>1
        <3> HIDE DEF a, b
        <3>2. s \in Seq(Nat \ {0}) /\ Len(s) = Len(queue) + full
            BY <2>8, ConcatProperties
        <3> HIDE DEF s
        <3>3. s \o b \in Seq(Nat \ {0}) /\ Len(s \o b) = Len(s) + tail
            BY <2>8, <3>2, ConcatProperties
        <3> QED
            BY <3>1, <3>2, <3>3
    <2>10. ibacklog + full * p.seg + tail * p.tail \in Int
        <3>1. full * p.seg \in Nat /\ tail * p.tail \in Nat
            BY <2>2, <2>7, ProductNat
        <3> QED BY <3>1
    <2>11. ibacklog' \in 0..U32 - 1
        BY <2>1, <2>10, U32Type
    <2> QED
        BY <2>1, <2>7, <2>9, <2>11 DEF tbf_enqueue, params, buckets, history
<1> QED
    BY <1>2, <1>3, <1>4 DEF tbf_enqueue, EnqueueInner

\* What the two buckets charge for a packet is a time.
LEMMA CostType ==
    ASSUME TypeOK, NEW len \in Nat
    PROVE  /\ Cost(len) \in Nat /\ PCost(len) \in Nat
           /\ Earned \in Nat /\ Earned <= age /\ Earned <= par.buffer
           /\ Toks(len) \in Int /\ PToks(len) \in Int
<1>1. par.rate \in Nat /\ par.peak \in Nat
      /\ par.buffer \in Nat /\ par.mtu \in Nat
    BY DEF TypeOK, ParamType
<1>2. Cost(len) \in Nat
    BY <1>1, L2TNat DEF Cost
<1>3. PCost(len) \in Nat
    BY <1>1, L2TNat DEF PCost, tbf_peak_present
<1>4. age \in Nat /\ tokens \in Nat /\ ptokens \in Nat
    BY TimeCapAssumption, TbfAssumption DEF TypeOK
<1>5. Earned \in Nat /\ Earned <= age /\ Earned <= par.buffer
    BY <1>1, <1>4 DEF Earned, MinOf
<1>6. Toks(len) \in Int /\ PToks(len) \in Int
    BY <1>1, <1>2, <1>3, <1>4, <1>5 DEF Toks, PToks, MinOf
<1> QED
    BY <1>2, <1>3, <1>5, <1>6

\* tbf_dequeue keeps the types: the packet it sends leaves both buckets at zero
\* or above, the packet it holds back yields a wake-up in the future.
LEMMA DequeueType ==
    ASSUME TypeInv, tbf_dequeue
    PROVE  TypeInv'
<1> USE DEF TypeInv, TypeOK, QlenExact
<1>1. CASE DequeueEmpty
    BY <1>1 DEF tbf_dequeue, DequeueEmpty, params, buckets, packets, history
<1>2. CASE DequeueSend
    <2> DEFINE len == Head(queue)
    <2>1. queue # <<>> /\ queue' = Tail(queue) /\ Conforming(len)
          /\ qlen' = qlen - 1 /\ res' = len
        BY <1>2 DEF DequeueSend
    <2>2. /\ len \in Nat \ {0}
          /\ queue' \in Seq(Nat \ {0})
          /\ Len(queue') = Len(queue) - 1
          /\ Len(queue) \in Nat \ {0}
        BY <2>1, HeadTailProperties, EmptySeq, LenProperties
    <2>3. tokens' = Toks(len) /\ ptokens' = PToks(len) /\ age' = 0
          /\ excess' = excess + Cost(len) /\ pexcess' = pexcess + PCost(len)
          /\ ibacklog' = (ibacklog - len) % U32
          /\ backlog' = (backlog - len) % U32
        BY <1>2 DEF DequeueSend
    <2>4. UNCHANGED <<wakeup, depth, pdepth, params>>
        BY <1>2 DEF DequeueSend, tbf_dequeue
    <2> HIDE DEF len
    <2>5. /\ Cost(len) \in Nat /\ PCost(len) \in Nat
          /\ Toks(len) \in Int /\ PToks(len) \in Int
        BY <2>2, CostType
    <2>6. /\ tokens' \in Nat /\ ptokens' \in Nat
          /\ excess' \in Nat /\ pexcess' \in Nat
        <3>1. excess \in Nat /\ pexcess \in Nat
            OBVIOUS
        <3>2. Toks(len) >= 0 /\ PToks(len) >= 0
            BY <2>1 DEF Conforming
        <3> HIDE DEF TypeOK
        <3> QED BY <2>3, <2>5, <3>1, <3>2
    <2>7. ibacklog' \in 0..U32 - 1 /\ backlog' \in 0..U32 - 1
        <3>1. ibacklog - len \in Int /\ backlog - len \in Int
            BY <2>2
        <3> QED BY <2>3, <3>1, U32Type
    <2>8. age' \in 0..TimeCap
        BY <2>3, TbfAssumption
    <2>9. qlen' = Len(queue') /\ qlen' \in Nat /\ res' \in Nat
        BY <2>1, <2>2
    <2>10. UNCHANGED <<state, par, inner, pend, timer, last, run, depth, pdepth>>
        BY <2>4 DEF wakeup, params
    <2> QED
        BY <2>2, <2>6, <2>7, <2>8, <2>9, <2>10
<1>3. CASE DequeueThrottle
    <2> DEFINE len == Head(queue)
    <2>1. queue # <<>> /\ ~Conforming(len) /\ run' = FALSE /\ res' = 0
          /\ qdisc_watchdog_schedule_ns(Shortage(len))
          /\ UNCHANGED <<buckets, packets, history, params>>
        BY <1>3 DEF DequeueThrottle, tbf_dequeue
    <2>2. len \in Nat \ {0}
        BY <2>1, HeadTailProperties
    <2> HIDE DEF len
    <2>3. Shortage(len) \in Nat
        <3>1. Toks(len) \in Int /\ PToks(len) \in Int
            BY <2>2, CostType
        <3> QED BY <2>1, <3>1 DEF Conforming, Shortage, MaxOf
    <2>4. timer' \in Nat \cup {Absent} /\ last' \in Nat
        BY <2>1, <2>3 DEF qdisc_watchdog_schedule_ns
    <2> QED
        BY <2>1, <2>4 DEF params, buckets, packets, history
<1> QED
    BY <1>1, <1>2, <1>3 DEF tbf_dequeue

\* The clock, the watchdog and the device keep the types.
LEMMA LinkType ==
    ASSUME TypeInv,
           Tick \/ qdisc_watchdog \/ netif_wake_queue \/ dev_deactivate \/ dev_activate
    PROVE  TypeInv'
<1> USE DEF TypeInv, TypeOK, QlenExact
<1>1. CASE Tick
    <2>1. age' \in 0..TimeCap
        BY <1>1, TbfAssumption DEF Tick, MinOf
    <2>2. timer' \in Nat \cup {Absent} /\ last' \in Nat
        BY <1>1 DEF Tick, MaxOf, Absent
    <2>3. excess' \in Nat /\ pexcess' \in Nat
        BY <1>1 DEF Tick, MaxOf
    <2> QED
        BY <1>1, <2>1, <2>2, <2>3 DEF Tick, params, packets
<1>2. CASE qdisc_watchdog
    BY <1>2 DEF qdisc_watchdog, params, buckets, packets, history
<1>3. CASE netif_wake_queue
    BY <1>3 DEF netif_wake_queue, params, buckets, packets, history
<1>4. CASE dev_deactivate
    <2>1. age' \in 0..TimeCap /\ ibacklog' \in 0..U32 - 1 /\ backlog' \in 0..U32 - 1
        BY <1>4, TbfAssumption, PschedAssumption DEF dev_deactivate, tbf_reset
    <2>2. queue' \in Seq(Nat \ {0}) /\ qlen' = Len(queue')
        BY <1>4 DEF dev_deactivate, tbf_reset
    <2>3. par.buffer \in Nat /\ par.mtu \in Nat
        BY DEF ParamType
    <2>4. /\ tokens' \in Nat /\ ptokens' \in Nat
          /\ excess' \in Nat /\ pexcess' \in Nat /\ depth' \in Nat /\ pdepth' \in Nat
        BY <1>4, <2>3 DEF dev_deactivate, tbf_reset
    <2>5. /\ state' \in {"none", "up", "down"} /\ qlen' \in Nat
          /\ timer' \in Nat \cup {Absent} /\ last' \in Nat
          /\ run' \in BOOLEAN /\ res' \in Nat \cup {EINVAL, ENOMEM}
          /\ UNCHANGED <<par, inner, pend>>
        BY <1>4 DEF dev_deactivate, tbf_reset
    <2> QED
        BY <2>1, <2>2, <2>4, <2>5
<1>5. CASE dev_activate
    BY <1>5 DEF dev_activate, buckets, packets, wakeup, history
<1> QED
    BY <1>1, <1>2, <1>3, <1>4, <1>5

\* Creation, removal, graft and dump keep the types.
LEMMA LifetimeType ==
    ASSUME TypeInv, Lifetime
    PROVE  TypeInv'
<1> USE DEF TypeInv, TypeOK, QlenExact
<1>1. ASSUME NEW o \in Opts, tbf_init(o)
      PROVE  TypeInv'
    <2>1. o.limit \in Nat /\ NewBuffer(o) \in Nat /\ NewMtu(o) \in Nat
          /\ NewParams(o) \in ParamType
        BY ParamsTyped, TbfAssumption DEF OptType
    <2>2. par' \in ParamType /\ depth' \in Nat /\ pdepth' \in Nat
        BY <1>1, <2>1 DEF tbf_init
    <2>3. inner' \in InnerType
        BY <1>1, <2>1 DEF tbf_init, bfifo, noop_qdisc, InnerType
    <2>4. state' \in {"none", "up", "down"} /\ res' \in Nat \cup {EINVAL, ENOMEM}
        BY <1>1 DEF tbf_init
    <2>5. UNCHANGED <<pend, buckets, packets, wakeup, excess, pexcess>>
        BY <1>1 DEF tbf_init
    <2> QED
        BY <2>2, <2>3, <2>4, <2>5 DEF buckets, packets, wakeup
<1>2. CASE tbf_destroy
    <2>1. age' \in 0..TimeCap /\ ibacklog' \in 0..U32 - 1 /\ backlog' \in 0..U32 - 1
        BY <1>2, TbfAssumption, PschedAssumption DEF tbf_destroy
    <2>2. par' \in ParamType /\ inner' \in InnerType
        BY <1>2 DEF tbf_destroy, NoParams, ParamType, noop_qdisc, InnerType
    <2>3. queue' \in Seq(Nat \ {0}) /\ qlen' = Len(queue')
        BY <1>2 DEF tbf_destroy
    <2>4. /\ tokens' \in Nat /\ ptokens' \in Nat
          /\ excess' \in Nat /\ pexcess' \in Nat /\ depth' \in Nat /\ pdepth' \in Nat
        BY <1>2 DEF tbf_destroy
    <2>5. /\ state' \in {"none", "up", "down"} /\ qlen' \in Nat
          /\ timer' \in Nat \cup {Absent} /\ last' \in Nat
          /\ run' \in BOOLEAN /\ res' \in Nat \cup {EINVAL, ENOMEM}
          /\ pend' = pend
        BY <1>2 DEF tbf_destroy
    <2> QED
        BY <2>1, <2>2, <2>3, <2>4, <2>5
<1>3. ASSUME NEW new \in Inners, tbf_graft(new)
      PROVE  TypeInv'
    <2>1. inner' \in InnerType
        BY <1>3, TbfAssumption DEF tbf_graft
    <2>2. ibacklog' \in 0..U32 - 1 /\ backlog' \in 0..U32 - 1
        <3>1. backlog - ibacklog \in Int
            OBVIOUS
        <3>2. ibacklog' = 0 /\ backlog' = (backlog - ibacklog) % U32
            BY <1>3 DEF tbf_graft
        <3>3. 0 \in 0..U32 - 1
            BY PschedAssumption
        <3> QED BY <3>1, <3>2, <3>3, U32Type
    <2>3. queue' \in Seq(Nat \ {0}) /\ qlen' = Len(queue') /\ qlen' \in Nat
        BY <1>3 DEF tbf_graft
    <2> QED
        BY <1>3, <2>1, <2>2, <2>3 DEF tbf_graft, buckets, wakeup, history
<1>4. CASE tbf_dump
    BY <1>4 DEF tbf_dump, params, buckets, wakeup, history
<1> QED
    BY <1>1, <1>2, <1>3, <1>4 DEF Lifetime

\* tbf_change keeps the types.
LEMMA ChangeType ==
    ASSUME TypeInv, Change
    PROVE  TypeInv'
<1> USE DEF TypeInv, TypeOK, QlenExact
<1>1. ASSUME NEW o \in Opts, tbf_change(o)
      PROVE  TypeInv'
    <2>1. o.limit \in Nat
        BY TbfAssumption DEF OptType
    <2>2. inner' \in InnerType
        BY <1>1, <2>1 DEF tbf_change, fifo_set_limit, InnerType
    <2>3. pend' \subseteq [opt : {x \in Opts : ~Invalid(x)}, child : BOOLEAN]
        <3> DEFINE v == [opt |-> o, child |-> inner.kind = "noop" /\ o.limit > 0]
        <3>1. pend' = pend \/ (~Invalid(o) /\ pend' = {v})
            BY <1>1 DEF tbf_change
        <3>2. ~Invalid(o) => v \in [opt : {x \in Opts : ~Invalid(x)}, child : BOOLEAN]
            OBVIOUS
        <3> HIDE DEF v
        <3> QED BY <3>1, <3>2
    <2>4. res' \in Nat \cup {EINVAL, ENOMEM}
        BY <1>1 DEF tbf_change
    <2> QED
        BY <1>1, <2>2, <2>3, <2>4 DEF tbf_change, buckets, packets, wakeup, history
<1>2. CASE tbf_change_locked
    <2>1. PICK req \in pend :
            /\ pend' = {}
            /\ inner' = IF req.child THEN bfifo(req.opt.limit) ELSE inner
            /\ par' = NewParams(req.opt)
            /\ depth' = MaxOf(depth, NewBuffer(req.opt))
            /\ pdepth' = MaxOf(pdepth, NewMtu(req.opt))
            /\ res' = 0
            /\ UNCHANGED <<buckets, state, packets, wakeup, excess, pexcess>>
        BY <1>2 DEF tbf_change_locked, KeepBuckets
    <2>2. req.opt \in Opts
        OBVIOUS
    <2>3. req.opt.limit \in Nat /\ NewBuffer(req.opt) \in Nat
          /\ NewMtu(req.opt) \in Nat /\ NewParams(req.opt) \in ParamType
        BY <2>2, ParamsTyped, TbfAssumption DEF OptType
    <2>4. inner' \in InnerType
        BY <2>1, <2>3 DEF bfifo, InnerType
    <2>5. depth' \in Nat /\ pdepth' \in Nat /\ par' \in ParamType
        BY <2>1, <2>3 DEF MaxOf
    <2> QED
        BY <2>1, <2>4, <2>5 DEF buckets, packets, wakeup
<1> QED
    BY <1>1, <1>2 DEF Change

\* Every step keeps the types.
LEMMA TypeStep ==
    ASSUME TypeInv, [Next]_vars
    PROVE  TypeInv'
<1>1. CASE UNCHANGED vars
    BY <1>1 DEF TypeInv, TypeOK, QlenExact, vars, params, buckets, packets,
                wakeup, history
<1>2. CASE Next
    BY <1>2, EnqueueType, DequeueType, LinkType, LifetimeType, ChangeType
    DEF Next, PacketPath, Link
<1> QED
    BY <1>1, <1>2

LEMMA TypeInit ==
    ASSUME Init
    PROVE  TypeInv
<1>1. NoParams \in ParamType /\ noop_qdisc \in InnerType
    BY DEF NoParams, ParamType, noop_qdisc, InnerType
<1>2. 0 \in 0..TimeCap /\ 0 \in 0..U32 - 1
    BY TbfAssumption, PschedAssumption
<1>3. /\ state = "none" /\ par = NoParams /\ inner = noop_qdisc /\ pend = {}
      /\ tokens = 0 /\ ptokens = 0 /\ age = 0
      /\ ibacklog = 0 /\ backlog = 0 /\ qlen = 0
      /\ timer = Absent /\ last = 0 /\ run = FALSE /\ res = 0
      /\ excess = 0 /\ pexcess = 0 /\ depth = 0 /\ pdepth = 0
    BY DEF Init
<1>4. queue \in Seq(Nat \ {0}) /\ Len(queue) = 0
    BY DEF Init
<1> QED
    BY <1>1, <1>2, <1>3, <1>4 DEF TypeInv, TypeOK, QlenExact

\* The variables keep their types and no bucket goes below zero, whatever the
\* order of packets, wake-ups, rate changes and link events.
THEOREM TypeCorrect == Spec => []TypeOK
<1>1. Init => TypeInv
    BY TypeInit
<1>2. TypeInv /\ [Next]_vars => TypeInv'
    BY TypeStep
<1>3. TypeInv => TypeOK
    BY DEF TypeInv
<1> QED
    BY <1>1, <1>2, <1>3, PTL DEF Spec

\* tbf counts exactly the packets that its inner qdisc holds.
THEOREM QlenCorrect == Spec => []QlenExact
<1>1. Init => TypeInv
    BY TypeInit
<1>2. TypeInv /\ [Next]_vars => TypeInv'
    BY TypeStep
<1>3. TypeInv => QlenExact
    BY DEF TypeInv
<1> QED
    BY <1>1, <1>2, <1>3, PTL DEF Spec
-----------------------------------------------------------------------------
(***************************************************************************)
(* The rate bound.  A bucket may hold more than the present buffer, because *)
(* tbf_change keeps the tokens, but never more than the deepest one.  What  *)
(* the traffic is ahead, what the bucket holds and what it is about to      *)
(* earn add up to no more than that depth.                                  *)
(***************************************************************************)
NoneInv ==
    state = "none" => /\ tokens = 0 /\ ptokens = 0
                      /\ excess = 0 /\ pexcess = 0
                      /\ queue = <<>>

RateInv ==
    /\ par.buffer <= depth
    /\ tokens <= depth
    /\ excess = 0 \/ excess + tokens + age <= depth

PeakInv ==
    /\ par.mtu <= pdepth
    /\ ptokens <= pdepth
    /\ pexcess = 0 \/ pexcess + ptokens + age <= pdepth

BucketInv == NoneInv /\ RateInv /\ PeakInv

\* The numbers the bucket invariants compare.
LEMMA Numbers ==
    ASSUME TypeOK
    PROVE  /\ tokens \in Nat /\ ptokens \in Nat /\ age \in Nat
           /\ excess \in Nat /\ pexcess \in Nat /\ depth \in Nat /\ pdepth \in Nat
           /\ par.buffer \in Nat /\ par.mtu \in Nat
    BY TbfAssumption DEF TypeOK, ParamType

\* A packet that is sent adds to the excess what it takes out of the bucket.
LEMMA SendBuckets ==
    ASSUME TypeInv, BucketInv, tbf_dequeue, DequeueSend
    PROVE  RateInv' /\ PeakInv'
<1> DEFINE len == Head(queue)
<1>1. /\ queue # <<>> /\ age' = 0 /\ par' = par
      /\ tokens' = Toks(len) /\ ptokens' = PToks(len)
      /\ excess' = excess + Cost(len) /\ pexcess' = pexcess + PCost(len)
      /\ depth' = depth /\ pdepth' = pdepth
    BY DEF DequeueSend, tbf_dequeue, params
<1>2. len \in Nat
    BY <1>1, HeadTailProperties DEF TypeInv, TypeOK
<1> HIDE DEF len
<1>3. /\ Cost(len) \in Nat /\ PCost(len) \in Nat
      /\ Earned \in Nat /\ Earned <= age
    BY <1>2, CostType DEF TypeInv
<1>4. /\ tokens \in Nat /\ ptokens \in Nat /\ age \in Nat
      /\ excess \in Nat /\ pexcess \in Nat /\ depth \in Nat /\ pdepth \in Nat
      /\ par.buffer \in Nat /\ par.mtu \in Nat
    BY Numbers DEF TypeInv
<1>5. RateInv'
    <2>1. Toks(len) + Cost(len) <= par.buffer /\ Toks(len) + Cost(len) <= age + tokens
        BY <1>3, <1>4 DEF Toks, MinOf
    <2>2. Toks(len) \in Int
        BY <1>2, CostType DEF TypeInv
    <2>3. par.buffer <= depth /\ (excess = 0 \/ excess + tokens + age <= depth)
        BY DEF BucketInv, RateInv
    <2>4. Toks(len) <= depth /\ excess + Cost(len) + Toks(len) <= depth
        BY <1>3, <1>4, <2>1, <2>2, <2>3
    <2> QED
        BY <1>1, <1>3, <1>4, <2>2, <2>3, <2>4 DEF RateInv
<1>6. PeakInv'
    <2>1. \/ /\ PToks(len) + PCost(len) <= par.mtu
             /\ PToks(len) + PCost(len) <= age + ptokens
          \/ PToks(len) = 0 /\ PCost(len) = 0
        BY <1>3, <1>4 DEF PToks, PCost, MinOf
    <2>2. PToks(len) \in Int
        BY <1>2, CostType DEF TypeInv
    <2>3. par.mtu <= pdepth /\ (pexcess = 0 \/ pexcess + ptokens + age <= pdepth)
        BY DEF BucketInv, PeakInv
    <2>4. CASE /\ PToks(len) + PCost(len) <= par.mtu
               /\ PToks(len) + PCost(len) <= age + ptokens
        <3>1. PToks(len) <= pdepth /\ pexcess + PCost(len) + PToks(len) <= pdepth
            BY <1>3, <1>4, <2>2, <2>3, <2>4
        <3> QED
            BY <1>1, <1>3, <1>4, <2>2, <2>3, <3>1 DEF PeakInv
    <2>5. CASE PToks(len) = 0 /\ PCost(len) = 0
        BY <1>1, <1>4, <2>3, <2>5 DEF PeakInv
    <2> QED
        BY <2>1, <2>4, <2>5
<1> QED
    BY <1>5, <1>6

\* Time takes from the excess what it adds to the bucket.
LEMMA TickBuckets ==
    ASSUME TypeInv, BucketInv, Tick
    PROVE  RateInv' /\ PeakInv'
<1>1. /\ tokens \in Nat /\ ptokens \in Nat /\ age \in Nat
      /\ excess \in Nat /\ pexcess \in Nat /\ depth \in Nat /\ pdepth \in Nat
    BY Numbers DEF TypeInv
<1>2. /\ age' = MinOf(age + 1, TimeCap)
      /\ excess' = MaxOf(excess - 1, 0)
      /\ pexcess' = MaxOf(pexcess - 1, 0)
      /\ tokens' = tokens /\ ptokens' = ptokens /\ par' = par
      /\ depth' = depth /\ pdepth' = pdepth
    BY DEF Tick, params
<1>3. age' \in Nat /\ age' <= age + 1
    BY <1>1, <1>2, TbfAssumption DEF MinOf
<1> QED
    BY <1>1, <1>2, <1>3 DEF BucketInv, RateInv, PeakInv, MaxOf

\* A change of the parameters moves no token; the depth follows the buffer.
LEMMA ChangeBuckets ==
    ASSUME TypeInv, BucketInv, tbf_change_locked
    PROVE  RateInv' /\ PeakInv'
<1>1. PICK req \in pend :
        /\ par' = NewParams(req.opt)
        /\ depth' = MaxOf(depth, NewBuffer(req.opt))
        /\ pdepth' = MaxOf(pdepth, NewMtu(req.opt))
        /\ UNCHANGED <<tokens, ptokens, age, excess, pexcess>>
    BY DEF tbf_change_locked, KeepBuckets, buckets
<1>2. req.opt \in Opts
    BY DEF TypeInv, TypeOK
<1>3. NewBuffer(req.opt) \in Nat /\ NewMtu(req.opt) \in Nat
    BY <1>2, ParamsTyped
<1>4. par'.buffer = NewBuffer(req.opt) /\ par'.mtu = NewMtu(req.opt)
    BY <1>1 DEF NewParams
<1>5. /\ tokens \in Nat /\ ptokens \in Nat /\ age \in Nat
      /\ excess \in Nat /\ pexcess \in Nat /\ depth \in Nat /\ pdepth \in Nat
    BY Numbers DEF TypeInv
<1> QED
    BY <1>1, <1>3, <1>4, <1>5 DEF BucketInv, RateInv, PeakInv, MaxOf

LEMMA InitBuckets ==
    ASSUME TypeInv, BucketInv, NEW o \in Opts, tbf_init(o)
    PROVE  RateInv' /\ PeakInv'
<1>1. NewBuffer(o) \in Nat /\ NewMtu(o) \in Nat
    BY ParamsTyped
<1>2. tokens = 0 /\ ptokens = 0 /\ excess = 0 /\ pexcess = 0
    BY DEF BucketInv, NoneInv, tbf_init
<1>3. UNCHANGED <<tokens, ptokens, age, excess, pexcess>>
    BY DEF tbf_init, buckets
<1>4. \/ UNCHANGED <<par, depth, pdepth>>
      \/ /\ par' = NewParams(o)
         /\ depth' = NewBuffer(o) /\ pdepth' = NewMtu(o)
    BY DEF tbf_init
<1> QED
    BY <1>1, <1>2, <1>3, <1>4 DEF BucketInv, RateInv, PeakInv, NewParams

\* Steps that move neither tokens nor time nor parameters.
LEMMA SameBuckets ==
    ASSUME BucketInv,
           UNCHANGED <<par, tokens, ptokens, age, excess, pexcess, depth, pdepth>>
    PROVE  RateInv' /\ PeakInv'
    BY DEF BucketInv, RateInv, PeakInv

\* A link that goes down, or a qdisc that is removed, starts afresh.
LEMMA ResetBuckets ==
    ASSUME TypeInv, dev_deactivate \/ tbf_destroy
    PROVE  RateInv' /\ PeakInv'
<1>1. CASE dev_deactivate
    <2>1. par.buffer \in Nat /\ par.mtu \in Nat
        BY Numbers DEF TypeInv
    <2>2. /\ par' = par /\ tokens' = par.buffer /\ ptokens' = par.mtu
          /\ excess' = 0 /\ pexcess' = 0 /\ depth' = par.buffer /\ pdepth' = par.mtu
        BY <1>1 DEF dev_deactivate, tbf_reset
    <2> QED
        BY <2>1, <2>2 DEF RateInv, PeakInv
<1>2. CASE tbf_destroy
    BY <1>2 DEF tbf_destroy, NoParams, RateInv, PeakInv
<1> QED
    BY <1>1, <1>2

\* A qdisc that does not exist holds nothing.
LEMMA NoneStep ==
    ASSUME NoneInv, [Next]_vars
    PROVE  NoneInv'
<1> SUFFICES ASSUME state' = "none"
             PROVE  /\ tokens' = 0 /\ ptokens' = 0
                    /\ excess' = 0 /\ pexcess' = 0
                    /\ queue' = <<>>
    BY DEF NoneInv
<1>1. CASE tbf_destroy
    BY <1>1 DEF tbf_destroy
<1>2. CASE state = "none" /\ UNCHANGED <<tokens, ptokens, excess, pexcess, queue>>
    BY <1>2 DEF NoneInv
<1>3. CASE UNCHANGED vars
    BY <1>2, <1>3 DEF vars, params, buckets, packets, history
<1>4. CASE PacketPath
    <2>1. CASE qdisc_watchdog
        BY <1>2, <2>1 DEF qdisc_watchdog, params, buckets, packets, history
    <2> QED
        BY <1>4, <2>1 DEF PacketPath, tbf_enqueue, tbf_dequeue, Tick,
                          netif_wake_queue, params
<1>5. CASE Change
    <2>1. state' = state
        BY <1>5 DEF Change, tbf_change, tbf_change_locked
    <2>2. UNCHANGED <<tokens, ptokens, excess, pexcess, queue>>
        BY <1>5 DEF Change, tbf_change, tbf_change_locked, KeepBuckets,
                    buckets, packets, history
    <2> QED
        BY <1>2, <2>1, <2>2
<1>6. CASE Lifetime
    <2>1. CASE \E o \in Opts : tbf_init(o)
        BY <1>2, <2>1 DEF tbf_init, buckets, packets
    <2> QED
        BY <1>1, <1>6, <2>1 DEF Lifetime, tbf_graft, tbf_dump, params
<1>7. CASE Link
    BY <1>7 DEF Link, dev_deactivate, dev_activate
<1> QED
    BY <1>3, <1>4, <1>5, <1>6, <1>7 DEF Next

LEMMA BucketStep ==
    ASSUME TypeInv, BucketInv, [Next]_vars
    PROVE  BucketInv'
<1>1. NoneInv'
    BY NoneStep DEF BucketInv
<1> SUFFICES RateInv' /\ PeakInv'
    BY <1>1 DEF BucketInv
<1>2. CASE UNCHANGED vars
    BY <1>2, SameBuckets DEF vars, params, buckets, history
<1>3. ASSUME NEW p \in Skbs, tbf_enqueue(p)
      PROVE  RateInv' /\ PeakInv'
    BY <1>3, SameBuckets DEF tbf_enqueue, params, buckets, history
<1>4. CASE tbf_dequeue
    <2>1. CASE DequeueSend
        BY <1>4, <2>1, SendBuckets
    <2>2. CASE DequeueEmpty \/ DequeueThrottle
        BY <1>4, <2>2, SameBuckets
        DEF tbf_dequeue, DequeueEmpty, DequeueThrottle, params, buckets, history
    <2> QED
        BY <1>4, <2>1, <2>2 DEF tbf_dequeue
<1>5. CASE qdisc_watchdog \/ netif_wake_queue \/ dev_activate
    BY <1>5, SameBuckets
    DEF qdisc_watchdog, netif_wake_queue, dev_activate, params, buckets, history
<1>6. ASSUME NEW o \in Opts, tbf_change(o)
      PROVE  RateInv' /\ PeakInv'
    BY <1>6, SameBuckets DEF tbf_change, buckets, history
<1>7. ASSUME NEW new \in Inners, tbf_graft(new)
      PROVE  RateInv' /\ PeakInv'
    BY <1>7, SameBuckets DEF tbf_graft, buckets, history
<1>8. CASE tbf_dump
    BY <1>8, SameBuckets DEF tbf_dump, params, buckets, history
<1>9. CASE Next
    BY <1>3, <1>4, <1>5, <1>6, <1>7, <1>8, <1>9,
       TickBuckets, ChangeBuckets, InitBuckets, ResetBuckets
    DEF Next, PacketPath, Change, Lifetime, Link
<1> QED
    BY <1>2, <1>9

LEMMA BucketInit ==
    ASSUME Init
    PROVE  BucketInv
    BY DEF Init, BucketInv, NoneInv, RateInv, PeakInv, NoParams

\* In no interval does tbf let through more than the interval lasts plus the
\* deepest buffer, however often and whenever tbf_change is called.
THEOREM RateCorrect == Spec => []RateConformance
<1>1. Init => TypeInv /\ BucketInv
    BY TypeInit, BucketInit
<1>2. TypeInv /\ BucketInv /\ [Next]_vars => (TypeInv /\ BucketInv)'
    BY TypeStep, BucketStep
<1>3. TypeInv /\ BucketInv => RateConformance
    BY Numbers DEF TypeInv, BucketInv, RateInv, RateConformance
<1> QED
    BY <1>1, <1>2, <1>3, PTL DEF Spec

\* The same for the peak rate and the deepest mtu.
THEOREM PeakCorrect == Spec => []PeakConformance
<1>1. Init => TypeInv /\ BucketInv
    BY TypeInit, BucketInit
<1>2. TypeInv /\ BucketInv /\ [Next]_vars => (TypeInv /\ BucketInv)'
    BY TypeStep, BucketStep
<1>3. TypeInv /\ BucketInv => PeakConformance
    BY Numbers DEF TypeInv, BucketInv, PeakInv, PeakConformance
<1> QED
    BY <1>1, <1>2, <1>3, PTL DEF Spec
-----------------------------------------------------------------------------
(***************************************************************************)
(* Admission.                                                              *)
(***************************************************************************)
\* The max_size of an accepted option block fits in its buckets.
LEMMA MaxSizeFits ==
    ASSUME NEW o \in Opts, ~Invalid(o)
    PROVE  /\ psched_l2t_ns(o.rate, NewMaxSize(o)) <= NewBuffer(o)
           /\ o.peakrate # 0 =>
                psched_l2t_ns(o.peakrate, NewMaxSize(o)) <= NewMtu(o)
<1> DEFINE tb == PSCHED_TICKS2NS(o.buffer)
           tm == PSCHED_TICKS2NS(o.mtu)
           burst == IF o.burst # Absent THEN o.burst
                    ELSE CapU32(psched_ns_t2l(o.rate, CapU32(tb)))
           pburst == IF o.pburst # Absent THEN o.pburst
                     ELSE psched_ns_t2l(o.peakrate, CapU32(tm))
<1>1. o \in OptType
    BY TbfAssumption
<1>2. o.rate \in Nat /\ o.peakrate \in Nat
      /\ o.burst \in Nat \cup {Absent} /\ o.pburst \in Nat \cup {Absent}
    BY <1>1 DEF OptType
<1>3. tb \in Nat /\ tm \in Nat
    BY <1>1, PschedAssumption, ProductNat DEF OptType, PSCHED_TICKS2NS
<1>4. \A x \in Nat : CapU32(x) \in Nat /\ CapU32(x) <= x
    BY PschedAssumption DEF CapU32, MinOf
<1>5. /\ NewMaxSize(o) \in Nat
      /\ NewBuffer(o) \in Nat /\ NewMtu(o) \in Nat
    BY ParamsTyped
<1>6. NewMaxSize(o) = IF o.peakrate = 0 THEN burst ELSE MinOf(burst, pburst)
    BY DEF NewMaxSize
<1>7. NewBuffer(o) = (IF o.burst # Absent THEN psched_l2t_ns(o.rate, o.burst) ELSE tb)
    BY DEF NewBuffer
<1>8. o.peakrate # 0 =>
        NewMtu(o) = (IF o.pburst # Absent THEN psched_l2t_ns(o.peakrate, o.pburst) ELSE tm)
    BY DEF NewMtu
<1> HIDE DEF tb, tm
<1>9. /\ burst \in Nat
      /\ psched_l2t_ns(o.rate, burst) <= NewBuffer(o)
    <2>1. CASE o.burst # Absent
        <3>1. burst = o.burst /\ o.burst \in Nat
            BY <1>2, <2>1
        <3>2. psched_l2t_ns(o.rate, o.burst) \in Nat
            BY <1>2, <3>1, L2TNat
        <3>3. NewBuffer(o) = psched_l2t_ns(o.rate, o.burst)
            BY <1>7, <2>1
        <3> HIDE DEF burst
        <3> QED
            BY <3>1, <3>2, <3>3
    <2>2. CASE o.burst = Absent
        <3> DEFINE c == CapU32(tb)
                   n == psched_ns_t2l(o.rate, c)
        <3>1. c \in Nat /\ c <= tb
            BY <1>3, <1>4
        <3>2. n \in Nat /\ psched_l2t_ns(o.rate, n) <= c
            BY <1>2, <3>1, T2LNat, L2TInverse
        <3>3. burst = CapU32(n)
            BY <2>2
        <3> HIDE DEF n, c
        <3>4. burst \in Nat /\ burst <= n
            BY <1>4, <3>2, <3>3
        <3> HIDE DEF burst
        <3>5. psched_l2t_ns(o.rate, burst) <= psched_l2t_ns(o.rate, n)
            BY <1>2, <3>2, <3>4, L2TMonotonic
        <3>6. /\ psched_l2t_ns(o.rate, burst) \in Nat
              /\ psched_l2t_ns(o.rate, n) \in Nat
            BY <1>2, <3>2, <3>4, L2TNat
        <3> QED
            BY <1>3, <1>7, <2>2, <3>1, <3>2, <3>4, <3>5, <3>6
    <2> QED
        BY <2>1, <2>2
<1>10. o.peakrate # 0 =>
         /\ pburst \in Nat
         /\ psched_l2t_ns(o.peakrate, pburst) <= NewMtu(o)
    <2> SUFFICES ASSUME o.peakrate # 0
                 PROVE  /\ pburst \in Nat
                        /\ psched_l2t_ns(o.peakrate, pburst) <= NewMtu(o)
        OBVIOUS
    <2>1. CASE o.pburst # Absent
        <3>1. pburst = o.pburst /\ o.pburst \in Nat
            BY <1>2, <2>1
        <3>2. psched_l2t_ns(o.peakrate, o.pburst) \in Nat
            BY <1>2, <3>1, L2TNat
        <3>3. NewMtu(o) = psched_l2t_ns(o.peakrate, o.pburst)
            BY <1>8, <2>1
        <3> HIDE DEF pburst
        <3> QED
            BY <3>1, <3>2, <3>3
    <2>2. CASE o.pburst = Absent
        <3> DEFINE c == CapU32(tm)
        <3>1. c \in Nat /\ c <= tm
            BY <1>3, <1>4
        <3>2. pburst = psched_ns_t2l(o.peakrate, c)
            BY <2>2
        <3> HIDE DEF c, pburst
        <3>3. pburst \in Nat /\ psched_l2t_ns(o.peakrate, pburst) <= c
            BY <1>2, <3>1, <3>2, T2LNat, L2TInverse
        <3>4. psched_l2t_ns(o.peakrate, pburst) \in Nat
            BY <1>2, <3>3, L2TNat
        <3> QED
            BY <1>3, <1>8, <2>2, <3>1, <3>3, <3>4
    <2> QED
        BY <2>1, <2>2
<1> HIDE DEF burst, pburst
<1>11. /\ NewMaxSize(o) <= burst
       /\ o.peakrate # 0 => NewMaxSize(o) <= pburst
    BY <1>6, <1>9, <1>10 DEF MinOf
<1>12. psched_l2t_ns(o.rate, NewMaxSize(o)) <= NewBuffer(o)
    <2>1. psched_l2t_ns(o.rate, NewMaxSize(o)) <= psched_l2t_ns(o.rate, burst)
        BY <1>2, <1>5, <1>9, <1>11, L2TMonotonic
    <2>2. /\ psched_l2t_ns(o.rate, NewMaxSize(o)) \in Nat
          /\ psched_l2t_ns(o.rate, burst) \in Nat
        BY <1>2, <1>5, <1>9, L2TNat
    <2> QED
        BY <1>5, <1>9, <2>1, <2>2
<1>13. ASSUME o.peakrate # 0
       PROVE  psched_l2t_ns(o.peakrate, NewMaxSize(o)) <= NewMtu(o)
    <2>1. o.peakrate \in Nat \ {0}
        BY <1>2, <1>13
    <2>2. psched_l2t_ns(o.peakrate, NewMaxSize(o)) <= psched_l2t_ns(o.peakrate, pburst)
        BY <1>5, <1>10, <1>11, <1>13, <2>1, L2TMonotonic
    <2>3. /\ psched_l2t_ns(o.peakrate, NewMaxSize(o)) \in Nat
          /\ psched_l2t_ns(o.peakrate, pburst) \in Nat
        BY <1>5, <1>10, <1>13, <2>1, L2TNat
    <2> QED
        BY <1>5, <1>10, <1>13, <2>2, <2>3
<1> QED
    BY <1>12, <1>13

\* tbf_change installs parameters that fit.
LEMMA AdmitNew ==
    ASSUME NEW o \in Opts, ~Invalid(o), par' = NewParams(o)
    PROVE  AdmittedFits'
    BY MaxSizeFits DEF AdmittedFits, Cost, PCost, tbf_peak_present, NewParams

LEMMA AdmitStep ==
    ASSUME TypeInv, AdmittedFits, [Next]_vars
    PROVE  AdmittedFits'
<1>1. CASE UNCHANGED par /\ (state' # "none" => state # "none")
    BY <1>1 DEF AdmittedFits, Cost, PCost, tbf_peak_present
<1>2. CASE state' = "none"
    BY <1>2 DEF AdmittedFits
<1>3. CASE UNCHANGED vars
    BY <1>1, <1>3 DEF vars, params
<1>4. CASE PacketPath
    <2>1. UNCHANGED <<state, par>>
        BY <1>4 DEF PacketPath, tbf_enqueue, tbf_dequeue, Tick, qdisc_watchdog,
                    netif_wake_queue, params
    <2> QED
        BY <1>1, <2>1
<1>5. ASSUME NEW o \in Opts, tbf_change(o)
      PROVE  AdmittedFits'
    BY <1>1, <1>5 DEF tbf_change
<1>6. CASE tbf_change_locked
    <2>1. PICK req \in pend : par' = NewParams(req.opt)
        BY <1>6 DEF tbf_change_locked
    <2>2. req.opt \in Opts /\ ~Invalid(req.opt)
        BY DEF TypeInv, TypeOK
    <2> QED
        BY <2>1, <2>2, AdmitNew
<1>7. ASSUME NEW o \in Opts, tbf_init(o)
      PROVE  AdmittedFits'
    <2>1. UNCHANGED <<state, par>> \/ (~Invalid(o) /\ par' = NewParams(o))
        BY <1>7 DEF tbf_init
    <2> QED
        BY <1>1, <2>1, AdmitNew
<1>8. CASE tbf_destroy
    BY <1>2, <1>8 DEF tbf_destroy
<1>9. ASSUME NEW new \in Inners, tbf_graft(new)
      PROVE  AdmittedFits'
    BY <1>1, <1>9 DEF tbf_graft
<1>10. CASE tbf_dump
    BY <1>1, <1>10 DEF tbf_dump, params
<1>11. CASE Link
    BY <1>1, <1>11 DEF Link, dev_deactivate, dev_activate
<1> QED
    BY <1>3, <1>4, <1>5, <1>6, <1>7, <1>8, <1>9, <1>10, <1>11
    DEF Next, Change, Lifetime

\* A packet that tbf_enqueue admits can be paid for by full buckets, for every
\* mix of attributes of the request that set them.
THEOREM AdmissionCorrect == Spec => []AdmittedFits
<1>1. Init => TypeInv /\ AdmittedFits
    BY TypeInit DEF Init, AdmittedFits
<1>2. TypeInv /\ AdmittedFits /\ [Next]_vars => (TypeInv /\ AdmittedFits)'
    BY TypeStep, AdmitStep
<1> QED
    BY <1>1, <1>2, PTL DEF Spec
-----------------------------------------------------------------------------
(***************************************************************************)
(* Wake-ups.  While the link stays up, the watchdog and last_expires agree: *)
(* they differ only after a cancel, and only destroy cancels then.          *)
(***************************************************************************)
WatchdogInv ==
    /\ timer = Absent => last = 0
    /\ timer # Absent => timer = last

WakeInv == NoneInv /\ WatchdogInv /\ NoLostWakeup

\* tbf_dequeue that throttles leaves the watchdog armed.
LEMMA ThrottleArms ==
    ASSUME TypeInv, WatchdogInv, tbf_dequeue, DequeueThrottle
    PROVE  WatchdogInv' /\ timer' # Absent
<1> DEFINE len == Head(queue)
<1>1. queue # <<>> /\ ~Conforming(len) /\ qdisc_watchdog_schedule_ns(Shortage(len))
    BY DEF DequeueThrottle
<1>2. len \in Nat
    BY <1>1, HeadTailProperties DEF TypeInv, TypeOK
<1> HIDE DEF len
<1>3. Toks(len) \in Int /\ PToks(len) \in Int
    BY <1>2, CostType DEF TypeInv
<1>4. Shortage(len) \in Nat \ {0}
    BY <1>1, <1>3 DEF Conforming, Shortage, MaxOf
<1>5. timer \in Nat \cup {Absent} /\ last \in Nat
    BY DEF TypeInv, TypeOK
<1> QED
    BY <1>1, <1>4, <1>5 DEF qdisc_watchdog_schedule_ns, WatchdogInv, Absent

\* Without link events every step keeps the watchdog in order.
LEMMA WakeStep ==
    ASSUME TypeInv, WakeInv, [NextLinkUp]_vars
    PROVE  WakeInv'
<1> USE DEF WakeInv
<1>1. NoneInv'
    BY NoneStep DEF NextLinkUp, Next
<1>2. timer \in Nat \cup {Absent} /\ last \in Nat
    BY DEF TypeInv, TypeOK
<1> SUFFICES WatchdogInv' /\ NoLostWakeup'
    BY <1>1
<1>3. CASE /\ UNCHANGED <<timer, last>>
           /\ \/ UNCHANGED <<state, queue, run>>
              \/ run'
              \/ queue' = <<>>
    BY <1>3 DEF WatchdogInv, NoLostWakeup
<1>4. CASE UNCHANGED vars
    BY <1>3, <1>4 DEF vars, params, packets, wakeup
<1>5. ASSUME NEW p \in Skbs, tbf_enqueue(p)
      PROVE  WatchdogInv' /\ NoLostWakeup'
    BY <1>3, <1>5 DEF tbf_enqueue
<1>6. CASE tbf_dequeue
    <2>1. CASE DequeueEmpty
        BY <1>3, <1>6, <2>1 DEF DequeueEmpty, packets
    <2>2. CASE DequeueSend
        BY <1>3, <1>6, <2>2 DEF DequeueSend, tbf_dequeue, wakeup
    <2>3. CASE DequeueThrottle
        BY <1>6, <2>3, ThrottleArms DEF NoLostWakeup
    <2> QED
        BY <1>6, <2>1, <2>2, <2>3 DEF tbf_dequeue
<1>7. CASE Tick
    <2>1. /\ timer' = (IF timer > 0 THEN timer - 1 ELSE timer)
          /\ last' = MaxOf(last - 1, 0)
          /\ UNCHANGED <<state, queue, run>>
        BY <1>7 DEF Tick, params, packets
    <2> QED
        BY <1>2, <2>1 DEF WatchdogInv, NoLostWakeup, MaxOf, Absent
<1>8. CASE qdisc_watchdog
    BY <1>2, <1>8 DEF qdisc_watchdog, WatchdogInv, NoLostWakeup, Absent
<1>9. CASE netif_wake_queue
    BY <1>3, <1>9 DEF netif_wake_queue
<1>10. CASE Change
    BY <1>3, <1>10 DEF Change, tbf_change, tbf_change_locked, packets, wakeup
<1>11. ASSUME NEW o \in Opts, tbf_init(o)
       PROVE  WatchdogInv' /\ NoLostWakeup'
    <2>1. queue' = <<>> /\ UNCHANGED <<timer, last>>
        BY <1>11 DEF tbf_init, packets, wakeup, NoneInv
    <2> QED
        BY <1>3, <2>1
<1>12. CASE tbf_destroy
    BY <1>12 DEF tbf_destroy, WatchdogInv, NoLostWakeup
<1>13. ASSUME NEW new \in Inners, tbf_graft(new)
       PROVE  WatchdogInv' /\ NoLostWakeup'
    BY <1>3, <1>13 DEF tbf_graft, wakeup
<1>14. CASE tbf_dump
    BY <1>3, <1>14 DEF tbf_dump, params, wakeup
<1> QED
    BY <1>4, <1>5, <1>6, <1>7, <1>8, <1>9, <1>10, <1>11, <1>12, <1>13, <1>14
    DEF NextLinkUp, PacketPath, Lifetime

\* While the link stays up, no backlogged qdisc is left without a wake-up, for
\* all packets and rates and however tbf_change interleaves with tbf_dequeue.
THEOREM WakeupCorrect == SpecLinkUp => []NoLostWakeup
<1>1. Init => TypeInv /\ WakeInv
    BY TypeInit
    DEF Init, WakeInv, NoneInv, WatchdogInv, NoLostWakeup
<1>2. TypeInv /\ WakeInv /\ [NextLinkUp]_vars => (TypeInv /\ WakeInv)'
    <2>1. [NextLinkUp]_vars => [Next]_vars
        BY DEF NextLinkUp, Next
    <2> QED
        BY <2>1, TypeStep, WakeStep
<1>3. WakeInv => NoLostWakeup
    BY DEF WakeInv
<1> QED
    BY <1>1, <1>2, <1>3, PTL DEF SpecLinkUp
-----------------------------------------------------------------------------
(***************************************************************************)
(* The moment the watchdog is set to.  A cancel by reset leaves a stale    *)
(* last_expires behind, but a timer that is armed is armed for it.         *)
(***************************************************************************)
ArmedForLast == timer # Absent => timer = last

\* Invalid refuses a peak rate that is not above the rate, and a peak rate comes
\* with a rate.
PeakAbove == par.peak # 0 => par.rate # 0 /\ par.rate < par.peak

TimerInv == TypeInv /\ ArmedForLast /\ PeakAbove

\* A packet costs less at a higher rate.
LEMMA L2TAntitone ==
    ASSUME NEW r \in Nat \ {0}, NEW p \in Nat \ {0}, r < p, NEW len \in Nat
    PROVE  psched_l2t_ns(p, len) <= psched_l2t_ns(r, len)
<1> DEFINE x == len * NSEC_PER_SEC
           a == psched_l2t_ns(p, len)
           b == psched_l2t_ns(r, len)
<1>1. x \in Nat
    BY PschedAssumption
<1>2. a \in Nat /\ b \in Nat
    BY L2TNat
<1>3. p * a <= x /\ x < r * (b + 1)
    <2> HIDE DEF x
    <2>1. a = x \div p /\ b = x \div r
        BY DEF psched_l2t_ns, x
    <2> HIDE DEF a, b
    <2> QED
        BY <1>1, <2>1
<1> HIDE DEF x, a, b
<1>4. CASE b + 1 <= a
    <2>1. r * (b + 1) <= p * (b + 1)
        BY <1>2
    <2>2. p * (b + 1) <= p * a
        BY <1>2, <1>4
    <2>3. p * a \in Nat /\ p * (b + 1) \in Nat /\ r * (b + 1) \in Nat
        BY <1>2
    <2> QED
        BY <1>1, <1>3, <2>1, <2>2, <2>3
<1>5. a <= b
    BY <1>2, <1>4, <1>1, <1>3
<1> QED
    BY <1>5 DEF a, b

LEMMA TimerStep ==
    ASSUME TimerInv, [Next]_vars
    PROVE  TimerInv'
<1>1. TypeInv /\ TypeInv'
    BY TypeStep DEF TimerInv
<1>2. timer \in Nat \cup {Absent} /\ last \in Nat
    BY <1>1 DEF TypeInv, TypeOK
<1> SUFFICES ArmedForLast' /\ PeakAbove'
    BY <1>1 DEF TimerInv
<1>3. PeakAbove'
    <2>1. CASE par' = par \/ par' = NoParams
        BY <2>1 DEF TimerInv, PeakAbove, NoParams
    <2>2. ASSUME NEW o \in Opts, ~Invalid(o), par' = NewParams(o) PROVE PeakAbove'
        <3>1. /\ o.rate \in Nat /\ o.peakrate \in Nat
              /\ o.peakrate # 0 => o.rate # 0
            BY TbfAssumption DEF OptType
        <3> QED
            BY <2>2, <3>1 DEF Invalid, NewParams, PeakAbove
    <2>3. CASE tbf_change_locked
        <3>1. PICK req \in pend : par' = NewParams(req.opt)
            BY <2>3 DEF tbf_change_locked
        <3>2. req.opt \in Opts /\ ~Invalid(req.opt)
            BY <1>1 DEF TypeInv, TypeOK
        <3> QED
            BY <2>2, <3>1, <3>2
    <2>4. ASSUME NEW o \in Opts, tbf_init(o) PROVE PeakAbove'
        BY <2>1, <2>2, <2>4 DEF tbf_init
    <2>5. CASE \/ PacketPath \/ Link \/ tbf_destroy \/ tbf_dump \/ UNCHANGED vars
               \/ \E o \in Opts : tbf_change(o)
               \/ \E new \in Inners : tbf_graft(new)
        <3>1. par' = par \/ par' = NoParams
            BY <2>5 DEF PacketPath, tbf_enqueue, tbf_dequeue, Tick, qdisc_watchdog,
                netif_wake_queue, Link, dev_activate, dev_deactivate, tbf_destroy,
                tbf_dump, tbf_change, tbf_graft, params, vars
        <3> QED
            BY <2>1, <3>1
    <2> QED
        BY <2>3, <2>4, <2>5 DEF Next, Change, Lifetime
<1>4. ArmedForLast'
    <2>1. CASE UNCHANGED <<timer, last>> \/ timer' = Absent
        BY <2>1 DEF TimerInv, ArmedForLast
    <2>2. CASE Tick
        <3>1. /\ timer' = (IF timer > 0 THEN timer - 1 ELSE timer)
              /\ last' = MaxOf(last - 1, 0)
            BY <2>2 DEF Tick
        <3> QED
            BY <1>2, <3>1 DEF TimerInv, ArmedForLast, MaxOf, Absent
    <2>3. CASE tbf_dequeue
        <3>1. CASE DequeueThrottle
            BY <2>1, <3>1 DEF DequeueThrottle, qdisc_watchdog_schedule_ns, ArmedForLast
        <3>2. CASE DequeueEmpty \/ DequeueSend
            BY <2>1, <3>2 DEF DequeueEmpty, DequeueSend, wakeup
        <3> QED
            BY <2>3, <3>1, <3>2 DEF tbf_dequeue
    <2>4. CASE qdisc_watchdog
        BY <2>1, <2>4 DEF qdisc_watchdog
    <2>5. CASE netif_wake_queue \/ \E p \in Skbs : tbf_enqueue(p)
        BY <2>1, <2>5 DEF netif_wake_queue, tbf_enqueue
    <2>6. CASE Link \/ Change \/ UNCHANGED vars
        BY <2>1, <2>6 DEF Link, dev_activate, dev_deactivate, tbf_reset, Change,
            tbf_change, tbf_change_locked, vars, wakeup
    <2>7. CASE Lifetime
        BY <2>1, <2>7 DEF Lifetime, tbf_init, tbf_destroy, tbf_graft, tbf_dump, wakeup
    <2>8. CASE PacketPath
        BY <2>2, <2>3, <2>4, <2>5, <2>8 DEF PacketPath
    <2> QED
        BY <2>6, <2>7, <2>8 DEF Next
<1> QED
    BY <1>3, <1>4

\* The shortage of the emptier bucket is the time to wait, to the unit.
LEMMA ShortageExact ==
    ASSUME TimerInv, NEW len \in Nat, ~Conforming(len), Payable(len)
    PROVE  /\ ReadyAfter(Shortage(len), len)
           /\ \A d \in 0..Shortage(len) - 1 : ~ReadyAfter(d, len)
<1> DEFINE c == Cost(len)
           k == PCost(len)
<1>1. /\ par.rate \in Nat /\ par.peak \in Nat
      /\ par.buffer \in Nat /\ par.mtu \in Nat
      /\ age \in Nat /\ tokens \in Nat /\ ptokens \in Nat
    BY TimeCapAssumption, TbfAssumption DEF TimerInv, TypeInv, TypeOK, ParamType
<1>2. c \in Nat /\ k \in Nat
    BY CostType DEF TimerInv, TypeInv
<1>3. k <= c
    BY <1>1, <1>2, L2TAntitone DEF TimerInv, PeakAbove, Cost, PCost, tbf_peak_present
<1>4. c <= par.buffer /\ (tbf_peak_present => k <= par.mtu)
    BY DEF Payable
<1>5. /\ Toks(len) = MinOf(Earned + tokens, par.buffer) - c
      /\ PToks(len) = IF tbf_peak_present THEN MinOf(Earned + ptokens, par.mtu) - k ELSE 0
    BY DEF Toks, PToks
<1>6. Earned = MinOf(age, par.buffer)
    BY DEF Earned
<1>7. \A d \in Nat :
        ReadyAfter(d, len) <=>
            /\ MinOf(MinOf(age + d, par.buffer) + tokens, par.buffer) >= c
            /\ tbf_peak_present =>
                 MinOf(MinOf(age + d, par.buffer) + ptokens, par.mtu) >= k
    BY DEF ReadyAfter
<1> HIDE DEF c, k
<1>8. \A d \in Nat :
        ReadyAfter(d, len) <=>
            age + d + tokens >= c /\ (tbf_peak_present => age + d + ptokens >= k)
    BY <1>1, <1>2, <1>3, <1>4, <1>7 DEF MinOf
<1>9. CASE tbf_peak_present
    <2>1. /\ Toks(len) >= 0 <=> age + tokens >= c
          /\ PToks(len) >= 0 <=> age + ptokens >= k
        BY <1>1, <1>2, <1>3, <1>4, <1>5, <1>6, <1>9 DEF MinOf
    <2>2. /\ age + tokens < c => Toks(len) = age + tokens - c
          /\ age + ptokens < k => PToks(len) = age + ptokens - k
        BY <1>1, <1>2, <1>3, <1>4, <1>5, <1>6, <1>9 DEF MinOf
    <2>3. Toks(len) \in Int /\ PToks(len) \in Int
        BY CostType DEF TimerInv, TypeInv
    <2>4. /\ Shortage(len) \in Nat
          /\ Shortage(len) >= c - age - tokens
          /\ Shortage(len) >= k - age - ptokens
          /\ Shortage(len) = c - age - tokens \/ Shortage(len) = k - age - ptokens
        BY <1>1, <1>2, <2>1, <2>2, <2>3 DEF Conforming, Shortage, MaxOf
    <2> HIDE DEF Shortage
    <2> QED
        BY <1>1, <1>2, <1>8, <1>9, <2>4
<1>10. CASE ~tbf_peak_present
    <2>1. PToks(len) = 0 /\ Toks(len) < 0 /\ Toks(len) \in Int
        BY <1>5, <1>10, CostType DEF Conforming, TimerInv, TypeInv
    <2>2. Toks(len) = age + tokens - c
        BY <1>1, <1>2, <1>4, <1>5, <1>6, <2>1 DEF MinOf
    <2>3. Shortage(len) = c - age - tokens /\ Shortage(len) \in Nat
        BY <1>1, <1>2, <2>1, <2>2 DEF Shortage, MaxOf
    <2> QED
        BY <1>1, <1>2, <1>8, <1>10, <2>3
<1> QED
    BY <1>9, <1>10

\* For all rates, peak rates and packets, tbf_dequeue that throttles sets the
\* watchdog to the first moment at which the packet conforms.
THEOREM TimerExact == Spec => WakesWhenReady
<1> DEFINE Throttled == state = "up" /\ run /\ ~run' /\ timer' # Absent
                        /\ queue' = queue /\ queue # <<>>
           Exact == Payable(Head(queue)) =>
                        /\ ReadyAfter(timer', Head(queue))
                        /\ \A d \in 0..timer' - 1 : ~ReadyAfter(d, Head(queue))
<1>1. Init => TimerInv
    <2> SUFFICES ASSUME Init PROVE TimerInv
        OBVIOUS
    <2>1. timer = Absent /\ par.peak = 0
        BY DEF Init, NoParams
    <2> QED
        BY <2>1, TypeInit DEF TimerInv, ArmedForLast, PeakAbove
<1>2. TimerInv /\ [Next]_vars => TimerInv'
    BY TimerStep
<1>3. TimerInv /\ [Next]_vars => [Throttled => Exact]_vars
    <2> SUFFICES ASSUME TimerInv, Next, Throttled PROVE Exact
        OBVIOUS
    <2>1. DequeueThrottle
        <3>1. CASE tbf_dequeue
            BY <3>1 DEF tbf_dequeue, DequeueEmpty, DequeueSend, wakeup
        <3>2. CASE Tick \/ Change \/ tbf_dump \/ \E new \in Inners : tbf_graft(new)
            BY <3>2 DEF Tick, Change, tbf_change, tbf_change_locked, tbf_dump,
                tbf_graft, wakeup
        <3>3. CASE qdisc_watchdog \/ netif_wake_queue \/ \E p \in Skbs : tbf_enqueue(p)
            BY <3>3 DEF qdisc_watchdog, netif_wake_queue, tbf_enqueue
        <3>4. CASE Link \/ tbf_destroy \/ \E o \in Opts : tbf_init(o)
            BY <3>4 DEF Link, dev_deactivate, dev_activate, tbf_reset, tbf_destroy,
                tbf_init, wakeup
        <3> QED
            BY <3>1, <3>2, <3>3, <3>4 DEF Next, PacketPath, Lifetime
    <2>2. timer' = Shortage(Head(queue)) /\ ~Conforming(Head(queue))
        BY <2>1 DEF DequeueThrottle, qdisc_watchdog_schedule_ns, TimerInv, ArmedForLast
    <2>3. Head(queue) \in Nat
        BY HeadTailProperties DEF TimerInv, TypeInv, TypeOK
    <2> QED
        BY <2>2, <2>3, ShortageExact
<1>4. Spec => [][Throttled => Exact]_vars
    BY <1>1, <1>2, <1>3, PTL DEF Spec
<1> QED
    BY <1>4 DEF WakesWhenReady
-----------------------------------------------------------------------------
(***************************************************************************)
(* Unsigned counters.                                                      *)
(***************************************************************************)
\* Division with a remainder.
LEMMA Remainder ==
    ASSUME NEW m \in Nat \ {0}, NEW x \in Int
    PROVE  /\ x \div m \in Int /\ x % m \in 0..m - 1
           /\ x = m * (x \div m) + (x % m)
OBVIOUS

\* Whole turns do not change a remainder.
LEMMA WholeTurns ==
    ASSUME NEW m \in Nat \ {0}, NEW x \in Int, NEW k \in Int
    PROVE  (x + m * k) % m = x % m
<1> DEFINE y == x + m * k
           q == x \div m
           r == x % m
           s == y \div m
           t == y % m
           d == q + k - s
<1>1. m * k \in Int /\ y \in Int
    OBVIOUS
<1>2. q \in Int /\ r \in 0..m - 1 /\ x = m * q + r
    BY Remainder
<1>3. s \in Int /\ t \in 0..m - 1 /\ y = m * s + t
    <2> HIDE DEF y
    <2> QED BY <1>1, Remainder
<1> HIDE DEF q, r, s, t
<1>4. d \in Int /\ m * d = t - r
    <2>1. m * d = m * q + m * k - m * s
        BY <1>2, <1>3
    <2> QED BY <1>1, <1>2, <1>3, <2>1
<1> HIDE DEF d, y
<1>5. d = 0
    <2>1. CASE d >= 1
        <3>1. m * d >= m
            BY <1>4, <2>1
        <3> QED BY <1>2, <1>3, <1>4, <3>1
    <2>2. CASE d <= -1
        <3>1. m * d <= -m
            BY <1>4, <2>2
        <3> QED BY <1>2, <1>3, <1>4, <3>1
    <2> QED BY <1>4, <2>1, <2>2
<1> QED
    BY <1>2, <1>3, <1>4, <1>5 DEF r, t, y

\* A sum may wrap early.
LEMMA WrapsOnce ==
    ASSUME NEW m \in Nat \ {0}, NEW x \in Int, NEW n \in Int
    PROVE  ((x % m) + n) % m = (x + n) % m
<1> DEFINE k == -(x \div m)
<1>1. k \in Int /\ x % m \in Int /\ x % m = x + m * k
    <2>1. x \div m \in Int /\ x % m \in Int /\ x = m * (x \div m) + (x % m)
        BY Remainder
    <2> QED BY <2>1
<1> HIDE DEF k
<1>2. (x % m) + n = (x + n) + m * k
    BY <1>1
<1>3. ((x + n) + m * k) % m = (x + n) % m
    <2> DEFINE z == x + n
    <2>1. z \in Int
        OBVIOUS
    <2> HIDE DEF z
    <2>2. (z + m * k) % m = z % m
        BY <1>1, <2>1, WholeTurns
    <2> QED BY <2>2 DEF z
<1> QED
    BY <1>2, <1>3

\* Two counters that wrap and move by the same amount keep their distance.
LEMMA SameDistance ==
    ASSUME NEW m \in Nat \ {0}, NEW x \in Int, NEW y \in Int, NEW n \in Int
    PROVE  (((x + n) % m) - ((y + n) % m)) % m = (x - y) % m
<1> DEFINE a == x + n
           b == y + n
           k == b \div m - a \div m
<1>1. a \in Int /\ b \in Int /\ a - b = x - y
    OBVIOUS
<1> HIDE DEF a, b
<1>2. k \in Int /\ (a % m) - (b % m) = (a - b) + m * k
    <2>1. /\ a \div m \in Int /\ a % m \in Int /\ a = m * (a \div m) + (a % m)
          /\ b \div m \in Int /\ b % m \in Int /\ b = m * (b \div m) + (b % m)
        BY <1>1, Remainder
    <2>2. m * k = m * (b \div m) - m * (a \div m)
        BY <2>1
    <2> QED BY <1>1, <2>1, <2>2
<1> HIDE DEF k
<1>3. ((a - b) + m * k) % m = (a - b) % m
    <2> DEFINE z == a - b
    <2>1. z \in Int
        BY <1>1
    <2> HIDE DEF z
    <2>2. (z + m * k) % m = z % m
        BY <1>2, <2>1, WholeTurns
    <2> QED BY <2>2 DEF z
<1> QED
    BY <1>1, <1>2, <1>3 DEF a, b
-----------------------------------------------------------------------------
(***************************************************************************)
(* The bytes of a queue.                                                   *)
(***************************************************************************)
\* The running totals of the first k lengths of a queue.
Totals(q, k) ==
    {g \in [0..k -> Int] : g[0] = 0 /\ \A n \in 1..k : g[n] = g[n - 1] + q[n]}

LEMMA TotalsExist ==
    ASSUME NEW q \in Seq(Int)
    PROVE  Totals(q, Len(q)) # {}
<1> DEFINE N == Len(q)
           Good == {k \in 0..N : Totals(q, k) # {}}
<1>1. N \in Nat /\ \A n \in 1..N : q[n] \in Int
    OBVIOUS
<1> HIDE DEF N
<1>2. 0 \in Good
    <2>1. [n \in 0..0 |-> 0] \in Totals(q, 0)
        BY DEF Totals
    <2> QED
        BY <1>1, <2>1
<1>3. ASSUME NEW k \in 1..N, k - 1 \in Good
      PROVE  k \in Good
    <2>1. PICK g \in [0..k - 1 -> Int] :
              g[0] = 0 /\ \A n \in 1..k - 1 : g[n] = g[n - 1] + q[n]
        BY <1>3 DEF Totals
    <2> DEFINE h == [n \in 0..k |-> IF n = k THEN g[k - 1] + q[k] ELSE g[n]]
    <2>2. g[k - 1] + q[k] \in Int
        BY <1>1, <1>3, <2>1
    <2>3. h \in [0..k -> Int]
        BY <2>1, <2>2
    <2>4. h[0] = 0 /\ \A n \in 1..k : h[n] = h[n - 1] + q[n]
        <3>1. h[0] = 0 /\ h[k] = h[k - 1] + q[k]
            BY <1>3, <2>1
        <3>2. \A n \in 1..k - 1 : h[n] = g[n] /\ h[n - 1] = g[n - 1]
            BY <1>3
        <3>3. \A n \in 1..k : n = k \/ n \in 1..k - 1
            OBVIOUS
        <3> HIDE DEF h
        <3> QED
            BY <2>1, <3>1, <3>2, <3>3
    <2>5. h \in Totals(q, k)
        BY <2>3, <2>4 DEF Totals
    <2> QED
        BY <1>1, <2>5
<1>4. N \in Good
    <2> HIDE DEF Good
    <2>1. \A n \in 0..N : n \in Good
        BY <1>1, <1>2, <1>3, UpTo
    <2> QED
        BY <1>1, <2>1
<1> QED
    BY <1>4 DEF N

\* Bytes is the last of the running totals.
LEMMA BytesIsTotal ==
    ASSUME NEW q \in Seq(Int), NEW g \in Totals(q, Len(q))
    PROVE  Bytes(q) = g[Len(q)] /\ Bytes(q) \in Int
<1> DEFINE N == Len(q)
           E(f) == [n \in 0..N |-> IF n = 0 THEN 0 ELSE f[n - 1] + q[n]]
           upto == CHOOSE f : f = E(f)
<1>1. /\ N \in Nat
      /\ g \in [0..N -> Int] /\ g[0] = 0
      /\ \A n \in 1..N : g[n] = g[n - 1] + q[n]
    BY DEF Totals
<1>2. Bytes(q) = upto[N]
    BY Zenon DEF Bytes
<1>3. g = E(g)
    <2> HIDE DEF N
    <2> QED BY <1>1
<1>4. upto = E(upto)
    BY <1>3, Zenon
<1> HIDE DEF upto, N
<1>5. upto[0] = 0 /\ \A n \in 1..N : upto[n] = upto[n - 1] + q[n]
    BY <1>1, <1>4
<1> DEFINE Same == {n \in 0..N : upto[n] = g[n]}
<1>6. 0 \in Same
    BY <1>1, <1>5
<1>7. \A n \in 1..N : n - 1 \in Same => n \in Same
    BY <1>1, <1>5
<1>8. N \in Same
    <2> HIDE DEF Same
    <2>1. \A n \in 0..N : n \in Same
        BY <1>1, <1>6, <1>7, UpTo
    <2> QED
        BY <1>1, <2>1
<1>9. g[N] \in Int
    BY <1>1
<1> QED
    BY <1>2, <1>8, <1>9 DEF N

LEMMA BytesEmpty ==
    Bytes(<<>>) = 0
<1>1. [n \in 0..0 |-> 0] \in Totals(<<>>, 0)
    BY DEF Totals
<1>2. <<>> \in Seq(Int) /\ Len(<<>>) = 0
    OBVIOUS
<1> DEFINE g == [n \in 0..0 |-> 0]
<1>3. g[0] = 0
    OBVIOUS
<1> HIDE DEF g
<1>4. Bytes(<<>>) = g[0]
    BY <1>1, <1>2, BytesIsTotal DEF g
<1> QED
    BY <1>3, <1>4

\* A block of equal packets at the end adds its length.
LEMMA BytesOfBlock ==
    ASSUME NEW q \in Seq(Int), NEW k \in Nat, NEW len \in Int
    PROVE  Bytes(q \o Copies(k, len)) = Bytes(q) + k * len
<1> DEFINE N == Len(q)
           c == Copies(k, len)
           s == q \o c
<1>1. PICK g : g \in Totals(q, N)
    BY TotalsExist
<1>2. Bytes(q) = g[N] /\ Bytes(q) \in Int
    BY <1>1, BytesIsTotal
<1>3. /\ g \in [0..N -> Int] /\ g[0] = 0 /\ N \in Nat
      /\ \A n \in 1..N : g[n] = g[n - 1] + q[n] /\ q[n] \in Int
    BY <1>1 DEF Totals
<1>4. c \in Seq(Int) /\ Len(c) = k /\ \A i \in 1..k : c[i] = len
    <2>1. c \in [1..k -> Int]
        BY DEF Copies
    <2>2. c \in Seq(Int) /\ DOMAIN c = 1..k
        BY <2>1
    <2>3. \A i \in 1..k : c[i] = len
        BY DEF Copies
    <2> HIDE DEF c
    <2>4. DOMAIN c = 1..Len(c) /\ Len(c) \in Nat
        BY <2>2, LenProperties
    <2> QED
        BY <2>2, <2>3, <2>4
<1> HIDE DEF c
<1>5. /\ s \in Seq(Int) /\ Len(s) = N + k
      /\ \A i \in 1..N + k : s[i] = IF i <= N THEN q[i] ELSE len
    <2>1. s \in Seq(Int) /\ Len(s) = Len(q) + Len(c)
        BY <1>4, ConcatProperties
    <2>2. \A i \in 1..Len(q) + Len(c) :
              s[i] = IF i <= Len(q) THEN q[i] ELSE c[i - Len(q)]
        BY <1>4, ConcatProperties
    <2>3. \A i \in 1..N + k : i <= N \/ i - N \in 1..k
        BY <1>3
    <2> HIDE DEF s
    <2> QED
        BY <1>4, <2>1, <2>2, <2>3
<1> DEFINE M == N + k
           h == [i \in 0..M |-> IF i <= N THEN g[i] ELSE g[N] + (i - N) * len]
<1> HIDE DEF s, N
<1>6. h \in [0..M -> Int]
    <2>1. \A i \in 0..M : (i - N) * len \in Int
        BY <1>3
    <2> QED
        BY <1>3, <2>1
<1>7. h[0] = 0
    BY <1>3
<1>8. ASSUME NEW i \in 1..M PROVE h[i] = h[i - 1] + s[i]
    <2>1. CASE i <= N
        <3>1. i \in 1..N /\ i \in 0..M /\ i - 1 \in 0..M
            BY <1>3, <2>1
        <3>2. h[i] = g[i] /\ h[i - 1] = g[i - 1]
            BY <1>3, <2>1, <3>1
        <3>3. s[i] = q[i]
            BY <1>5, <2>1
        <3> HIDE DEF h
        <3> QED
            BY <1>3, <3>1, <3>2, <3>3
    <2>2. CASE i > N
        <3>1. h[i] = g[N] + (i - N) * len /\ s[i] = len
            BY <1>3, <1>5, <2>2
        <3>2. h[i - 1] = g[N] + (i - 1 - N) * len
            <4>1. CASE i - 1 = N
                <5>1. h[i - 1] = g[N] /\ g[N] \in Int /\ (i - 1 - N) * len = 0
                    BY <1>3, <4>1
                <5> QED
                    BY <5>1
            <4>2. CASE i - 1 > N
                BY <1>3, <4>2
            <4> QED
                BY <1>3, <2>2, <4>1, <4>2
        <3>3. (i - N) * len = (i - 1 - N) * len + len /\ (i - 1 - N) * len \in Int
            BY <1>3
        <3> QED
            BY <1>3, <3>1, <3>2, <3>3
    <2> QED
        BY <1>3, <2>1, <2>2
<1>9. h[M] = g[N] + k * len
    BY <1>3
<1>10. h \in Totals(s, Len(s))
    <2> HIDE DEF h
    <2> QED
        BY <1>5, <1>6, <1>7, <1>8 DEF Totals
<1> HIDE DEF h
<1>11. Bytes(s) = h[Len(s)]
    BY <1>5, <1>10, BytesIsTotal
<1> QED
    BY <1>2, <1>5, <1>9, <1>11 DEF s, c

\* So does one packet.
LEMMA BytesOfAppend ==
    ASSUME NEW q \in Seq(Int), NEW len \in Int
    PROVE  Bytes(Append(q, len)) = Bytes(q) + len
<1>1. Append(q, len) = q \o Copies(1, len)
    <2> DEFINE c == Copies(1, len)
    <2>1. c = <<len>>
        BY DEF Copies
    <2> HIDE DEF c
    <2>2. Append(q, len) = q \o <<len>>
        BY AppendIsConcat
    <2> QED
        BY <2>1, <2>2 DEF c
<1>2. Bytes(q \o Copies(1, len)) = Bytes(q) + 1 * len
    BY BytesOfBlock
<1>3. 1 * len = len
    OBVIOUS
<1> QED
    BY <1>1, <1>2, <1>3

\* The first packet takes its length away.
LEMMA BytesOfTail ==
    ASSUME NEW q \in Seq(Int), q # <<>>
    PROVE  Bytes(Tail(q)) = Bytes(q) - Head(q) /\ Bytes(Tail(q)) \in Int
<1> DEFINE N == Len(q)
           s == Tail(q)
<1>1. PICK g : g \in Totals(q, N)
    BY TotalsExist
<1>2. Bytes(q) = g[N] /\ Bytes(q) \in Int
    BY <1>1, BytesIsTotal
<1>3. /\ g \in [0..N -> Int] /\ g[0] = 0 /\ N \in Nat \ {0}
      /\ \A n \in 1..N : g[n] = g[n - 1] + q[n] /\ q[n] \in Int
    BY <1>1, EmptySeq, LenProperties DEF Totals
<1>4. /\ s \in Seq(Int) /\ Len(s) = N - 1 /\ Head(q) = q[1]
      /\ \A i \in 1..N - 1 : s[i] = q[i + 1]
    BY HeadTailProperties
<1> HIDE DEF s, N
<1> DEFINE M == N - 1
           h == [i \in 0..M |-> g[i + 1] - q[1]]
<1>5. h \in [0..M -> Int]
    BY <1>3
<1>6. h[0] = 0
    BY <1>3
<1>7. ASSUME NEW i \in 1..M PROVE h[i] = h[i - 1] + s[i]
    <2>1. i + 1 \in 1..N /\ i \in 0..M /\ i - 1 \in 0..M /\ (i - 1) + 1 = i
        BY <1>3
    <2>2. h[i] = g[i + 1] - q[1] /\ h[i - 1] = g[i] - q[1]
        BY <2>1
    <2>3. s[i] = q[i + 1] /\ g[i + 1] = g[i] + q[i + 1] /\ g[i] \in Int
        <3> DEFINE j == i + 1
        <3>1. j \in 1..N /\ j - 1 = i /\ i \in 0..N
            BY <1>3
        <3>2. s[i] = q[j]
            BY <1>4
        <3> HIDE DEF j
        <3>3. g[j] = g[j - 1] + q[j] /\ g[i] \in Int
            BY <1>3, <3>1
        <3> QED
            BY <3>1, <3>2, <3>3 DEF j
    <2>4. q[1] \in Int /\ q[i + 1] \in Int
        BY <1>3, <2>1
    <2> HIDE DEF h
    <2> QED
        BY <2>2, <2>3, <2>4
<1>8. h[M] = g[N] - q[1]
    BY <1>3
<1>9. h \in Totals(s, Len(s))
    <2> HIDE DEF h
    <2> QED
        BY <1>4, <1>5, <1>6, <1>7 DEF Totals
<1> HIDE DEF h
<1>10. Bytes(s) = h[Len(s)] /\ Bytes(s) \in Int
    BY <1>4, <1>9, BytesIsTotal
<1> QED
    BY <1>2, <1>4, <1>8, <1>10 DEF s

\* Lengths add up to a length.
LEMMA BytesNat ==
    ASSUME NEW q \in Seq(Nat \ {0})
    PROVE  q \in Seq(Int) /\ Bytes(q) \in Nat
<1> DEFINE N == Len(q)
<1>1. q \in Seq(Int) /\ N \in Nat /\ \A n \in 1..N : q[n] \in Nat
    OBVIOUS
<1>2. PICK g : g \in Totals(q, N)
    BY <1>1, TotalsExist
<1>3. Bytes(q) = g[N]
    BY <1>1, <1>2, BytesIsTotal
<1>4. g \in [0..N -> Int] /\ g[0] = 0 /\ \A n \in 1..N : g[n] = g[n - 1] + q[n]
    BY <1>2 DEF Totals
<1> HIDE DEF N
<1> DEFINE Good == {n \in 0..N : g[n] \in Nat}
<1>5. \A n \in 1..N : q[n] \in Nat
    BY <1>1 DEF N
<1>6. 0 \in Good
    BY <1>1, <1>4
<1>7. ASSUME NEW n \in 1..N, n - 1 \in Good
      PROVE  n \in Good
    <2>1. g[n - 1] \in Nat /\ q[n] \in Nat /\ g[n] = g[n - 1] + q[n] /\ n \in 0..N
        BY <1>4, <1>5, <1>7
    <2> QED
        BY <2>1
<1>8. N \in Good
    <2> HIDE DEF Good
    <2>1. \A n \in 0..N : n \in Good
        BY <1>1, <1>6, <1>7, UpTo
    <2> QED
        BY <1>1, <2>1
<1> QED
    BY <1>1, <1>3, <1>8
-----------------------------------------------------------------------------
(***************************************************************************)
(* The byte counts.  Only a bfifo, whose limit leaves room for a packet,   *)
(* bounds the bytes below the width of the counter; a pfifo becomes a      *)
(* bfifo only by a graft, which empties it.                                *)
(***************************************************************************)
FifoInv ==
    /\ inner.kind = "bfifo" => RoomFor(inner.limit)
    /\ state = "none" => inner.kind # "pfifo"
    /\ \A req \in pend : req.child => inner.kind # "pfifo"

BacklogInv == TypeInv /\ FifoInv /\ BacklogExact

LEMMA FifoStep ==
    ASSUME TypeInv, FifoInv, [Next]_vars
    PROVE  /\ FifoInv'
           /\ inner'.kind # "pfifo" => inner.kind # "pfifo" \/ queue' = <<>>
<1>1. CASE UNCHANGED params
    BY <1>1 DEF FifoInv, params, RoomFor
<1>2. CASE PacketPath \/ tbf_dump \/ UNCHANGED vars
    <2>1. UNCHANGED params
        BY <1>2 DEF PacketPath, tbf_enqueue, tbf_dequeue, Tick, qdisc_watchdog,
            netif_wake_queue, tbf_dump, vars
    <2> QED
        BY <1>1, <2>1
<1>3. CASE Link
    <2>1. UNCHANGED <<inner, pend>> /\ state # "none" /\ state' # "none"
        BY <1>3 DEF Link, dev_activate, dev_deactivate
    <2> QED
        BY <2>1 DEF FifoInv, RoomFor
<1>4. ASSUME NEW o \in Opts, tbf_init(o)
      PROVE  FifoInv' /\ (inner'.kind # "pfifo" => inner.kind # "pfifo")
    <2>1. RoomFor(o.limit) /\ inner.kind # "pfifo" /\ pend' = pend
        BY <1>4, WidthAssumption DEF tbf_init, FifoInv
    <2>2. inner' = inner \/ inner' = bfifo(o.limit) \/ inner' = noop_qdisc
        BY <1>4 DEF tbf_init
    <2> QED
        BY <2>1, <2>2 DEF FifoInv, RoomFor, bfifo, noop_qdisc
<1>5. CASE tbf_destroy
    BY <1>5 DEF tbf_destroy, FifoInv, noop_qdisc, NoParams
<1>6. ASSUME NEW new \in Inners, tbf_graft(new)
      PROVE  FifoInv' /\ queue' = <<>>
    <2>1. state' # "none" /\ pend' = {} /\ inner' = new /\ queue' = <<>>
        BY <1>6 DEF tbf_graft
    <2> QED
        BY <2>1, WidthAssumption DEF FifoInv, RoomFor
<1>7. ASSUME NEW o \in Opts, tbf_change(o)
      PROVE  FifoInv' /\ (inner'.kind # "pfifo" => inner.kind # "pfifo")
    <2>1. state # "none" /\ state' = state /\ pend = {} /\ inner \in InnerType
        BY <1>7 DEF tbf_change, TypeInv, TypeOK
    <2>2. inner' = inner \/ (inner.kind # "noop" /\ inner' = [inner EXCEPT !.limit = o.limit])
        BY <1>7 DEF tbf_change, fifo_set_limit
    <2>3. inner'.kind = inner.kind /\ (inner' # inner => inner'.limit = o.limit)
        BY <2>1, <2>2 DEF InnerType
    <2>4. \A req \in pend' : req.child => inner.kind = "noop"
        <3> DEFINE v == [opt |-> o, child |-> inner.kind = "noop" /\ o.limit > 0]
        <3>1. pend' = {} \/ pend' = {v}
            BY <1>7, <2>1 DEF tbf_change
        <3>2. v.child => inner.kind = "noop"
            BY Zenon
        <3> HIDE DEF v
        <3> QED
            BY <3>1, <3>2
    <2>5. RoomFor(o.limit)
        BY WidthAssumption
    <2>6. inner'.kind = "bfifo" => RoomFor(inner'.limit)
        BY <2>3, <2>5 DEF FifoInv
    <2> QED
        BY <2>1, <2>3, <2>4, <2>6 DEF FifoInv, RoomFor
<1>8. CASE tbf_change_locked
    <2>1. PICK req \in pend :
              /\ pend' = {} /\ state' = state
              /\ inner' = IF req.child THEN bfifo(req.opt.limit) ELSE inner
        BY <1>8 DEF tbf_change_locked
    <2>2. RoomFor(req.opt.limit)
        BY WidthAssumption DEF TypeInv, TypeOK
    <2>3. req.child => inner.kind # "pfifo"
        BY DEF FifoInv
    <2> QED
        BY <2>1, <2>2, <2>3 DEF FifoInv, RoomFor, bfifo
<1> QED
    BY <1>2, <1>3, <1>4, <1>5, <1>6, <1>7, <1>8 DEF Next, Change, Lifetime

\* A step that leaves the packets alone, or drops them all.
LEMMA SameBacklog ==
    ASSUME BacklogInv, FifoInv', TypeInv',
           inner'.kind # "pfifo" => inner.kind # "pfifo" \/ queue' = <<>>,
           \/ UNCHANGED packets
           \/ queue' = <<>> /\ ibacklog' = 0 /\ (backlog = ibacklog => backlog' = 0)
    PROVE  BacklogInv'
<1>1. CASE queue' = <<>> /\ ibacklog' = 0 /\ (backlog = ibacklog => backlog' = 0)
    <2>1. Bytes(queue') = 0 /\ 0 % U32 = 0
        BY <1>1, BytesEmpty, PschedAssumption
    <2> QED
        BY <1>1, <2>1 DEF BacklogInv, BacklogExact
<1>2. CASE UNCHANGED packets /\ queue' # <<>>
    <2>1. queue' = queue /\ ibacklog' = ibacklog /\ backlog' = backlog
        BY <1>2 DEF packets
    <2> QED
        BY <1>2, <2>1 DEF BacklogInv, BacklogExact, Bytes
<1>3. CASE UNCHANGED packets /\ queue' = <<>>
    <2>1. queue = <<>> /\ queue' = <<>> /\ ibacklog' = ibacklog /\ backlog' = backlog
        BY <1>3 DEF packets
    <2>2. ibacklog = 0
        BY <2>1, BytesEmpty, PschedAssumption DEF BacklogInv, BacklogExact
    <2> QED
        BY <1>1, <2>1, <2>2
<1> QED
    BY <1>1, <1>2, <1>3

LEMMA EnqueueBacklog ==
    ASSUME BacklogInv, FifoInv', TypeInv', NEW p \in Skbs, tbf_enqueue(p)
    PROVE  BacklogInv'
<1>1. p \in SkbType /\ FifoInv' /\ TypeInv' /\ inner' = inner
    BY TbfAssumption DEF tbf_enqueue, params
<1>2. /\ queue \in Seq(Nat \ {0}) /\ queue \in Seq(Int) /\ Bytes(queue) \in Nat
      /\ ibacklog \in Nat /\ ibacklog < U32 /\ backlog \in Nat
      /\ U32 \in Nat \ {0} /\ inner \in InnerType
    BY BytesNat, PschedAssumption DEF BacklogInv, TypeInv, TypeOK
<1>3. /\ ibacklog = Bytes(queue) % U32
      /\ inner.kind # "pfifo" => ibacklog = Bytes(queue)
      /\ (\A s \in Skbs : ~s.gso) => backlog = ibacklog
    BY DEF BacklogInv, BacklogExact
<1>4. inner.kind = "bfifo" => inner.limit < U32 /\ inner.limit \in Nat
    <2>1. inner.kind = "bfifo" => inner.limit + p.len < U32
        BY DEF BacklogInv, FifoInv, RoomFor
    <2>2. p.len \in Nat \ {0} /\ inner.limit \in Nat
        BY <1>1, <1>2 DEF SkbType, InnerType
    <2> QED
        BY <1>2, <2>1, <2>2
\* A number that is added to the bytes and to their count alike.
<1>5. ASSUME NEW n \in Nat, ibacklog' = (ibacklog + n) % U32,
             Bytes(queue') = Bytes(queue) + n,
             inner.kind # "pfifo" => ibacklog + n < U32,
             (\A s \in Skbs : ~s.gso) => backlog' = (backlog + n) % U32
      PROVE  BacklogInv'
    <2>1. ibacklog' = Bytes(queue') % U32
        <3>1. ((Bytes(queue) % U32) + n) % U32 = (Bytes(queue) + n) % U32
            <4> DEFINE x == Bytes(queue)
            <4>1. x \in Int /\ n \in Int /\ U32 \in Nat \ {0}
                BY <1>2, <1>5
            <4> HIDE DEF x
            <4>2. ((x % U32) + n) % U32 = (x + n) % U32
                BY <4>1, WrapsOnce
            <4> QED
                BY <4>2 DEF x
        <3> QED
            BY <1>3, <1>5, <3>1
    <2>2. inner'.kind # "pfifo" => ibacklog' = Bytes(queue')
        <3> SUFFICES ASSUME inner'.kind # "pfifo" PROVE ibacklog' = Bytes(queue')
            OBVIOUS
        <3>1. ibacklog = Bytes(queue) /\ ibacklog + n < U32 /\ n \in Nat
            BY <1>1, <1>3, <1>5
        <3>2. (ibacklog + n) % U32 = ibacklog + n
            <4> DEFINE x == ibacklog + n
            <4>1. x \in Nat /\ x < U32
                BY <1>2, <3>1
            <4> HIDE DEF x
            <4>2. x % U32 = x
                BY <1>2, <4>1
            <4> QED
                BY <4>2 DEF x
        <3> QED
            BY <1>5, <3>1, <3>2
    <2>3. (\A s \in Skbs : ~s.gso) => backlog' = ibacklog'
        BY <1>3, <1>5
    <2> QED
        BY <1>1, <2>1, <2>2, <2>3 DEF BacklogInv, BacklogExact
<1>6. CASE UNCHANGED packets
    BY <1>1, <1>6, SameBacklog
<1>7. CASE EnqueueInner(p) /\ Accepts(0, p.len)
    <2>1. /\ queue' = Append(queue, p.len)
          /\ ibacklog' = (ibacklog + p.len) % U32
          /\ backlog' = (backlog + p.len) % U32
        BY <1>7 DEF EnqueueInner
    <2>2. p.len \in Nat
        BY <1>1 DEF SkbType
    <2>3. Bytes(queue') = Bytes(queue) + p.len
        <3> DEFINE len == p.len
        <3>1. len \in Int
            BY <2>2
        <3> HIDE DEF len
        <3>2. Bytes(Append(queue, len)) = Bytes(queue) + len
            BY <1>2, <3>1, BytesOfAppend
        <3> QED
            BY <2>1, <3>2 DEF len
    <2>4. inner.kind # "pfifo" => ibacklog + p.len < U32
        <3>1. inner.kind # "pfifo" => inner.kind = "bfifo"
            BY <1>2, <1>7 DEF Accepts, InnerType
        <3>2. inner.kind = "bfifo" => ibacklog + 0 + p.len <= inner.limit
            BY <1>7 DEF Accepts, Used, Weight
        <3> QED
            BY <1>2, <1>4, <2>2, <3>1, <3>2
    <2> QED
        BY <1>5, <2>1, <2>2, <2>3, <2>4
<1>8. CASE p.gso /\ tbf_segment(p)
    <2> DEFINE room == MaxOf(inner.limit - Used, 0)
               full == IF inner.kind = "noop" THEN 0
                       ELSE MinOf(p.full, room \div Weight(p.seg))
               tail == IF Accepts(full * Weight(p.seg), p.tail) THEN 1 ELSE 0
               a == Copies(full, p.seg)
               b == Copies(tail, p.tail)
               m == full * p.seg
               t == tail * p.tail
    <2>1. /\ queue' = queue \o a \o b
          /\ ibacklog' = (ibacklog + m + t) % U32
        BY <1>8 DEF tbf_segment
    <2>2. p.seg \in Nat \ {0} /\ p.tail \in Nat \ {0} /\ p.full \in Nat
        BY <1>1 DEF SkbType
    <2>3. Used \in Nat /\ inner.limit \in Nat
        <3>1. Len(queue) \in Nat
            BY <1>2
        <3> QED BY <1>2, <3>1 DEF Used, InnerType
    <2>4. room \in Nat /\ Weight(p.seg) \in Nat \ {0}
        BY <2>2, <2>3 DEF MaxOf, Weight
    <2>5. room \div Weight(p.seg) \in Nat
        <3> HIDE DEF room
        <3> QED BY <2>4, QuotientNat
    <2>6. full \in Nat /\ tail \in {0, 1}
        BY <2>2, <2>5 DEF MinOf
    <2>7. m \in Nat /\ t \in Nat /\ (tail = 0 => t = 0) /\ (tail = 1 => t = p.tail)
        <3> HIDE DEF full, tail
        <3>1. m \in Nat
            BY <2>2, <2>6, ProductNat
        <3> QED
            BY <2>2, <2>6, <3>1
    <2>8. inner.kind = "noop" => m = 0 /\ tail = 0
        BY <2>2 DEF Accepts
    <2>9. inner.kind = "bfifo" => m <= room /\ room = MaxOf(inner.limit - ibacklog, 0)
        <3> SUFFICES ASSUME inner.kind = "bfifo" PROVE m <= room /\ room = MaxOf(inner.limit - ibacklog, 0)
            OBVIOUS
        <3>1. Weight(p.seg) = p.seg /\ Used = ibacklog
            BY DEF Weight, Used
        <3>2. full <= room \div p.seg
            BY <2>2, <2>5, <3>1 DEF MinOf
        <3>3. room = MaxOf(inner.limit - ibacklog, 0)
            BY <3>1
        <3> HIDE DEF room, full
        <3>4. room \div p.seg \in Nat /\ (room \div p.seg) * p.seg <= room
            BY <2>2, <2>4
        <3>5. full * p.seg <= (room \div p.seg) * p.seg
            <4> DEFINE d == room \div p.seg
            <4>1. d \in Nat /\ full <= d
                BY <3>2, <3>4
            <4> HIDE DEF d
            <4>2. full * p.seg <= d * p.seg
                BY <2>2, <2>6, <4>1
            <4> QED
                BY <4>2 DEF d
        <3>6. full * p.seg \in Nat /\ (room \div p.seg) * p.seg \in Nat
            BY <2>2, <2>6, <3>4, ProductNat
        <3> QED
            BY <2>4, <3>3, <3>4, <3>5, <3>6
    <2>10. inner.kind = "bfifo" /\ tail = 1 => ibacklog + m + p.tail <= inner.limit
        BY <2>2 DEF Accepts, Used, Weight
    <2> HIDE DEF full, tail, room, m, t
    <2>11. inner.kind # "pfifo" => ibacklog + (m + t) < U32
        <3>1. CASE inner.kind = "noop"
            BY <1>2, <2>7, <2>8, <3>1
        <3>2. CASE inner.kind = "bfifo" /\ tail = 1
            BY <1>2, <1>4, <2>2, <2>7, <2>10, <3>2
        <3>3. CASE inner.kind = "bfifo" /\ tail = 0
            BY <1>2, <1>4, <2>7, <2>9, <3>3 DEF MaxOf
        <3> QED
            BY <1>2, <2>6, <3>1, <3>2, <3>3 DEF InnerType
    <2>12. Bytes(queue') = Bytes(queue) + (m + t)
        <3> DEFINE s == queue \o a
        <3>1. a \in Seq(Nat \ {0})
            BY <2>2, <2>6, CopiesType
        <3>2. Bytes(s) = Bytes(queue) + m
            <4> DEFINE len == p.seg
            <4>1. len \in Int
                BY <2>2
            <4> HIDE DEF len
            <4>2. Bytes(queue \o Copies(full, len)) = Bytes(queue) + full * len
                BY <1>2, <2>6, <4>1, BytesOfBlock
            <4> QED
                BY <4>2 DEF len, m
        <3>3. s \in Seq(Int)
            <4>1. a \in Seq(Int)
                BY <3>1
            <4> HIDE DEF a
            <4> QED
                BY <1>2, <4>1, ConcatProperties
        <3> HIDE DEF s
        <3>4. Bytes(s \o b) = Bytes(s) + t
            <4> DEFINE len == p.tail
            <4>1. len \in Int /\ tail \in Nat
                BY <2>2, <2>6
            <4> HIDE DEF len
            <4>2. Bytes(s \o Copies(tail, len)) = Bytes(s) + tail * len
                BY <3>3, <4>1, BytesOfBlock
            <4> QED
                BY <4>2 DEF len, t
        <3>5. queue' = s \o b
            BY <2>1 DEF s
        <3> QED
            BY <1>2, <2>7, <3>2, <3>4, <3>5
    <2>13. ibacklog' = (ibacklog + (m + t)) % U32 /\ m + t \in Nat
        BY <1>2, <2>1, <2>7
    <2>14. ~(\A s \in Skbs : ~s.gso)
        BY <1>8
    <2> QED
        BY <1>5, <2>11, <2>12, <2>13, <2>14
<1> QED
    BY <1>6, <1>7, <1>8 DEF tbf_enqueue, EnqueueInner

LEMMA SendBacklog ==
    ASSUME BacklogInv, FifoInv', TypeInv', tbf_dequeue, DequeueSend
    PROVE  BacklogInv'
<1> DEFINE len == Head(queue)
           x == Bytes(queue)
<1>1. /\ queue \in Seq(Nat \ {0}) /\ queue \in Seq(Int) /\ queue # <<>>
      /\ x \in Nat /\ ibacklog \in Nat /\ ibacklog < U32
      /\ U32 \in Nat \ {0}
    BY BytesNat, PschedAssumption DEF BacklogInv, TypeInv, TypeOK, DequeueSend
<1>2. /\ queue' = Tail(queue) /\ inner' = inner
      /\ ibacklog' = (ibacklog - len) % U32
      /\ backlog' = (backlog - len) % U32
    BY DEF DequeueSend, tbf_dequeue, params
<1>3. len \in Nat /\ queue' \in Seq(Nat \ {0})
    BY <1>1, <1>2, HeadTailProperties
<1>4. Bytes(queue') = x - len /\ Bytes(queue') \in Nat
    <2>1. Bytes(Tail(queue)) = x - len
        BY <1>1, BytesOfTail
    <2>2. Bytes(queue') \in Nat
        BY <1>3, BytesNat
    <2> QED
        BY <1>2, <2>1, <2>2
<1>5. /\ ibacklog = x % U32
      /\ inner.kind # "pfifo" => ibacklog = x
      /\ (\A s \in Skbs : ~s.gso) => backlog = ibacklog
    BY DEF BacklogInv, BacklogExact
<1> HIDE DEF len, x
<1>6. ibacklog' = Bytes(queue') % U32
    <2> DEFINE n == -len
    <2>1. n \in Int /\ x \in Int /\ x - len = x + n /\ ibacklog - len = (x % U32) + n
        BY <1>1, <1>3, <1>5
    <2> HIDE DEF n
    <2>2. ((x % U32) + n) % U32 = (x + n) % U32
        BY <1>1, <2>1, WrapsOnce
    <2> QED
        BY <1>2, <1>4, <2>1, <2>2
<1>7. inner'.kind # "pfifo" => ibacklog' = Bytes(queue')
    <2> SUFFICES ASSUME inner'.kind # "pfifo" PROVE ibacklog' = Bytes(queue')
        OBVIOUS
    <2> DEFINE y == x - len
    <2>1. y \in Nat /\ y < U32 /\ ibacklog' = y % U32
        BY <1>1, <1>2, <1>3, <1>4, <1>5
    <2> HIDE DEF y
    <2>2. y % U32 = y
        BY <1>1, <2>1
    <2> QED
        BY <1>4, <2>1, <2>2 DEF y
<1>8. (\A s \in Skbs : ~s.gso) => backlog' = ibacklog'
    BY <1>2, <1>5
<1> QED
    BY <1>6, <1>7, <1>8 DEF BacklogInv, BacklogExact

LEMMA BacklogStep ==
    ASSUME BacklogInv, [Next]_vars
    PROVE  BacklogInv'
<1>1. /\ TypeInv' /\ FifoInv'
      /\ inner'.kind # "pfifo" => inner.kind # "pfifo" \/ queue' = <<>>
    BY TypeStep, FifoStep DEF BacklogInv
<1>2. CASE UNCHANGED packets
    BY <1>1, <1>2, SameBacklog
<1>3. CASE tbf_destroy \/ dev_deactivate
    BY <1>1, <1>3, SameBacklog DEF tbf_destroy, dev_deactivate, tbf_reset
<1>4. ASSUME NEW new \in Inners, tbf_graft(new)
      PROVE  BacklogInv'
    <2>1. /\ queue' = <<>> /\ ibacklog' = 0
          /\ backlog' = (backlog - ibacklog) % U32
        BY <1>4 DEF tbf_graft
    <2>2. backlog = ibacklog => (backlog - ibacklog) % U32 = 0
        BY PschedAssumption DEF BacklogInv, TypeInv, TypeOK
    <2> QED
        BY <1>1, <2>1, <2>2, SameBacklog
<1>5. CASE tbf_dump
    <2>1. inner' = inner /\ queue' = queue /\ ibacklog' = ibacklog /\ backlog' = ibacklog
        BY <1>5 DEF tbf_dump, params
    <2> QED
        BY <1>1, <2>1 DEF BacklogInv, BacklogExact
<1>6. ASSUME NEW p \in Skbs, tbf_enqueue(p) PROVE BacklogInv'
    BY <1>1, <1>6, EnqueueBacklog
<1>7. CASE tbf_dequeue
    <2>1. CASE DequeueSend
        BY <1>1, <1>7, <2>1, SendBacklog
    <2>2. CASE DequeueEmpty \/ DequeueThrottle
        BY <1>2, <2>2 DEF DequeueEmpty, DequeueThrottle
    <2> QED
        BY <1>7, <2>1, <2>2 DEF tbf_dequeue
<1>8. CASE Tick \/ qdisc_watchdog \/ netif_wake_queue \/ dev_activate \/ UNCHANGED vars
    BY <1>2, <1>8 DEF Tick, qdisc_watchdog, netif_wake_queue, dev_activate, vars
<1>9. CASE Change \/ \E o \in Opts : tbf_init(o)
    BY <1>2, <1>9 DEF Change, tbf_change, tbf_change_locked, tbf_init
<1> QED
    BY <1>3, <1>4, <1>5, <1>6, <1>7, <1>8, <1>9 DEF Next, PacketPath, Lifetime, Link

LEMMA BacklogInit ==
    ASSUME Init
    PROVE  BacklogInv
<1>1. /\ state = "none" /\ inner.kind = "noop" /\ pend = {}
      /\ queue = <<>> /\ ibacklog = 0 /\ backlog = 0
    BY DEF Init, noop_qdisc
<1>2. Bytes(queue) = 0 /\ 0 % U32 = 0
    BY <1>1, BytesEmpty, PschedAssumption
<1> QED
    BY <1>1, <1>2, TypeInit DEF BacklogInv, FifoInv, BacklogExact

\* For all packets and limits, through enqueue, segmentation, dequeue, graft and
\* reset, the inner qdisc counts the bytes it holds, and tbf counts the same where
\* nothing is segmented.
THEOREM BacklogCorrect == Spec => []BacklogExact
<1>1. Init => BacklogInv
    BY BacklogInit
<1>2. BacklogInv /\ [Next]_vars => BacklogInv'
    BY BacklogStep
<1>3. BacklogInv => BacklogExact
    BY DEF BacklogInv
<1> QED
    BY <1>1, <1>2, <1>3, PTL DEF Spec

\* For all packets and widths of the counters, no step other than the arrival of
\* a GSO packet moves the byte counts of tbf and of its inner qdisc apart.
THEOREM BytesFollowCorrect == Spec => BytesFollow
<1> DEFINE Follows == \/ \E p \in Skbs : p.gso /\ tbf_enqueue(p)
                      \/ backlog' = ibacklog'
                      \/ (backlog' - ibacklog') % U32 = (backlog - ibacklog) % U32
<1>1. TypeInv /\ [Next]_vars => [Follows]_vars
    <2> SUFFICES ASSUME TypeInv, Next PROVE Follows
        OBVIOUS
    <2>1. /\ backlog \in Int /\ ibacklog \in Int
          /\ backlog' \in 0..U32 - 1 /\ U32 \in Nat \ {0}
        BY TypeStep, PschedAssumption DEF TypeInv, TypeOK
    <2>2. CASE UNCHANGED packets
        BY <2>2 DEF packets
    <2>3. CASE tbf_destroy \/ dev_deactivate \/ tbf_dump
        BY <2>3 DEF tbf_destroy, dev_deactivate, tbf_reset, tbf_dump
    <2>4. ASSUME NEW new \in Inners, tbf_graft(new) PROVE Follows
        <3>1. ibacklog' = 0 /\ backlog' = (backlog - ibacklog) % U32
            BY <2>4 DEF tbf_graft
        <3>2. (backlog' - 0) % U32 = backlog'
            <4> DEFINE y == backlog'
            <4>1. y \in 0..U32 - 1
                BY <2>1
            <4> HIDE DEF y
            <4>2. y - 0 = y
                BY <2>1, <4>1
            <4>3. y % U32 = y
                BY <2>1, <4>1
            <4> QED
                BY <4>2, <4>3 DEF y
        <3> QED
            BY <3>1, <3>2
    <2>5. ASSUME NEW p \in Skbs, tbf_enqueue(p) PROVE Follows
        <3>1. CASE p.gso
            BY <2>5, <3>1
        <3>2. CASE UNCHANGED packets
            BY <2>2, <3>2
        <3>3. CASE EnqueueInner(p) /\ Accepts(0, p.len)
            <4> DEFINE len == p.len
            <4>1. len \in Int
                BY TbfAssumption DEF SkbType
            <4>2. ibacklog' = (ibacklog + len) % U32 /\ backlog' = (backlog + len) % U32
                BY <3>3 DEF EnqueueInner
            <4> HIDE DEF len
            <4>3. (((backlog + len) % U32) - ((ibacklog + len) % U32)) % U32
                      = (backlog - ibacklog) % U32
                BY <2>1, <4>1, SameDistance
            <4> QED
                BY <4>2, <4>3
        <3> QED
            BY <2>5, <3>1, <3>2, <3>3 DEF tbf_enqueue, EnqueueInner
    <2>6. CASE tbf_dequeue
        <3>1. CASE DequeueEmpty \/ DequeueThrottle
            BY <2>2, <3>1 DEF DequeueEmpty, DequeueThrottle
        <3>2. CASE DequeueSend
            <4> DEFINE len == Head(queue)
                       n == -len
            <4>1. len \in Int
                <5>1. queue \in Seq(Nat \ {0}) /\ queue # <<>>
                    BY <3>2 DEF DequeueSend, TypeInv, TypeOK
                <5> QED
                    BY <5>1, HeadTailProperties
            <4>2. ibacklog' = (ibacklog - len) % U32 /\ backlog' = (backlog - len) % U32
                BY <3>2 DEF DequeueSend
            <4> HIDE DEF len
            <4>3. n \in Int /\ ibacklog - len = ibacklog + n /\ backlog - len = backlog + n
                BY <2>1, <4>1
            <4> HIDE DEF n
            <4>4. (((backlog + n) % U32) - ((ibacklog + n) % U32)) % U32
                      = (backlog - ibacklog) % U32
                BY <2>1, <4>3, SameDistance
            <4> QED
                BY <4>2, <4>3, <4>4
        <3> QED
            BY <2>6, <3>1, <3>2 DEF tbf_dequeue
    <2>7. CASE Tick \/ qdisc_watchdog \/ netif_wake_queue \/ dev_activate
        BY <2>2, <2>7 DEF Tick, qdisc_watchdog, netif_wake_queue, dev_activate
    <2>8. CASE Change \/ \E o \in Opts : tbf_init(o)
        BY <2>2, <2>8 DEF Change, tbf_change, tbf_change_locked, tbf_init
    <2> QED
        BY <2>3, <2>4, <2>5, <2>6, <2>7, <2>8 DEF Next, PacketPath, Lifetime, Link
<1>2. Init => TypeInv
    BY TypeInit
<1>3. TypeInv /\ [Next]_vars => TypeInv'
    BY TypeStep
<1>4. Spec => [][Follows]_vars
    BY <1>1, <1>2, <1>3, PTL DEF Spec
<1> QED
    BY <1>4 DEF BytesFollow
=============================================================================
