---------------------------- MODULE ShaperProofs ----------------------------
(***************************************************************************)
(* Proofs about Shaper, for every plan whose bursts are equal and no less  *)
(* than that of the tc command.                                            *)
(***************************************************************************)
EXTENDS Shaper, TbfProofs

\* The burst of the rounds.
Burst == Plan[First].burst

\* No request the program has sent lowers max_size: the packets that were let in
\* stay below it.
Grows ==
    /\ index \in Entries
    /\ \A req \in pend : req.opt.peakrate = 0 /\ NewMaxSize(req.opt) = Burst
    /\ state # "none" => par.peak = 0 /\ par.max_size <= Burst

Within ==
    /\ state = "none" => queue = <<>>
    /\ queue \in Seq(1..par.max_size)

ShaperInv == TypeInv /\ AdmittedFits /\ Grows /\ Within
-----------------------------------------------------------------------------
\* A program sends to tbf what Tbf expects of any requests.
LEMMA StepOfTbf ==
    ASSUME index \in Entries, [NextShaper]_shaper
    PROVE  [Next]_vars
<1>1. Initial \in Opts /\ \A e \in Entries : Plan[e] \in Opts
    BY ShaperAssumption
<1>2. ASSUME Round PROVE [Next]_vars
    <2>1. index' \in Entries
        <3>1. nbws \in Nat \ {0} /\ index \in Int
            BY ShaperAssumption DEF Entries
        <3>2. (index + 1) % nbws \in 0..nbws - 1
            BY <3>1
        <3> QED
            BY <1>2, <3>2 DEF Round, Entries
    <2>2. tbf_change(Plan[index']) \/ UNCHANGED vars
        BY <1>2 DEF Round
    <2> QED
        BY <1>1, <2>1, <2>2 DEF Next, Change
<1>3. CASE tc_qdisc_del \/ tc_qdisc_add \/ Restart
    BY <1>1, <1>3 DEF tc_qdisc_del, tc_qdisc_add, Restart, Next, Lifetime
<1>4. CASE Device \/ Link
    BY <1>4 DEF Device, Next, Change, Lifetime
<1>5. CASE UNCHANGED shaper
    BY <1>5 DEF shaper
<1> QED
    BY <1>2, <1>3, <1>4, <1>5 DEF NextShaper, NextLinkKept, Program

\* index always names an entry.
LEMMA IndexStep ==
    ASSUME index \in Entries, [NextShaper]_shaper
    PROVE  index' \in Entries
<1>1. nbws \in Nat \ {0} /\ index \in Int /\ First \in Entries
    BY ShaperAssumption DEF Entries
<1>2. (index + 1) % nbws \in Entries
    BY <1>1 DEF Entries
<1>3. index' \in {index, First, (index + 1) % nbws}
    BY DEF NextShaper, NextLinkKept, Program, tc_qdisc_del, tc_qdisc_add, Round,
           Restart, Device, shaper, control
<1> QED
    BY <1>1, <1>2, <1>3

\* The max_size of the program's requests.
LEMMA Bursts ==
    /\ Initial.peakrate = 0 /\ NewMaxSize(Initial) <= Burst
    /\ \A e \in Entries : Plan[e].peakrate = 0 /\ NewMaxSize(Plan[e]) = Burst
<1>1. \A o \in {Initial} \cup {Plan[e] : e \in Entries} :
          o.peakrate = 0 /\ NewMaxSize(o) = o.burst
    BY ShaperAssumption DEF NewMaxSize
<1>2. First \in Entries /\ \A e \in Entries : Plan[e].burst = Burst
    BY ShaperAssumption DEF Burst
<1>3. Initial.burst <= Burst
    BY <1>2, ShaperAssumption DEF Burst
<1> QED
    BY <1>1, <1>2, <1>3
-----------------------------------------------------------------------------
(***************************************************************************)
(* The packets stay within max_size.                                       *)
(***************************************************************************)
LEMMA EmptyWithin ==
    ASSUME NEW S
    PROVE  <<>> \in Seq(S)
OBVIOUS

LEMMA CopiesWithin ==
    ASSUME NEW S, NEW n \in Nat, NEW len \in S
    PROVE  Copies(n, len) \in Seq(S)
<1>1. Copies(n, len) \in [1..n -> S]
    BY DEF Copies
<1> QED
    BY <1>1

LEMMA EnqueueWithin ==
    ASSUME TypeInv, Within, NEW p \in Skbs, tbf_enqueue(p)
    PROVE  Within'
<1> DEFINE S == 1..par.max_size
<1>1. state = "up" /\ state' = state /\ par' = par
    BY DEF tbf_enqueue, params
<1>2. queue \in Seq(S) /\ par.max_size \in Nat
    BY DEF Within, TypeInv, TypeOK, ParamType
<1>3. /\ p.len \in Nat \ {0} /\ p.seg \in Nat \ {0} /\ p.tail \in Nat \ {0}
      /\ p.full \in Nat /\ p.tail <= p.seg
    BY TbfAssumption, ShaperAssumption DEF SkbType
<1>4. CASE UNCHANGED packets
    BY <1>1, <1>4 DEF Within, packets
<1>5. CASE p.len <= par.max_size /\ EnqueueInner(p) /\ Accepts(0, p.len)
    <2>1. queue' = Append(queue, p.len)
        BY <1>5 DEF EnqueueInner
    <2>2. p.len \in S
        BY <1>2, <1>3, <1>5
    <2> HIDE DEF S
    <2>3. queue' \in Seq(S)
        BY <1>2, <2>1, <2>2, AppendProperties
    <2> QED
        BY <1>1, <2>3 DEF Within, S
<1>6. CASE p.seg <= par.max_size /\ tbf_segment(p)
    <2>1. p.seg \in S /\ p.tail \in S
        BY <1>2, <1>3, <1>6
    <2> DEFINE room == MaxOf(inner.limit - Used, 0)
               full == IF inner.kind = "noop" THEN 0
                       ELSE MinOf(p.full, room \div Weight(p.seg))
               tail == IF Accepts(full * Weight(p.seg), p.tail) THEN 1 ELSE 0
               a == Copies(full, p.seg)
               b == Copies(tail, p.tail)
    <2>2. queue' = queue \o a \o b
        BY <1>6 DEF tbf_segment
    <2>3. Used \in Nat /\ inner.limit \in Nat
        <3>1. Len(queue) \in Nat /\ ibacklog \in Nat /\ inner.limit \in Nat
            BY DEF TypeInv, TypeOK, InnerType
        <3> QED
            BY <3>1 DEF Used
    <2>4. room \in Nat
        BY <2>3 DEF MaxOf
    <2>5. Weight(p.seg) \in Nat \ {0}
        BY <1>3 DEF Weight
    <2>6. room \div Weight(p.seg) \in Nat
        <3> HIDE DEF room
        <3> QED BY <2>4, <2>5, QuotientNat
    <2>7. full \in Nat /\ tail \in Nat
        BY <1>3, <2>6 DEF MinOf
    <2> HIDE DEF full, tail, S
    <2>8. a \in Seq(S) /\ b \in Seq(S)
        BY <2>1, <2>7, CopiesWithin
    <2> HIDE DEF a, b
    <2>9. queue \o a \in Seq(S)
        BY <1>2, <2>8, ConcatProperties
    <2>10. queue \o a \o b \in Seq(S)
        BY <2>8, <2>9, ConcatProperties
    <2> QED
        BY <1>1, <2>2, <2>10 DEF Within, S
<1> QED
    BY <1>4, <1>5, <1>6 DEF tbf_enqueue, EnqueueInner

\* A step that only takes packets off and keeps the parameters.
LEMMA ShrinkWithin ==
    ASSUME Within, par' = par, state' = state,
           queue' = queue \/ queue' = <<>> \/ (queue # <<>> /\ queue' = Tail(queue))
    PROVE  Within'
<1> DEFINE S == 1..par.max_size
<1>1. queue \in Seq(S)
    BY DEF Within
<1> HIDE DEF S
<1>2. queue' \in Seq(S)
    <2>1. CASE queue' = queue
        BY <1>1, <2>1
    <2>2. CASE queue' = <<>>
        BY <2>2, EmptyWithin
    <2>3. CASE queue # <<>> /\ queue' = Tail(queue)
        BY <1>1, <2>3, HeadTailProperties
    <2> QED
        BY <2>1, <2>2, <2>3
<1>3. state = "none" => queue' = <<>>
    BY DEF Within
<1> QED
    BY <1>2, <1>3 DEF Within, S

LEMMA ShaperStep ==
    ASSUME ShaperInv, [NextShaper]_shaper
    PROVE  ShaperInv'
<1>1. /\ TypeInv /\ AdmittedFits /\ Grows /\ Within /\ index \in Entries
    BY DEF ShaperInv, Grows
<1>2. [Next]_vars /\ index' \in Entries
    BY <1>1, StepOfTbf, IndexStep
<1>3. TypeInv' /\ AdmittedFits'
    BY <1>1, <1>2, TypeStep, AdmitStep
<1> SUFFICES Grows' /\ Within'
    BY <1>3 DEF ShaperInv
<1>4. ASSUME UNCHANGED <<pend, par, state>> PROVE Grows'
    BY <1>1, <1>2, <1>4 DEF Grows, NewMaxSize
<1>5. CASE UNCHANGED vars
    BY <1>1, <1>4, <1>5, ShrinkWithin DEF vars, params, packets
<1>6. CASE tc_qdisc_del
    <2>1. state' = "none" /\ queue' = <<>> /\ pend' = pend /\ par' = NoParams
        BY <1>6 DEF tc_qdisc_del, tbf_destroy
    <2>2. Within'
        BY <2>1 DEF Within
    <2> QED
        BY <1>1, <1>2, <2>1, <2>2 DEF Grows, NewMaxSize
<1>7. CASE tc_qdisc_add /\ tbf_init(Initial)
    <2>1. /\ state = "none" /\ pend' = pend /\ queue' = queue
          /\ \/ UNCHANGED <<state, par>>
             \/ par' = NewParams(Initial)
        BY <1>7 DEF tbf_init, packets
    <2>2. CASE UNCHANGED <<state, par>>
        BY <1>1, <1>4, <2>1, <2>2, ShrinkWithin
    <2>3. CASE par' = NewParams(Initial)
        <3>1. par'.peak = 0 /\ par'.max_size <= Burst
            BY <2>3, Bursts DEF NewParams
        <3>2. queue' = <<>>
            BY <1>1, <2>1 DEF Within
        <3>3. Within'
            BY <3>2 DEF Within
        <3> QED
            BY <1>1, <1>2, <2>1, <3>1, <3>3 DEF Grows, NewMaxSize
    <2> QED
        BY <2>1, <2>2, <2>3
<1>8. CASE Round
    <2>1. UNCHANGED <<state, par, queue>>
        BY <1>8 DEF Round, tbf_change, packets, vars, params
    <2>2. \A req \in pend' : req \in pend \/ req.opt = Plan[index']
        BY <1>8 DEF Round, tbf_change, vars, params
    <2>3. \A req \in pend' : req.opt.peakrate = 0 /\ NewMaxSize(req.opt) = Burst
        BY <1>1, <1>2, <2>2, Bursts DEF Grows
    <2>4. Grows'
        BY <1>1, <1>2, <2>1, <2>3 DEF Grows
    <2> QED
        BY <1>1, <2>1, <2>4, ShrinkWithin
<1>9. ASSUME NEW p \in Skbs, tbf_enqueue(p) PROVE Grows' /\ Within'
    BY <1>1, <1>4, <1>9, EnqueueWithin DEF tbf_enqueue, params
<1>10. CASE tbf_dequeue
    <2>1. UNCHANGED <<state, par, pend>>
        BY <1>10 DEF tbf_dequeue, params
    <2>2. queue' = queue \/ (queue # <<>> /\ queue' = Tail(queue))
        BY <1>10 DEF tbf_dequeue, DequeueEmpty, DequeueSend, DequeueThrottle, packets
    <2> QED
        BY <1>1, <1>4, <2>1, <2>2, ShrinkWithin
<1>11. CASE Tick \/ qdisc_watchdog \/ netif_wake_queue \/ tbf_dump
    BY <1>1, <1>4, <1>11, ShrinkWithin
    DEF Tick, qdisc_watchdog, netif_wake_queue, tbf_dump, params, packets
<1>12. CASE tbf_change_locked
    <2>1. PICK req \in pend : par' = NewParams(req.opt)
        BY <1>12 DEF tbf_change_locked
    <2>2. pend' = {} /\ state' = state /\ queue' = queue
        BY <1>12 DEF tbf_change_locked, packets
    <2>3. par'.peak = 0 /\ par'.max_size = Burst
        BY <1>1, <2>1 DEF Grows, NewParams
    <2>4. Burst \in Nat
        BY <1>3, <2>3 DEF TypeInv, TypeOK, ParamType
    <2>5. Grows'
        BY <1>2, <2>2, <2>3, <2>4 DEF Grows
    <2>6. CASE state = "none"
        <3>1. queue' = <<>>
            BY <1>1, <2>2, <2>6 DEF Within
        <3>2. <<>> \in Seq(1..par'.max_size)
            BY EmptyWithin
        <3>3. queue' \in Seq(1..par'.max_size)
            BY ONLY <3>1, <3>2
        <3> QED
            BY <2>5, <3>1, <3>3 DEF Within
    <2>7. CASE state # "none"
        <3>1. par.max_size <= Burst /\ par.max_size \in Nat
            BY <1>1, <2>7 DEF Grows, TypeInv, TypeOK, ParamType
        <3>2. 1..par.max_size \subseteq 1..par'.max_size
            BY <2>3, <2>4, <3>1
        <3>3. queue \in Seq(1..par'.max_size)
            <4> DEFINE S == 1..par.max_size
                       T == 1..par'.max_size
            <4>1. S \subseteq T /\ queue \in Seq(S)
                BY <1>1, <3>2 DEF Within
            <4> HIDE DEF S, T
            <4>2. queue \in Seq(T)
                BY <4>1
            <4> QED
                BY <4>2 DEF T
        <3> QED
            <4>1. queue' \in Seq(1..par'.max_size)
                BY ONLY <2>2, <3>3
            <4>2. state' # "none"
                BY <2>2, <2>7
            <4> QED
                BY <2>5, <4>1, <4>2 DEF Within
    <2> QED
        BY <2>5, <2>6, <2>7
<1>13. CASE Link
    <2>1. UNCHANGED <<par, pend>> /\ (queue' = queue \/ queue' = <<>>)
          /\ state # "none" /\ state' # "none"
        BY <1>13 DEF Link, dev_deactivate, dev_activate, tbf_reset, packets
    <2>2. Grows'
        BY <1>1, <1>2, <2>1 DEF Grows, NewMaxSize
    <2>3. queue' \in Seq(1..par.max_size)
        <3>1. queue \in Seq(1..par.max_size) /\ <<>> \in Seq(1..par.max_size)
            BY <1>1, EmptyWithin DEF Within
        <3> QED
            BY ONLY <2>1, <3>1
    <2> QED
        BY <2>1, <2>2, <2>3 DEF Within
<1> QED
    BY <1>5, <1>6, <1>7, <1>8, <1>9, <1>10, <1>11, <1>12, <1>13
    DEF NextShaper, NextLinkKept, Program, tc_qdisc_add, Restart, Device,
        PacketPath, shaper
-----------------------------------------------------------------------------
\* Under the programs of src/tbf no packet that tbf_enqueue admitted, under the
\* request of tc or of any round, is too long for the bucket in force when
\* tbf_dequeue looks at it.
THEOREM FitsCorrect == SpecShaper => []HeadFits
<1>1. InitShaper => ShaperInv
    <2> SUFFICES ASSUME InitShaper PROVE ShaperInv
        OBVIOUS
    <2>1. Init /\ index \in Entries
        BY ShaperAssumption DEF InitShaper
    <2>2. TypeInv
        BY <2>1, TypeInit
    <2>3. AdmittedFits /\ Grows /\ Within
        BY <2>1 DEF Init, AdmittedFits, Grows, Within
    <2> QED
        BY <2>2, <2>3 DEF ShaperInv
<1>2. ShaperInv => HeadFits
    <2> SUFFICES ASSUME ShaperInv, state # "none", NEW i \in DOMAIN queue
                 PROVE  Payable(queue[i])
        BY DEF HeadFits
    <2>1. par.rate \in Nat /\ par.max_size \in Nat /\ par.buffer \in Nat
        BY DEF ShaperInv, TypeInv, TypeOK, ParamType
    <2>2. queue[i] \in 1..par.max_size
        <3> DEFINE S == 1..par.max_size
        <3>1. queue \in Seq(S)
            BY DEF ShaperInv, Within
        <3> HIDE DEF S
        <3>2. queue[i] \in S
            BY <3>1
        <3> QED
            BY <3>2 DEF S
    <2>3. Cost(queue[i]) <= Cost(par.max_size)
        BY <2>1, <2>2, L2TMonotonic DEF Cost
    <2>4. Cost(par.max_size) <= par.buffer
        BY DEF ShaperInv, AdmittedFits
    <2>5. Cost(queue[i]) \in Nat /\ Cost(par.max_size) \in Nat
        <3>1. queue[i] \in Nat
            BY <2>1, <2>2
        <3> QED
            BY <2>1, <3>1, L2TNat DEF Cost
    <2>6. ~tbf_peak_present
        BY DEF ShaperInv, Grows, tbf_peak_present
    <2> QED
        BY <2>1, <2>3, <2>4, <2>5, <2>6 DEF Payable
<1> QED
    BY <1>1, <1>2, ShaperStep, PTL DEF SpecShaper
-----------------------------------------------------------------------------
(***************************************************************************)
(* The limit.  While a request waits for the lock, what it did to the      *)
(* inner qdisc before and what it will do under the lock fit together.     *)
(***************************************************************************)
LimitInv ==
    /\ LimitInForce
    /\ \A req \in pend :
        /\ req.child => inner.kind = "noop"
        /\ ~req.child /\ inner.kind = "bfifo" => inner.limit = req.opt.limit
    /\ inner \in InnerType
    /\ state = "none" => pend = {}

LEMMA LimitStep ==
    ASSUME LimitInv, TypeInv, TypeInv', [NextShaper]_shaper
    PROVE  LimitInv'
<1>1. inner' \in InnerType
    BY DEF TypeInv, TypeOK
<1>2. state' = "none" => pend' = {}
    BY DEF LimitInv, NextShaper, NextLinkKept, Program, Device, tc_qdisc_del,
        tbf_destroy, tc_qdisc_add, tbf_init, Round, tbf_change, Restart,
        tbf_change_locked, PacketPath, tbf_enqueue, tbf_dequeue, Tick,
        qdisc_watchdog, netif_wake_queue, tbf_dump, Link, dev_activate,
        dev_deactivate, shaper, vars, params
<1> SUFFICES /\ LimitInForce'
             /\ \A req \in pend' :
                 /\ req.child => inner'.kind = "noop"
                 /\ ~req.child /\ inner'.kind = "bfifo" => inner'.limit = req.opt.limit
    BY <1>1, <1>2 DEF LimitInv
<1>3. CASE UNCHANGED <<par, inner, pend>>
    BY <1>3 DEF LimitInv, LimitInForce
<1>4. CASE tc_qdisc_del
    BY <1>4 DEF tc_qdisc_del, tbf_destroy, noop_qdisc, LimitInForce
<1>5. CASE tc_qdisc_add
    <2>1. CASE UNCHANGED <<par, inner, pend>>
        BY <1>3, <2>1
    <2>2. CASE /\ pend' = pend /\ par' = NewParams(Initial)
               /\ inner' = IF Initial.limit > 0 THEN bfifo(Initial.limit) ELSE noop_qdisc
               /\ state = "none"
        <3>1. inner'.kind = "bfifo" => inner'.limit = par'.limit
            BY <2>2 DEF bfifo, noop_qdisc, NewParams
        <3>2. pend = {}
            BY <2>2 DEF LimitInv
        <3> QED
            BY <2>2, <3>1, <3>2 DEF LimitInForce
    <2> QED
        BY <1>5, <2>1, <2>2 DEF tc_qdisc_add, tbf_init, vars, params
<1>6. CASE Round
    <2>1. CASE UNCHANGED <<par, inner, pend>>
        BY <1>3, <2>1
    <2> DEFINE o == Plan[index']
    <2>2. CASE /\ pend' = {[opt |-> o, child |-> inner.kind = "noop" /\ o.limit > 0]}
               /\ fifo_set_limit(o.limit)
        <3>1. CASE inner.kind = "noop"
            BY <2>2, <3>1 DEF fifo_set_limit, LimitInForce
        <3>2. CASE inner.kind # "noop"
            <4>1. inner' = [inner EXCEPT !.limit = o.limit]
                BY <2>2, <3>2 DEF fifo_set_limit
            <4>2. inner'.limit = o.limit
                BY <4>1 DEF LimitInv, InnerType
            <4>3. (inner.kind = "noop" /\ o.limit > 0) = FALSE
                BY <3>2, Zenon
            <4>4. pend' = {[opt |-> o, child |-> FALSE]}
                BY <2>2, <4>3, Zenon
            <4>5. \A req \in pend' : req.opt = o /\ req.child = FALSE
                BY <4>4
            <4> HIDE DEF o
            <4>6. pend' # {}
                BY <4>4
            <4> QED
                BY <4>2, <4>5, <4>6 DEF LimitInForce
        <3> QED
            BY <3>1, <3>2
    <2> QED
        BY <1>6, <2>1, <2>2 DEF Round, tbf_change, vars, params
<1>7. CASE tbf_change_locked
    <2>1. PICK req \in pend :
            /\ pend' = {}
            /\ inner' = IF req.child THEN bfifo(req.opt.limit) ELSE inner
            /\ par' = NewParams(req.opt)
        BY <1>7 DEF tbf_change_locked
    <2>2. inner'.kind = "bfifo" => inner'.limit = par'.limit
        BY <2>1 DEF LimitInv, bfifo, NewParams
    <2> QED
        BY <2>1, <2>2 DEF LimitInForce
<1>8. CASE PacketPath \/ tbf_dump \/ Link \/ Restart \/ UNCHANGED shaper
    <2>1. UNCHANGED <<par, inner, pend>>
        BY <1>8 DEF PacketPath, tbf_enqueue, tbf_dequeue, Tick, qdisc_watchdog,
            netif_wake_queue, tbf_dump, Link, dev_activate, dev_deactivate,
            Restart, shaper, vars, params
    <2> QED
        BY <1>3, <2>1
<1> QED
    BY <1>4, <1>5, <1>6, <1>7, <1>8
    DEF NextShaper, NextLinkKept, Program, Device

\* Under the programs of src/tbf, whenever no request is half way through, the
\* limit that tbf_dump reports is the one the default bfifo enforces.
THEOREM LimitCorrect == SpecShaper => []LimitInForce
<1> DEFINE I == TypeInv /\ LimitInv /\ index \in Entries
<1>1. InitShaper => I
    <2> SUFFICES ASSUME InitShaper PROVE I
        OBVIOUS
    <2>1. Init /\ index \in Entries
        BY ShaperAssumption DEF InitShaper
    <2>2. LimitInv
        <3>1. inner.kind = "noop" /\ pend = {}
            BY <2>1 DEF Init, noop_qdisc
        <3>2. inner \in InnerType
            BY <2>1, TypeInit DEF TypeInv, TypeOK
        <3> QED
            BY <3>1, <3>2 DEF LimitInv, LimitInForce
    <2> QED
        BY <2>1, <2>2, TypeInit
<1>2. I /\ [NextShaper]_shaper => I'
    BY StepOfTbf, IndexStep, TypeStep, LimitStep
<1>3. I => LimitInForce
    BY DEF LimitInv
<1> QED
    BY <1>1, <1>2, <1>3, PTL DEF SpecShaper
-----------------------------------------------------------------------------
\* Under a control program the qdisc does what it may do under any requests: what
\* is proved of tbf holds under the programs, and their restarts, too.
THEOREM ShaperIsTbf == SpecShaper => Spec
<1>1. InitShaper => Init /\ index \in Entries
    BY ShaperAssumption DEF InitShaper
<1>2. index \in Entries /\ [NextShaper]_shaper => (index \in Entries)'
    BY IndexStep
<1>3. index \in Entries /\ [NextShaper]_shaper => [Next]_vars
    BY StepOfTbf
<1> QED
    BY <1>1, <1>2, <1>3, PTL DEF SpecShaper, Spec

\* In particular the byte counts are exact under a program: neither a round nor a
\* restart loses track of a byte.
THEOREM ShaperBacklog == SpecShaper => []BacklogExact
    BY ShaperIsTbf, BacklogCorrect, PTL
\* As long as the link stays up, a program's changes of rate and its restarts leave
\* no backlogged qdisc without a wake-up.
THEOREM ShaperWakeup == FairShaper => []NoLostWakeup
<1>1. InitShaper => Init /\ index \in Entries
    BY ShaperAssumption DEF InitShaper
<1>2. index \in Entries /\ [NextLinkKept]_shaper => (index \in Entries)'
    BY IndexStep DEF NextShaper
<1>3. index \in Entries /\ [NextLinkKept]_shaper => [NextLinkUp]_vars
    <2> SUFFICES ASSUME index \in Entries, [NextLinkKept]_shaper PROVE [NextLinkUp]_vars
        OBVIOUS
    <2>1. Initial \in Opts /\ \A e \in Entries : Plan[e] \in Opts
        BY ShaperAssumption
    <2>2. index' \in Entries
        BY IndexStep DEF NextShaper
    <2>3. CASE Round
        <3>1. tbf_change(Plan[index']) \/ UNCHANGED vars
            BY <2>3 DEF Round
        <3> QED
            BY <2>1, <2>2, <3>1 DEF NextLinkUp, Change
    <2>4. CASE tc_qdisc_del \/ tc_qdisc_add \/ Restart
        BY <2>1, <2>4 DEF tc_qdisc_del, tc_qdisc_add, Restart, NextLinkUp, Lifetime
    <2>5. CASE Device \/ UNCHANGED shaper
        BY <2>5 DEF Device, NextLinkUp, Change, Lifetime, shaper
    <2> QED
        BY <2>3, <2>4, <2>5 DEF NextLinkKept, Program
<1>4. InitShaper /\ [][NextLinkKept]_shaper => SpecLinkUp
    BY <1>1, <1>2, <1>3, PTL DEF SpecLinkUp
<1>5. FairShaper => InitShaper /\ [][NextLinkKept]_shaper
    BY PTL DEF FairShaper
<1> QED
    BY <1>4, <1>5, WakeupCorrect, PTL
=============================================================================
