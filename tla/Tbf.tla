-------------------------------- MODULE Tbf --------------------------------
(***************************************************************************)
(* The token bucket filter of src/sch_tbf.c: the kernel's queueing         *)
(* discipline, modified so that a change of rate keeps the tokens that are *)
(* in the bucket (lines 410-411 are commented out).                        *)
(*                                                                         *)
(* Time is relative to the clock, which keeps the model finite although    *)
(* the clock is not bounded: age is now - t_c, timer is the time left      *)
(* until the watchdog expires and last is last_expires - now.  age stops   *)
(* at TimeCap, which is at least every bucket depth (the code only ever    *)
(* uses min(now - t_c, buffer)); last stops at 0, because an expiry that   *)
(* is compared with it always lies in the future.                          *)
(*                                                                         *)
(* The packet path runs under the root lock; requests of the control path  *)
(* are serialised by RTNL, but tbf_change works outside the root lock      *)
(* until its last part.                                                    *)
(***************************************************************************)
EXTENDS Psched, Sequences

CONSTANTS
    Skbs,       \* packets handed to the qdisc
    Opts,       \* option blocks (TCA_OPTIONS) of netlink requests
    Inners,     \* qdiscs that may be grafted as the inner qdisc
    TimeCap     \* bound of age

\* A GSO packet splits into `full' segments of seg bytes and one of tail bytes.
SkbType == [len : Nat \ {0}, gso : BOOLEAN,
            seg : Nat \ {0}, full : Nat, tail : Nat \ {0}]

\* An optional attribute that a request does not carry.
Absent == -1

\* parms is FALSE for a block without TCA_TBF_PARMS.  burst and pburst are
\* TCA_TBF_BURST and TCA_TBF_PBURST; peakrate 0 means no peak rate.
OptType == [parms : BOOLEAN, rate : Nat, peakrate : Nat, limit : Nat,
            buffer : Nat, mtu : Nat,
            burst : Nat \cup {Absent}, pburst : Nat \cup {Absent}]

InnerType == [kind : {"noop", "bfifo", "pfifo"}, limit : Nat]

\* The programs of src/tbf send a rate of zero for a bandwidth of less than eight
\* bits, but no peak rate; tc sends a peak rate, but no rate of zero.
ASSUME TbfAssumption ==
    /\ Skbs \subseteq SkbType
    /\ Opts \subseteq OptType
    /\ \A o \in Opts : o.peakrate # 0 => o.rate # 0
    /\ Inners \subseteq InnerType
    /\ TimeCap \in Nat

VARIABLES
    state,      \* "none": no qdisc; "up"; "down": __QDISC_STATE_DEACTIVATED
    par,        \* limit, max_size, buffer, mtu, rate, peak of tbf_sched_data
    tokens,     \* current number of B tokens
    ptokens,    \* current number of P tokens
    age,        \* now - t_c
    inner,      \* kind and limit of the inner qdisc
    queue,      \* lengths of the packets in the inner qdisc
    ibacklog,   \* qstats.backlog of the inner qdisc
    backlog,    \* qstats.backlog of the tbf qdisc
    qlen,       \* q.qlen of the tbf qdisc
    timer,      \* time until the watchdog expires, or Absent
    last,       \* watchdog.last_expires - now
    run,        \* a qdisc_run is under way or scheduled
    pend,       \* {} or the request whose tbf_change waits for the root lock
    res         \* result of the last call: the length of the packet that
                \* tbf_dequeue returned, or the error of a netlink request

\* History: how far the traffic is ahead of the configured rate.
VARIABLES
    excess,     \* greatest, over all intervals up to now, of the transmission
                \* time of the packets sent in it less its duration
    pexcess,    \* the same at the peak rate
    depth,      \* deepest buffer configured since creation or reset
    pdepth      \* deepest mtu configured since creation or reset

params  == <<state, par, inner, pend>>
buckets == <<tokens, ptokens, age>>
packets == <<queue, ibacklog, backlog, qlen>>
wakeup  == <<timer, last, run>>
history == <<excess, pexcess, depth, pdepth>>
vars    == <<params, buckets, packets, wakeup, res, history>>

NoParams == [limit |-> 0, max_size |-> 0, buffer |-> 0,
             mtu |-> 0, rate |-> 0, peak |-> 0]

\* The errors of a request; 0 is success, and a packet of tbf_dequeue is positive.
EINVAL == -22
ENOMEM == -12

noop_qdisc == [kind |-> "noop", limit |-> 0]
-----------------------------------------------------------------------------
(***************************************************************************)
(* What tbf_change computes from an option block.                          *)
(***************************************************************************)
\* Mutant: TCA_TBF_BURST does not set the depth of the bucket.
BufferFromTicks(o) == PSCHED_TICKS2NS(o.buffer)

NewBuffer(o) == IF o.burst # Absent THEN psched_l2t_ns(o.rate, o.burst)
                                    ELSE PSCHED_TICKS2NS(o.buffer)

NewMtu(o) ==
    IF o.pburst = Absent THEN PSCHED_TICKS2NS(o.mtu)
    ELSE IF o.peakrate # 0 THEN psched_l2t_ns(o.peakrate, o.pburst)
    ELSE CapU32(PSCHED_TICKS2NS(o.mtu))

\* Mutant: the peak bucket does not bound the packets.
MaxSizeNoPeak(o) == IF o.burst # Absent THEN o.burst
                    ELSE CapU32(psched_ns_t2l(o.rate, PSCHED_TICKS2NS(o.buffer)))

\* The largest packet that both buckets can hold.
NewMaxSize(o) ==
    LET burst == IF o.burst # Absent THEN o.burst
                 ELSE CapU32(psched_ns_t2l(o.rate,
                                 CapU32(PSCHED_TICKS2NS(o.buffer))))
        pburst == IF o.pburst # Absent THEN o.pburst
                  ELSE psched_ns_t2l(o.peakrate,
                                 CapU32(PSCHED_TICKS2NS(o.mtu)))
    IN IF o.peakrate = 0 THEN burst ELSE MinOf(burst, pburst)

\* The requests tbf_change refuses with -EINVAL.
Invalid(o) == \/ ~o.parms
              \/ o.peakrate # 0 /\ o.peakrate <= o.rate
              \/ NewMaxSize(o) = 0

NewParams(o) == [limit |-> o.limit, max_size |-> NewMaxSize(o),
                 buffer |-> NewBuffer(o), mtu |-> NewMtu(o),
                 rate |-> o.rate, peak |-> o.peakrate]

bfifo(limit) == [kind |-> "bfifo", limit |-> limit]

\* age is exact wherever the code reads it.
ASSUME TimeCapAssumption == \A o \in Opts : NewBuffer(o) <= TimeCap

\* A fifo below its limit can add any packet to its unsigned byte count.
RoomFor(limit) ==
    \A p \in Skbs : \A len \in {p.len, p.seg, p.tail} : limit + len < U32

\* The sum that bfifo compares with its limit does not wrap: the programs ask for
\* 1514 bytes per packet of their queue length.
ASSUME WidthAssumption ==
    /\ \A o \in Opts : RoomFor(o.limit)
    /\ \A new \in Inners : new.kind = "bfifo" => RoomFor(new.limit)
-----------------------------------------------------------------------------
(***************************************************************************)
(* Creation and removal.                                                   *)
(***************************************************************************)
Init ==
    /\ state = "none" /\ par = NoParams /\ inner = noop_qdisc
    /\ pend = {}
    /\ tokens = 0 /\ ptokens = 0 /\ age = 0
    /\ queue = <<>> /\ ibacklog = 0 /\ backlog = 0 /\ qlen = 0
    /\ timer = Absent /\ last = 0 /\ run = FALSE
    /\ res = 0
    /\ excess = 0 /\ pexcess = 0 /\ depth = 0 /\ pdepth = 0

\* tbf_init on a zeroed qdisc: t_c is now, the buckets hold no token, and
\* tbf_change creates the default bfifo.  The qdisc is not yet visible to the
\* packet path.  A failure destroys it again (qdisc_create).
tbf_init(o) ==
    /\ state = "none"
    /\ IF Invalid(o)
       THEN res' = EINVAL /\ UNCHANGED <<state, par, inner, depth, pdepth>>
       ELSE \/ /\ res' = 0
               /\ state' = "up"
               /\ par' = NewParams(o)
               /\ inner' = IF o.limit > 0 THEN bfifo(o.limit) ELSE noop_qdisc
               /\ depth' = NewBuffer(o)
               /\ pdepth' = NewMtu(o)
            \/ /\ o.limit > 0
               /\ res' = ENOMEM
               /\ UNCHANGED <<state, par, inner, depth, pdepth>>
    /\ UNCHANGED <<pend, buckets, packets, wakeup, excess, pexcess>>

\* tbf_destroy cancels the watchdog and drops the inner qdisc with its packets.
tbf_destroy ==
    /\ state # "none"
    /\ pend = {}
    /\ state' = "none" /\ par' = NoParams /\ inner' = noop_qdisc
    /\ tokens' = 0 /\ ptokens' = 0 /\ age' = 0
    /\ queue' = <<>> /\ ibacklog' = 0 /\ backlog' = 0 /\ qlen' = 0
    /\ timer' = Absent /\ last' = 0 /\ run' = FALSE
    /\ res' = 0
    /\ excess' = 0 /\ pexcess' = 0 /\ depth' = 0 /\ pdepth' = 0
    /\ UNCHANGED pend
-----------------------------------------------------------------------------
(***************************************************************************)
(* The packet path.                                                        *)
(***************************************************************************)
\* What a packet of len bytes uses of the limit of the inner qdisc: bytes for
\* bfifo, one packet for pfifo.
Weight(len) == IF inner.kind = "bfifo" THEN len ELSE 1

Used == IF inner.kind = "bfifo" THEN ibacklog ELSE Len(queue)

\* The inner enqueue accepts a packet of len bytes after extra was accepted.
Accepts(extra, len) == /\ inner.kind # "noop"
                       /\ Used + extra + Weight(len) <= inner.limit

Copies(n, len) == [i \in 1..n |-> len]

\* tbf_segment: every segment is offered to the inner qdisc by itself.  All but
\* the last have the same length, so the first ones are accepted as long as
\* there is room; the last may still fit where a full one did not.
tbf_segment(p) ==
    LET room == MaxOf(inner.limit - Used, 0)
        full == IF inner.kind = "noop" THEN 0
                ELSE MinOf(p.full, room \div Weight(p.seg))
        tail == IF Accepts(full * Weight(p.seg), p.tail) THEN 1 ELSE 0
    IN /\ queue' = queue \o Copies(full, p.seg) \o Copies(tail, p.tail)
       /\ ibacklog' = (ibacklog + full * p.seg + tail * p.tail) % U32
       /\ qlen' = qlen + full + tail
       /\ UNCHANGED backlog

\* Mutant: the verdict of the inner qdisc is not looked at.
EnqueueUnchecked(p) ==
    /\ queue' = IF Accepts(0, p.len) THEN Append(queue, p.len) ELSE queue
    /\ qlen' = qlen + 1
    /\ UNCHANGED <<ibacklog, backlog>>

\* Mutant: the bytes are counted before the verdict of the inner qdisc.
EnqueueCountsFirst(p) ==
    /\ backlog' = (backlog + p.len) % U32
    /\ IF Accepts(0, p.len)
       THEN /\ queue' = Append(queue, p.len)
            /\ ibacklog' = (ibacklog + p.len) % U32
            /\ qlen' = qlen + 1
       ELSE UNCHANGED <<queue, ibacklog, qlen>>

\* The inner qdisc takes the packet, or refuses it and tbf counts a drop.
EnqueueInner(p) ==
    IF Accepts(0, p.len)
    THEN /\ queue' = Append(queue, p.len)
         /\ ibacklog' = (ibacklog + p.len) % U32
         /\ backlog' = (backlog + p.len) % U32
         /\ qlen' = qlen + 1
    ELSE UNCHANGED packets

\* tbf_enqueue, called by __dev_xmit_skb, which runs the qdisc afterwards.
tbf_enqueue(p) ==
    /\ state = "up"
    /\ IF p.len <= par.max_size THEN EnqueueInner(p)
       ELSE \/ p.gso /\ p.seg <= par.max_size /\ tbf_segment(p)
            \/ UNCHANGED packets    \* qdisc_drop: no GSO, or it failed
    /\ run' = TRUE
    /\ res' = 0
    /\ UNCHANGED <<params, buckets, timer, last, history>>

tbf_peak_present == par.peak # 0

\* The two buckets after they sent len bytes now; negative: not enough tokens.
Cost(len)  == psched_l2t_ns(par.rate, len)
PCost(len) == IF tbf_peak_present THEN psched_l2t_ns(par.peak, len) ELSE 0

Earned == MinOf(age, par.buffer)

Toks(len)  == MinOf(Earned + tokens, par.buffer) - Cost(len)
\* Mutant: the peak bucket has no depth.
PToksUnbounded(len) ==
    IF tbf_peak_present THEN Earned + ptokens - PCost(len) ELSE 0
PToks(len) == IF tbf_peak_present
              THEN MinOf(Earned + ptokens, par.mtu) - PCost(len)
              ELSE 0

\* Mutant: only the first bucket is asked.
ConformingRate(len) == Toks(len) >= 0

Conforming(len) == Toks(len) >= 0 /\ PToks(len) >= 0

\* Mutant: the time of the bucket that lacks less.
ShortageLess(len) == MinOf(-Toks(len), -PToks(len))

\* Time until the bucket that lacks more has enough.
Shortage(len) == MaxOf(-Toks(len), -PToks(len))

\* The watchdog is not armed again for the time it was last armed for.
qdisc_watchdog_schedule_ns(expires) ==
    IF last = expires THEN UNCHANGED <<timer, last>>
    ELSE timer' = expires /\ last' = expires

DequeueEmpty ==
    /\ queue = <<>>
    /\ run' = FALSE
    /\ res' = 0
    /\ UNCHANGED <<buckets, packets, timer, last, history>>

DequeueSend ==
    LET len == Head(queue)
    IN /\ queue # <<>>
       /\ Conforming(len)
       /\ age' = 0
       /\ tokens' = Toks(len)
       /\ ptokens' = PToks(len)
       /\ queue' = Tail(queue)
       /\ ibacklog' = (ibacklog - len) % U32
       /\ backlog' = (backlog - len) % U32
       /\ qlen' = qlen - 1
       /\ res' = len
       /\ excess' = excess + Cost(len)
       /\ pexcess' = pexcess + PCost(len)
       /\ UNCHANGED <<wakeup, depth, pdepth>>

DequeueThrottle ==
    /\ queue # <<>>
    /\ ~Conforming(Head(queue))
    /\ qdisc_watchdog_schedule_ns(Shortage(Head(queue)))
    /\ run' = FALSE
    /\ res' = 0
    /\ UNCHANGED <<buckets, packets, history>>

\* tbf_dequeue, called by qdisc_run until it returns no packet.
tbf_dequeue ==
    /\ state = "up" /\ run
    /\ DequeueEmpty \/ DequeueSend \/ DequeueThrottle
    /\ UNCHANGED params
-----------------------------------------------------------------------------
(***************************************************************************)
(* The clock, the watchdog timer and the device.                           *)
(***************************************************************************)
\* One unit of time.  A timer that is due may fire late.
Tick ==
    /\ state # "none"
    /\ age' = MinOf(age + 1, TimeCap)
    /\ timer' = IF timer > 0 THEN timer - 1 ELSE timer
    /\ last' = MaxOf(last - 1, 0)
    /\ excess' = MaxOf(excess - 1, 0)
    /\ pexcess' = MaxOf(pexcess - 1, 0)
    /\ res' = 0
    /\ UNCHANGED <<params, tokens, ptokens, packets, run, depth, pdepth>>

\* The timer callback schedules the qdisc and does not restart the timer.
qdisc_watchdog ==
    /\ timer = 0
    /\ timer' = Absent
    /\ run' = TRUE
    /\ res' = 0
    /\ UNCHANGED <<params, buckets, packets, last, history>>

\* The driver wakes the transmit queue.  It takes every packet that it is handed:
\* one that it gives back (dev_requeue_skb) is not modelled.
netif_wake_queue ==
    /\ state = "up"
    /\ run' = TRUE
    /\ res' = 0
    /\ UNCHANGED <<params, buckets, packets, timer, last, history>>

\* tbf_reset: the inner qdisc is emptied, the buckets are filled, the watchdog
\* is cancelled; last_expires is not touched.
tbf_reset ==
    /\ queue' = <<>> /\ ibacklog' = 0 /\ backlog' = 0 /\ qlen' = 0
    /\ age' = 0 /\ tokens' = par.buffer /\ ptokens' = par.mtu
    /\ timer' = Absent
    /\ UNCHANGED last
    /\ excess' = 0 /\ pexcess' = 0
    /\ depth' = par.buffer /\ pdepth' = par.mtu

\* The link goes down: the device uses noop_qdisc and tbf is reset.
dev_deactivate ==
    /\ state = "up"
    /\ pend = {}
    /\ state' = "down"
    /\ tbf_reset
    /\ run' = FALSE
    /\ res' = 0
    /\ UNCHANGED <<par, inner, pend>>

dev_activate ==
    /\ state = "down"
    /\ pend = {}
    /\ state' = "up"
    /\ res' = 0
    /\ UNCHANGED <<par, inner, pend, buckets, packets, wakeup, history>>
-----------------------------------------------------------------------------
(***************************************************************************)
(* The control path.                                                       *)
(***************************************************************************)
\* Mutant: a smaller limit is not passed on.
SetLimitGrow(limit) ==
    inner' = IF inner.kind = "noop" THEN inner
             ELSE [inner EXCEPT !.limit = MaxOf(limit, inner.limit)]

\* Pass the limit on to an inner bfifo or pfifo.
fifo_set_limit(limit) ==
    inner' = IF inner.kind = "noop" THEN inner
             ELSE [inner EXCEPT !.limit = limit]

\* tbf_change up to sch_tree_lock: the request is validated, then the limit of
\* an inner fifo is changed, or a default bfifo is created for a noop.
tbf_change(o) ==
    /\ state # "none"
    /\ pend = {}
    /\ IF Invalid(o) THEN res' = EINVAL /\ UNCHANGED <<pend, inner>>
       ELSE \/ /\ res' = 0
               /\ pend' = {[opt |-> o, child |-> inner.kind = "noop" /\ o.limit > 0]}
               /\ fifo_set_limit(o.limit)
            \/ /\ inner.kind # "noop" \/ o.limit > 0
               /\ res' = ENOMEM
               /\ UNCHANGED <<pend, inner>>
    /\ UNCHANGED <<state, par, buckets, packets, wakeup, history>>

\* Mutants: the lines this repository comments out, and a check-point that
\* forgets the time since the last packet.
RefillBuckets(o) ==
    tokens' = NewBuffer(o) /\ ptokens' = NewMtu(o) /\ UNCHANGED age
ForgetAge(o) == age' = 0 /\ UNCHANGED <<tokens, ptokens>>

\* The tokens and the check-point t_c stay as they are.
KeepBuckets(o) == UNCHANGED buckets

\* The rest of tbf_change, under sch_tree_lock.
tbf_change_locked ==
    \E req \in pend :
        /\ pend' = {}
        /\ inner' = IF req.child THEN bfifo(req.opt.limit) ELSE inner
        /\ par' = NewParams(req.opt)
        /\ depth' = MaxOf(depth, NewBuffer(req.opt))
        /\ pdepth' = MaxOf(pdepth, NewMtu(req.opt))
        /\ res' = 0
        /\ KeepBuckets(req.opt)
        /\ UNCHANGED <<state, packets, wakeup, excess, pexcess>>

\* Mutant: only the packets are subtracted.
GraftKeepsBytes(new) ==
    /\ state # "none"
    /\ pend = {}
    /\ inner' = new
    /\ qlen' = qlen - Len(queue)
    /\ queue' = <<>> /\ ibacklog' = 0
    /\ res' = 0
    /\ UNCHANGED <<state, par, pend, buckets, backlog, wakeup, history>>

\* tbf_graft: qdisc_replace flushes the old inner qdisc, whose packets and bytes
\* are subtracted from tbf's own counters.
tbf_graft(new) ==
    /\ state # "none"
    /\ pend = {}
    /\ inner' = new
    /\ qlen' = qlen - Len(queue)
    /\ backlog' = (backlog - ibacklog) % U32
    /\ queue' = <<>> /\ ibacklog' = 0
    /\ res' = 0
    /\ UNCHANGED <<state, par, pend, buckets, wakeup, history>>

\* tbf_dump brings the byte counter of tbf up to date.
tbf_dump ==
    /\ state # "none"
    /\ pend = {}
    /\ backlog' = ibacklog
    /\ res' = 0
    /\ UNCHANGED <<params, buckets, queue, ibacklog, qlen, wakeup, history>>
-----------------------------------------------------------------------------
PacketPath ==
    \/ \E p \in Skbs : tbf_enqueue(p)
    \/ tbf_dequeue
    \/ Tick
    \/ qdisc_watchdog
    \/ netif_wake_queue

Change ==
    \/ \E o \in Opts : tbf_change(o)
    \/ tbf_change_locked

Lifetime ==
    \/ \E o \in Opts : tbf_init(o)
    \/ tbf_destroy
    \/ \E new \in Inners : tbf_graft(new)
    \/ tbf_dump

Link == dev_deactivate \/ dev_activate

Next == PacketPath \/ Change \/ Lifetime \/ Link

Spec == Init /\ [][Next]_vars

\* The qdisc is created once and its parameters never change.
NextFixed == PacketPath \/ \E o \in Opts : tbf_init(o)
SpecFixed == Init /\ [][NextFixed]_vars

\* The link never goes down.
NextLinkUp == PacketPath \/ Change \/ Lifetime
SpecLinkUp == Init /\ [][NextLinkUp]_vars
-----------------------------------------------------------------------------
(***************************************************************************)
(* Correctness.                                                            *)
(***************************************************************************)
ParamType == [limit : Nat, max_size : Nat, buffer : Nat,
              mtu : Nat, rate : Nat, peak : Nat]

\* The variables of tbf_sched_data and of its two qdiscs keep their types; in
\* particular no bucket ever goes below zero.
TypeOK ==
    /\ state \in {"none", "up", "down"}
    /\ par \in ParamType
    /\ inner \in InnerType
    /\ pend \subseteq [opt : {o \in Opts : ~Invalid(o)}, child : BOOLEAN]
    /\ tokens \in Nat /\ ptokens \in Nat /\ age \in 0..TimeCap
    /\ queue \in Seq(Nat \ {0})
    /\ ibacklog \in 0..U32 - 1 /\ backlog \in 0..U32 - 1
    /\ qlen \in Nat
    /\ timer \in Nat \cup {Absent} /\ last \in Nat /\ run \in BOOLEAN
    /\ res \in Nat \cup {EINVAL, ENOMEM}
    /\ excess \in Nat /\ pexcess \in Nat /\ depth \in Nat /\ pdepth \in Nat

\* The rate bound of lines 41-45, in units of time, over any number of rate
\* changes: in no interval do the packets that tbf_dequeue returns take longer
\* to send, each at the rate in force when it left, than the interval lasts
\* plus the deepest bucket configured.  tbf_change must not hand out tokens.
RateConformance == excess <= depth

\* The same bound for the second bucket, of the peak rate (lines 62-65).
PeakConformance == pexcess <= pdepth

\* Every packet that tbf_enqueue admits fits in both buckets when they are full,
\* so that tbf_dequeue will not refuse it for ever: the max_size that tbf_change
\* computes agrees with buffer and mtu for each mix of attributes.
AdmittedFits ==
    state # "none" => /\ Cost(par.max_size) <= par.buffer
                      /\ PCost(par.max_size) <= par.mtu \/ ~tbf_peak_present

\* q.qlen of tbf is the number of packets in the inner qdisc, across
\* segmentation, graft and reset, with a driver that gives no packet back: one
\* that dev_requeue_skb holds counts for tbf and is not in the inner qdisc.
QlenExact == qlen = Len(queue)

\* A backlogged qdisc that nobody runs has its watchdog armed: tbf_dequeue that
\* throttles never leaves a packet behind without a wake-up (lines 78-79), also
\* when the early return of qdisc_watchdog_schedule_ns skips the timer and when
\* the rate changes in between.
NoLostWakeup ==
    state = "up" /\ queue # <<>> /\ ~run => timer # Absent

\* After d more units of time the first packet conforms.
ReadyAfter(d, len) ==
    LET earned == MinOf(age + d, par.buffer)
    IN /\ MinOf(earned + tokens, par.buffer) >= Cost(len)
       /\ tbf_peak_present => MinOf(earned + ptokens, par.mtu) >= PCost(len)

\* The watchdog fires no later than the first packet conforms to both buckets
\* (lines 78-79: it "will wake it up when it is ready to transmit").
WakesInTime ==
    state = "up" /\ queue # <<>> /\ ~run =>
        /\ timer # Absent
        /\ \A d \in 0..timer - 1 : ~ReadyAfter(d, Head(queue))

\* Full buckets could pay for the packet.
Payable(len) == Cost(len) <= par.buffer /\ (tbf_peak_present => PCost(len) <= par.mtu)

\* When tbf_dequeue throttles, the watchdog is set to the very moment at which
\* both buckets, as they are configured now, can pay for the first packet: not
\* later, and not in vain.
WakesWhenReady ==
    [][state = "up" /\ run /\ ~run' /\ timer' # Absent /\ queue' = queue /\ queue # <<>> =>
        LET len == Head(queue)
        IN Payable(len) => /\ ReadyAfter(timer', len)
                           /\ \A d \in 0..timer' - 1 : ~ReadyAfter(d, len)]_vars

\* tbf's own byte count stays within the limit it was given (line 103: "Maximal
\* length of backlog: bytes"); an unsigned count below zero does not.
BacklogWithinLimit == backlog <= par.limit

\* The byte count of tbf and that of the inner qdisc, kept by different functions,
\* drift apart only where tbf_segment does not count: every other step (drop,
\* dequeue, graft, change, reset) moves both by the same bytes or makes them equal.
\* The driver gives no packet back, which would count for tbf only.
BytesFollow ==
    [][\/ \E p \in Skbs : p.gso /\ tbf_enqueue(p)
       \/ backlog' = ibacklog'
       \/ (backlog' - ibacklog') % U32 = (backlog - ibacklog) % U32]_vars

\* The bytes of the packets in a queue.
Bytes(q) ==
    LET upto[n \in 0..Len(q)] == IF n = 0 THEN 0 ELSE upto[n - 1] + q[n]
    IN upto[Len(q)]

\* The inner qdisc's byte count, kept up to date packet by packet by enqueue,
\* segmentation, dequeue, graft and reset, is the sum of the lengths of the
\* packets in it, up to the width of the counter, which a bfifo cannot exceed;
\* and tbf's own count is the same as long as no packet has to be segmented and
\* the driver gives none back.
BacklogExact ==
    /\ ibacklog = Bytes(queue) % U32
    /\ inner.kind # "pfifo" => ibacklog = Bytes(queue)
    /\ (\A p \in Skbs : ~p.gso) => backlog = ibacklog

\* Once tbf_change is done, the limit that tbf_dump reports is the one the
\* default bfifo enforces: the part before the lock and the part under it agree.
LimitInForce ==
    pend = {} /\ inner.kind = "bfifo" => inner.limit = par.limit

\* A backlogged qdisc sends a packet or is emptied, even if tbf_change is called
\* again and again between any two attempts of tbf_dequeue.
Progress == (queue # <<>>) ~> (res > 0 \/ queue = <<>>)
=============================================================================
