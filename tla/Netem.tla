------------------------------- MODULE Netem -------------------------------
(***************************************************************************)
(* The network emulator of src/net/sched/sch_netem.c, as the programs of   *)
(* src/tbf configure it: they set limit, latency and rate and leave every  *)
(* other field of the request zero, so that loss, duplication, corruption, *)
(* jitter, reordering gaps and slots never act and the queue of sch->q     *)
(* itself stays empty; no child qdisc is grafted.                          *)
(*                                                                         *)
(* Packets wait in the tfifo: a linked list, and a red-black tree (RbTree) *)
(* for those that must leave before the last one of the list.              *)
(*                                                                         *)
(* The packet path runs under the root lock.  netem_change does not take   *)
(* it: while a change is under way, netem_enqueue on another processor     *)
(* reads of each field the value before or after the store.  The driver    *)
(* takes every packet that it is handed.                                   *)
(***************************************************************************)
EXTENDS Psched, Sequences, FiniteSets

CONSTANTS
    Plans,          \* sets of requests: each program sends those of one
    Lengths,        \* lengths of the packets
    MaxPackets,     \* bound of the arrival numbers
    MaxTime         \* no packet arrives later

\* An attribute that a request does not carry; a timer that is not armed.
Absent == -1

\* limit and latency are those of tc_netem_qopt; TCA_NETEM_RATE holds 32 bits
\* and TCA_NETEM_RATE64 is sent with a greater rate.
ReqType == [limit : Nat, latency : Nat,
            rate : Nat \cup {Absent}, rate64 : Nat \cup {Absent}]

\* TCA_NETEM_RATE64 is sent only with TCA_NETEM_RATE.  A rate may be zero: the
\* programs turn bits into bytes, and nobody refuses what that leaves of fewer
\* than eight.
ASSUME NetemAssumption ==
    /\ \A p \in Plans :
        /\ p \subseteq ReqType
        /\ \A o \in p : o.rate = Absent => o.rate64 = Absent
    /\ Lengths \subseteq Nat \ {0}
    /\ MaxPackets \in Nat /\ MaxTime \in Nat

VARIABLES
    plan,       \* the requests of the program at work
    state,      \* "none", "up", "down", or "trapped": a division by zero
    par,        \* limit, latency (ns) and rate of netem_sched_data
    pend,       \* {} or the request that netem_change is storing
    list,       \* t_head .. t_tail
    tree,       \* t_root
    qlen,       \* q.qlen
    now,        \* ktime_get_ns()
    next,       \* arrival number of the next packet
    timer,      \* when the watchdog expires, or Absent
    last,       \* watchdog.last_expires
    run         \* a qdisc_run is under way or scheduled

\* History.
VARIABLES
    accepted,   \* packets taken since creation or reset
    stale       \* the timer that last belongs to was cancelled

config  == <<plan, state, par, pend>>
tfifo   == <<list, tree, qlen>>
arrived == <<next, accepted>>
wakeup  == <<timer, last, run, stale>>
vars    == <<config, tfifo, now, arrived, wakeup>>

NoParams == [limit |-> 0, latency |-> 0, rate |-> 0]

Init ==
    /\ plan \in Plans /\ state = "none" /\ par = NoParams /\ pend = {}
    /\ list = <<>> /\ tree = {} /\ qlen = 0
    /\ now = 1 /\ next = 1 /\ accepted = {}
    /\ timer = Absent /\ last = 0 /\ run = FALSE /\ stale = FALSE
-----------------------------------------------------------------------------
(***************************************************************************)
(* The control path, serialised by RTNL.                                   *)
(***************************************************************************)
\* Mutant: the attribute is read although it is not there.
FinalRateUnchecked(o) == MaxOf(o.rate, o.rate64)

\* q->rate after TCA_NETEM_RATE64; Absent is less than every rate.
FinalRate(o) == IF o.rate = Absent THEN par.rate ELSE MaxOf(o.rate, o.rate64)

Stored(o) == [limit |-> o.limit, latency |-> PSCHED_TICKS2NS(o.latency),
              rate |-> FinalRate(o)]

\* On a zeroed qdisc that the packet path does not see yet.
netem_init(o) ==
    /\ state = "none"
    /\ state' = "up"
    /\ par' = Stored(o)
    /\ UNCHANGED <<plan, pend, tfifo, now, arrived, wakeup>>

\* From the first store to the last.
netem_change(o) ==
    /\ state \in {"up", "down"} /\ pend = {}
    /\ pend' = {o}
    /\ UNCHANGED <<plan, state, par, tfifo, now, arrived, wakeup>>

netem_change_returns ==
    /\ state \in {"up", "down"}
    /\ \E o \in pend : par' = Stored(o)
    /\ pend' = {}
    /\ UNCHANGED <<plan, state, tfifo, now, arrived, wakeup>>

\* Both lists are freed and the timer is cancelled; last_expires stays.
netem_reset ==
    /\ list' = <<>> /\ tree' = {} /\ qlen' = 0
    /\ timer' = Absent /\ stale' = (stale \/ timer # Absent)
    /\ accepted' = {}

\* The link goes down: the device uses noop_qdisc and netem is reset.
dev_deactivate ==
    /\ state = "up" /\ pend = {}
    /\ state' = "down" /\ run' = FALSE
    /\ netem_reset
    /\ UNCHANGED <<plan, par, pend, now, next, last>>

dev_activate ==
    /\ state = "down" /\ pend = {}
    /\ state' = "up"
    /\ UNCHANGED <<plan, par, pend, tfifo, now, arrived, wakeup>>

\* qdisc_destroy resets the qdisc first; the next one starts zeroed.
netem_destroy ==
    /\ state \in {"up", "down"} /\ pend = {}
    /\ state' = "none" /\ par' = NoParams
    /\ list' = <<>> /\ tree' = {} /\ qlen' = 0 /\ accepted' = {}
    /\ timer' = Absent /\ last' = 0 /\ run' = FALSE /\ stale' = FALSE
    /\ UNCHANGED <<plan, pend, now, next>>
-----------------------------------------------------------------------------
(***************************************************************************)
(* The packet path.                                                        *)
(***************************************************************************)
\* What netem_enqueue may read during a change.
Limits == {par.limit} \cup {o.limit : o \in pend}

Latencies == {par.latency} \cup {PSCHED_TICKS2NS(o.latency) : o \in pend}

\* Mutant: the rate is cleared before the attributes are looked at.
RateReadsCleared ==
    {<<par.rate, par.rate>>} \cup
    UNION {{par.rate, FinalRate(o)} \X {0, FinalRate(o)} : o \in pend}

\* q->rate is read twice, to see whether there is one and to divide by it;
\* get_rate and then TCA_NETEM_RATE64 store it.
RateReads ==
    {<<par.rate, par.rate>>} \cup
    UNION {{<<par.rate, o.rate>>, <<par.rate, FinalRate(o)>>, <<o.rate, o.rate>>,
            <<o.rate, FinalRate(o)>>, <<FinalRate(o), FinalRate(o)>>} :
           o \in {req \in pend : req.rate # Absent}}

packet_time_ns(len, rate) == (len * NSEC_PER_SEC) \div rate

t_tail == list[Len(list)]

\* Departures of the packets that may be the last to leave.
Departures == {p.time : p \in tree} \cup
              (IF list = <<>> THEN {} ELSE {t_tail.time})

\* Mutant: the time bonus of an idle queue is not taken off.
RatedTimeNoFloor(latency, cost) ==
    IF Departures = {} THEN now + latency + cost
    ELSE LET final == CHOOSE t \in Departures : \A u \in Departures : u <= t
         IN final + latency - (final - now) + cost

\* time_to_send with a rate: the transmission starts when the last packet in
\* the queue has left, and the time until then counts as delay.
RatedTime(latency, cost) ==
    IF Departures = {} THEN now + latency + cost
    ELSE LET final == CHOOSE t \in Departures : \A u \in Departures : u <= t
         IN final + MaxOf(0, latency - (final - now)) + cost

tfifo_enqueue(p) ==
    /\ IF list = <<>> \/ p.time >= t_tail.time
       THEN list' = Append(list, p) /\ UNCHANGED tree
       ELSE tree' = tree \cup {p} /\ UNCHANGED list
    /\ qlen' = qlen + 1

Taken(p) ==
    /\ tfifo_enqueue(p)
    /\ next' = next + 1
    /\ accepted' = accepted \cup {p}

\* A rate that is zero when packet_time_ns divides by it stops the machine.
DivideError(rates) ==
    /\ rates[1] # 0 /\ rates[2] = 0
    /\ state' = "trapped"
    /\ UNCHANGED <<tfifo, arrived>>

\* The packet gets its time_to_send.
Stamped(len, latency, rates) ==
    LET rated == rates[1] # 0
        cost == IF rated THEN packet_time_ns(len, rates[2]) ELSE 0
        time == IF rated THEN RatedTime(latency, cost) ELSE now + latency
    IN /\ rated => rates[2] # 0
       /\ Taken([n |-> next, time |-> time, rated |-> rated, cost |-> cost])
       /\ UNCHANGED state

\* netem_enqueue, called by __dev_xmit_skb, which runs the qdisc afterwards.
netem_enqueue(len) ==
    /\ state = "up" /\ next <= MaxPackets /\ now <= MaxTime
    /\ \E limit \in Limits :
        \/ qlen >= limit /\ UNCHANGED <<state, tfifo, arrived>>
        \/ /\ qlen < limit
           /\ \E latency \in Latencies, rates \in RateReads :
                  DivideError(rates) \/ Stamped(len, latency, rates)
    /\ run' = TRUE
    /\ UNCHANGED <<plan, par, pend, now, timer, last, stale>>

Waiting == {list[i] : i \in DOMAIN list} \cup tree

\* Mutant: the list goes first.
PeekListFirst(p) ==
    \/ list # <<>> /\ p = Head(list)
    \/ list = <<>> /\ p \in tree /\ \A q \in tree : p.time <= q.time

\* The packets that are first in the order of the tree, where a packet goes to
\* the right of those with an equal time.
rb_first == {p \in tree : \A q \in tree \ {p} :
                 p.time < q.time \/ (p.time = q.time /\ p.n < q.n)}

\* p is the packet netem_peek returns.
netem_peek(p) ==
    \/ /\ p \in rb_first
       /\ list # <<>> => p.time < Head(list).time
    \/ /\ list # <<>> /\ p = Head(list)
       /\ \A q \in tree : Head(list).time <= q.time

netem_erase_head(p) ==
    IF list # <<>> /\ p = Head(list)
    THEN list' = Tail(list) /\ UNCHANGED tree
    ELSE tree' = tree \ {p} /\ UNCHANGED list

\* Mutant: an armed timer is left alone.
ScheduleIfIdle(expires) ==
    IF timer # Absent THEN UNCHANGED <<timer, last, stale>>
    ELSE timer' = expires /\ last' = expires /\ stale' = FALSE

\* The watchdog is not armed again for the time it was last armed for.
qdisc_watchdog_schedule_ns(expires) ==
    IF last = expires THEN UNCHANGED <<timer, last, stale>>
    ELSE timer' = expires /\ last' = expires /\ stale' = FALSE

DequeueEmpty ==
    /\ Waiting = {}
    /\ run' = FALSE
    /\ UNCHANGED <<tfifo, timer, last, stale>>

\* Mutants: a packet of the tree is not counted off, and one that is handed out
\* is not taken off the queue.
DeliverListCounts(p) ==
    /\ p.time <= now
    /\ netem_erase_head(p)
    /\ qlen' = qlen - (IF p \in tree THEN 0 ELSE 1)
    /\ UNCHANGED wakeup
DeliverPeeks(p) == p.time <= now /\ UNCHANGED <<tfifo, wakeup>>

Deliver(p) ==
    /\ p.time <= now
    /\ netem_erase_head(p)
    /\ qlen' = qlen - 1
    /\ UNCHANGED wakeup

Throttle(p) ==
    /\ p.time > now
    /\ qdisc_watchdog_schedule_ns(p.time)
    /\ run' = FALSE
    /\ UNCHANGED tfifo

\* netem_dequeue, called by qdisc_run until it returns no packet.
netem_dequeue ==
    /\ state = "up" /\ run
    /\ \/ DequeueEmpty
       \/ \E p \in Waiting : netem_peek(p) /\ (Deliver(p) \/ Throttle(p))
    /\ UNCHANGED <<config, now, arrived>>

\* The timer callback schedules the qdisc and does not restart the timer.
qdisc_watchdog ==
    /\ timer # Absent /\ timer <= now
    /\ timer' = Absent
    /\ run' = TRUE
    /\ UNCHANGED <<config, tfifo, now, arrived, last, stale>>

\* The clock is not followed past MaxTime once every packet is due.
Tick ==
    /\ now < MaxTime \/ \E p \in Waiting : now < p.time
    /\ now' = now + 1
    /\ UNCHANGED <<config, tfifo, arrived, wakeup>>
-----------------------------------------------------------------------------
PacketPath ==
    \/ \E len \in Lengths : netem_enqueue(len)
    \/ netem_dequeue
    \/ qdisc_watchdog
    \/ Tick

ControlPath ==
    \/ \E o \in plan : netem_init(o) \/ netem_change(o)
    \/ netem_change_returns
    \/ dev_deactivate
    \/ dev_activate
    \/ netem_destroy

Next == PacketPath \/ ControlPath

Spec == Init /\ [][Next]_vars

\* The clock, the timer and the packet path keep running.
Fairness ==
    /\ WF_vars(Tick)
    /\ WF_vars(qdisc_watchdog)
    /\ WF_vars(netem_dequeue)

FairSpec == Spec /\ Fairness
-----------------------------------------------------------------------------
(***************************************************************************)
(* Correctness.                                                            *)
(***************************************************************************)
PacketType == [n : Nat, time : Nat, rated : BOOLEAN, cost : Nat]

TypeOK ==
    /\ plan \in Plans /\ state \in {"none", "up", "down", "trapped"}
    /\ par \in [limit : Nat, latency : Nat, rate : Nat]
    /\ pend \subseteq plan
    /\ list \in Seq(PacketType) /\ tree \subseteq PacketType /\ qlen \in Nat
    /\ now \in Nat /\ next \in Nat /\ accepted \subseteq PacketType
    /\ timer \in Nat \cup {Absent} /\ last \in Nat
    /\ run \in BOOLEAN /\ stale \in BOOLEAN

\* Although a packet waits in one of two structures, and the delay may change
\* between any two of them, netem_dequeue hands out the packets of tfifo_enqueue
\* in the order of their times, and those with equal times in the order they
\* came: netem implements DelayQueue.
Delay == INSTANCE DelayQueue WITH waiting <- Waiting
EarliestFirst == Delay!Spec

\* q.qlen, which netem_enqueue compares with the limit and both sides of the
\* tfifo share, is the number of packets that wait, with a driver that gives none
\* back (dev_requeue_skb counts it again).
QlenExact == qlen = Len(list) + Cardinality(tree)

\* A packet that netem_enqueue sends at a rate leaves its transmission time
\* after every packet that came before it, queued or gone, whatever latency,
\* rate or torn mix of two requests each was given: a rate keeps the order.
RatedSpacing ==
    \A p, q \in accepted :
        q.rated /\ p.n < q.n => p.time + q.cost <= q.time

\* When netem_dequeue has left its packets behind, the watchdog is armed for the
\* first of them, except that qdisc_watchdog_schedule_ns takes the time of a
\* timer that netem_reset cancelled for armed.
WakesInTime ==
    state = "up" /\ ~run =>
        \A p \in Waiting : netem_peek(p) =>
            \/ timer = p.time
            \/ stale /\ last = p.time

\* packet_time_ns divides by q->rate, which netem_change may store between the
\* test and the division.  It meets a zero only while a request with rate zero
\* replaces a rate: a rate of zero that is in force, and every mix of the stores
\* of get_rate and TCA_NETEM_RATE64 of other requests, are harmless.
TrapsOnlyAtZero ==
    state = "trapped" => par.rate # 0 /\ \E o \in pend : o.rate = 0

\* Every packet that waits leaves in the end, or is discarded with the queue,
\* unless a reset left last_expires behind or the machine stopped.
Drains ==
    \A k \in 1..MaxPackets :
        (\E p \in Waiting : p.n = k) ~>
            (stale \/ state = "trapped" \/ ~\E p \in Waiting : p.n = k)
=============================================================================
