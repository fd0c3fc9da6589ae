# Verification of dynbandwidth

dynbandwidth changes the bandwidth of a network link many times a second. It
consists of a modified token bucket filter for the Linux kernel
(`src/sch_tbf.c`), of programs that send it a new rate over netlink at regular
intervals (`src/tbf/`), and of tools that count and undo the reordering of
packets (`src/reordering_buffer/`). `src/net` and `src/iproute2-master` are
copies of the kernel's and of iproute2's sources that the project builds with.

Modelled are the token bucket filter with everything of the kernel that it
needs, the programs that drive it with their netlink exchange, a program and the
filter together, the delay emulator netem as these programs use it, the two TCP
reorder counters and the red-black tree below one of them.

## Inventory

| Part | State | Operations | What is hard about it |
|---|---|---|---|
| tbf qdisc, `sch_tbf.c` | parameters, two buckets, check-point `t_c`, inner qdisc, counters, watchdog | init, change, enqueue (with segmentation), dequeue, reset, graft, dump, destroy | parameters change under a running queue; tokens, expiry and admitted packets of the old parameters live on |
| Control programs, `tbf/*.c` | plan of rates and delays, its index, two to four qdiscs | set up with `tc`, loop: one request per qdisc, sleep | one of several requests fails; a kill between two of them; results of `tc` are ignored |
| `rtnl_talk`, `tbf/libnetlink.c` | sequence number, socket | send a request, wait for its acknowledgement | lost, interrupted, truncated and foreign answers |
| netem qdisc, `net/sched/sch_netem.c` | list and tree by time of departure, watchdog | enqueue, dequeue, change, reset | two structures to merge; changes without the lock of the packet path |
| TCP reorder counter, `tcp_reordercounter.c` | flow buffers, count | packet, signal | duplicates, reordering, wrap of the numbers, several flows |
| Resequencing counter, `reorder_counter.c` | flow buffers with entries, count | packet, signal | the same, and a buffer of bounded size |
| IP counter, `ip_reordercounter.c` | as above, for IP identifications | packet, signal | 16-bit numbers; not built, not modelled |
| netfilter resequencer, `nfqueue.c` | as above, with a timeout | packet, timer | unreachable behind an early return at line 104; not modelled |

How they meet: a control program sends `TCA_OPTIONS` through `rtnl_talk`; the
kernel calls `tbf_change` or `netem_change`, which run concurrently with the
packet path of the same qdisc. netem sits beside or below tbf. The counters only
watch the traffic.

| Module | Models | Instance | Proofs |
|---|---|---|---|
| `Psched` | lengths, times and ticks | | |
| `Tbf` | `sch_tbf.c` with fifo, watchdog and device | `MCTbf` | `TbfProofs` |
| `Controller`, `ControlPrograms` | the five programs of `src/tbf/Makefile`, `rtnl_talk`, `tc_modify_qdisc` | `MCController` | `ControllerProofs` |
| `Shaper` | a control program together with `Tbf` | `MCShaper` | `ShaperProofs` |
| `Netem`, implements `DelayQueue` | `sch_netem.c` | `MCNetem` | `NetemProofs` |
| `SeqSpace` | sequence numbers that wrap | | `SeqSpaceProofs` |
| `TcpCounter`, implements `ReorderMetric` | `tcp_reordercounter.c`; `TcpCounterLog` adds a log of arrivals | `MCTcpCounter` | `TcpCounterProofs` |
| `Resequencer` | `reorder_counter.c`; `ResequencerGaps` adds a log of arrivals | `MCResequencer` | `ResequencerProofs` |
| `RbTree` | `rbtree.c` | `MCRbTree` | |
| `Induction` | lemmas on the naturals that the proofs about loops and sums use | | |

## The token bucket filter

`Psched` has the conversions between lengths and times, `Tbf` the qdisc.

| State of `Tbf` | In the code |
|---|---|
| `par` | `limit`, `max_size`, `buffer`, `mtu`, `rate`, `peak` of `tbf_sched_data` |
| `tokens`, `ptokens` | the fields of these names |
| `age` | `now - t_c`, bounded by `TimeCap` |
| `inner`, `queue`, `ibacklog` | kind and limit of the inner qdisc, its packets, its `qstats.backlog` |
| `backlog`, `qlen` | `qstats.backlog` and `q.qlen` of tbf |
| `timer`, `last` | time left on the watchdog's hrtimer; `last_expires - now` |
| `run` | the root qdisc is running or scheduled |
| `pend` | a `tbf_change` that is past its checks and not yet under `sch_tree_lock` |
| `state` | no qdisc, active, or `__QDISC_STATE_DEACTIVATED` |
| `excess`, `depth` (and `p...`) | history: how far the traffic is ahead; the deepest bucket |

Each action carries the name of the function it models. Two points need a word:

- **Time is relative.** The clock is not bounded, so no variable holds it.
  `Tick` makes `age` older and brings `timer` and `last` nearer. The code only
  reads `min(now - t_c, buffer)`, so `age` may stop at any `TimeCap` that is at
  least every bucket depth (`TimeCapAssumption`). An expiry that is compared
  with `last_expires` lies in the future, so `last` may stop at 0. A timer that
  is due may fire late.
- **`tbf_change` is two actions**, because the code is: validation and the new
  limit of the inner fifo come before `sch_tree_lock`, the parameters under it.
  The packet path may run in between; other requests may not (RTNL). All other
  functions run under one lock and are one action each.

Allocation failures (`ENOMEM`) and refused requests (`EINVAL`) are modelled with
what they leave behind. The kernel's reciprocal division (`mult`, `shift`) is
modelled as the division it approximates; `overhead` and ATM cells are left out,
because the programs of the repository use neither. At rate zero, which the programs
send for a bandwidth of less than 8 bits, the reciprocal is one and tbf lets a byte pass
per nanosecond. A peak rate comes with a rate (`TbfAssumption`): the programs set no peak
rate, and `tc` insists on a rate (`iproute2-master/tc/q_tbf.c:186`).

### Runs

All use `NSEC_PER_SEC = 2`: a byte costs 2 units of time at rate 1, 1 unit at
rate 2 (and at rate 0) and, rounded down, half a unit at rate 4, so rounding takes place.
Bursts of two or three bytes with packets of one to four make a bucket that holds
one or two packets, limits of three to five bytes a queue that overflows.

| Run | Checks | Shows |
|---|---|---|
| `rates` | `TypeOK`, `RateConformance`, `PeakConformance`, `AdmittedFits`, `QlenExact`, `BacklogExact`, `WakesWhenReady`, `BytesFollow` | rate and peak bounds under every order of changes, link events, failures, grafts and removal; whatever is admitted can be paid for; the packet count and the inner byte count are right with segmentation, and tbf's own byte count drifts only there; the watchdog is set to the first moment at which the packet conforms |
| `latewake`, `lostwake`, `gsobacklog` | one property each | disagreements with comments of the code, see *Findings* |

`RateConformance` is the bound of the comment at the head of `sch_tbf.c`, made
to hold across rate changes: in no interval do the packets sent, each charged at
the rate in force when it left, take longer than the interval plus the deepest
bucket since creation or reset. This is what this repository's change to tbf
(tokens survive `tbf_change`) must not break. `excess` is the greatest such
surplus over all intervals that end now, computed as one goes (a packet adds
its cost, a tick takes one off, never below zero).

Bounds of `rates`: a byte counter of 3 bits (`U32 = 8`), which wraps; `TimeCap = 4`,
the deepest bucket; a plain packet and a GSO packet of two full segments and a
shorter one; option blocks with and without peak rate, with bursts in bytes and
in ticks, and three that are refused; grafts of a pfifo. `latewake` and `lostwake`
need two rates and plain packets only; `gsobacklog` neither grafts nor changes.

## The control programs

The five programs are one loop over different lists of requests. `Controller` has
the loop, with a program as a record (plan, tc commands, requests of a round);
`ControlPrograms` has the records `tbf`, `netem`, `tn`, `ti` and `te`, named after
the executables.

| State of `Controller` | In the code |
|---|---|
| `program`, `pc`, `index`, `step` | the executable, where it is, the entry of the plan, the request of the round |
| `seq`, `socket` | `rth.seq`, the messages that wait to be received |
| `devices`, `qdiscs` | what the kernel has: for root and child of each device no qdisc or one with kind, handle, rate and latency |
| `warm`, `starts` | history: a round was finished; processes so far |

- `Setup` is the `tc` commands, of which any may fail, because the programs ignore
  the results, and `rtnl_open`, which takes the first sequence number from the clock.
- `Send` is `sendmsg`. The kernel handles the request inside of it, so `tc_modify_qdisc`
  and its answer are part of the action. The kernel may also refuse.
- `Skip` and `Talked` are the loop over received messages: `Accepts` is the condition
  at `libnetlink.c:927-929`, with the subtraction `seq - iovlen` in 64 bits.
- `Kill`, `Restart`, `Intrude` and `Remove` are the environment: a signal at any step,
  another process over the qdiscs that are left, foreign messages, removed qdiscs and
  devices.

The run `control` checks:

| Property | Says |
|---|---|
| `InStep` | while a program sleeps, every qdisc it controls that still exists has the rate of the present entry to the byte, also beyond 32 bits, and its delay to the tick |
| `Adjacent` | at any moment, also after an error or a signal between two requests, qdiscs are at most one entry apart, in the order of the requests |
| `AnswersCurrent` | the tolerance of `rtnl_talk` for the number before its own is never used |
| `WaitsForAnswer` | `rtnl_talk`, which has no timeout, waits on a socket without its answer only after the counter has wrapped to zero |
| `RoundEnds` | a round that starts ends in the sleep, the end of the program, or that wrap |

The exception in the last two is real: with `seq = 0` the lower bound is 2^64 - 1 and
the program's own answer is skipped. It takes 2^32 requests less the seconds
since 1970, from which the counter starts, and no text of the repository promises otherwise, so it is no finding.

Bounds: 32 bits are modelled by `U32 = 14`, which two of the rates exceed; a plan of
three entries, so that "the entry before" and "the entry after" differ; two
processes, so that a program meets what another left; one foreign message at a time; a
clock that starts at 0, from which the counter wraps within the run. Deadlock is not
checked, because the last process may end. **Fairness**: weak fairness of the
steps of a running process (`Advance`, `Send`, `Skip`, `Talked`), which the scheduler
gives it; waking from the sleep, errors and signals are not assumed.

## A program and its filter

`Shaper` composes a control program with `Tbf`: `tc` adds the qdisc, each `Round`
calls `tbf_change` with the next entry, packets pass meanwhile, and the program may
be stopped and started again at any point. Then `tc` removes the qdisc first, or fails
to, and the rounds go on with the old one and what is queued in it.

The run `shaper` checks `HeadFits` (no packet in the queue is too long for the bucket
of the request in force, although it may have been let in under another one),
`NoLostWakeup`, `LimitInForce`, `BacklogExact` and `Progress` (a backlogged qdisc
sends or is emptied although every round changes the rate). tbf by itself promises
neither the first nor the last: a request with a smaller burst strands the packet at
the head. The programs keep it because every round asks for the same burst, 50000
bytes, and `tc` before them for less, 48750 (`ShaperAssumption`).

Bounds: `tc` asks for a fast rate, burst 2 and limit 5, the rounds for two slower
rates, one of them sent as zero, burst 3 and limit 4; packets of one to three bytes; `TimeCap = 6`, the deepest
bucket. **Fairness**: weak fairness of the clock, of an expired timer, of a scheduled
qdisc and of a `tbf_change` that waits for the lock. The kernel's timers and softirqs
and its fair lock give these. Nobody is assumed to send packets or requests or to
wake the queue. The link stays up in this run, because of `lostwake`; the proofs of
`HeadFits`, `LimitInForce` and `BacklogExact` include link events.

## The delay emulator

`Netem` models `sch_netem.c` as far as the programs use it: they set limit, latency and
rate. A packet gets `time_to_send` when it arrives and waits in a list, or, if it
must leave before the tail of the list, in a tree. `list`, `tree`, `qlen`, `timer`
and `last` are the fields of the code; `now` is the clock, absolute here because
`time_to_send` is compared with it; `stale` remembers that a reset cancelled
the timer whose expiry `last_expires` still holds.

`netem_change` does not take the root lock, unlike `tbf_change`. It is therefore two
actions, and between them `netem_enqueue` reads of each field the value before or
after the store, of the rate twice (`RateReads`): to test it and to divide by it.
A request may carry rate zero: the programs shift a bandwidth in bits right by three and
send what is left (`netem.c:91`, `149-156`), and `get_rate` stores it unseen. If that happens
between the test and the division, the machine stops (`state = "trapped"`).

`DelayQueue` is what netem promises: packets leave when due, the earliest first,
those with equal times in the order they came. `EarliestFirst` says that `Netem`
implements it, `waiting` being the packets of list and tree.

The run `netem` checks this, `QlenExact`, `RatedSpacing` (a rated packet leaves its
transmission time after all before it, whatever mix of two requests it saw),
`WakesInTime` (the watchdog is armed for the first packet), `TrapsOnlyAtZero` (the
division meets a zero only while a request with rate zero replaces a rate; no other mix of
stores, and no rate of zero that is already in force, makes it do so) and `Drains` (every
packet leaves or is discarded, unless the machine stopped). `WakesInTime` and `Drains`
exclude the case `stale`, which is finding `lostwake` again, in the same function. The
division by zero is reached in this run (`DivideError`), see *Findings*; because the
machine then stops, the run does not check for deadlock.

Bounds: a program that sets rates, one of them beyond the 32 bits (`U32 = 3`), one that
goes from a rate to zero and back, and one that sets delays, with limits between 2 and
4; three packets, which is two in one
structure and one in the other, in both ways; arrivals until time 3, then the clock
runs until every packet is due. **Fairness**: clock, expired timer and scheduled
qdisc, as above.

## The reorder counters

`SeqSpace` has the arithmetic of 32-bit sequence numbers and `before`.
`Half` stands for 2^31; the proofs hold for every value, the runs use 8 or 16.

`TcpCounter` models `tcp_reordercounter.c`: `expected_next` maps each flow
buffer (a pair of ports) to what it expects, `rc_handle_packet` handles one
packet, `catch_function` is the signal that writes the count and ends the
program. The network is any sequence of packets out of a set, which covers loss,
duplication and reordering. `ReorderMetric` is what the counter promises: the
same decision over positions that are natural numbers and never wrap.
`CountsReordering` says that the counter implements it, position being the
difference to the initial sequence number modulo the sequence space. The packet
received is part of the mapping: the metric may not explain a step by another packet,
without which a counter that mixes up two flows could pass.

`Resequencer` models `reorder_counter.c`: a flow buffer has `expected_next`,
`size` and `root`, the set of its entries (in the code a red-black tree ordered
by `before`). The three branches of `rc_handle_packet` are `InOrder` with the
loop that releases what is due, `Store`, and `Full`. The signal handler only
prints the count and exits, and is left out.

| Run | Checks | Shows |
|---|---|---|
| `tcpcount` | `TypeOK`, `CountExact`, `CountsReordering` | two connections that share a source port and wrap at different places: the count is the metric's, and also the number of packets overtaken, read off a log of arrivals |
| `reseq` | `TypeOK`, `SizeExact`, `NothingDueWaits`, `GapExact` | two flows, a SYN, a larger retransmission, a buffer of four: size is right and bounded; nothing that is due waits in a flow that never overflowed; of a flow whose packets come once each, in any order behind the first, the buffer holds exactly what lies beyond the first gap, and the count is the number of packets that came early |
| `rbtree` | `RedBlack`, `WalksInOrder` | every tree that insertions, removals and replacements of twelve entries can build, with numbers that wrap behind the third: balanced, and walked both ways it is the ordered set that `Resequencer` uses |
| `expectback`, `fullwrap` | one property each | see *Findings* |

The runs of the counters do not check for deadlock: `tcpcount` ends at a signal, and the bounds
`MaxLog` (packets) and `MaxCount` (count) stop the others. Five arrivals
(`MaxLog = 5`) are enough to overtake, repeat and wrap in both connections;
`MaxCount = 7` is enough to fill a buffer of four and to overflow it repeatedly.
(`rbtree` has no bound but its twelve entries, and does check for deadlock.)

`RbTree` has a side as a parameter where the code spells out every case twice, for
left and right. Twelve entries are enough for all cases of insertion and removal,
including those that climb more than one level.

Assumptions: the packets of a connection lie within half of the sequence space
(`TcpAssumption`, `ReseqAssumption`). That is stronger than what TCP guarantees
(a window of that size at any time); longer streams are in the plan. One pair of
ports is one connection: the code does not look at addresses, and a later
connection on the same ports meets the old flow buffer (listed as a hazard).
Packets that are not TCP, which the socket delivers too, are left out.

## Proofs

All for every value of the constants that satisfies the named assumptions.

| Theorem | States | Rests on |
|---|---|---|
| `TypeCorrect`, `QlenCorrect` | `Spec => []TypeOK`, `Spec => []QlenExact` | `TypeInv`, their conjunction: `qlen - 1` is a natural number only because `qlen` counts the queue |
| `RateCorrect`, `PeakCorrect` | `Spec => []RateConformance`, `...PeakConformance` | `BucketInv` |
| `AdmissionCorrect` | `Spec => []AdmittedFits` | inductive itself; `MaxSizeFits` treats each mix of attributes, with `L2TInverse`: converting time to bytes and back never gains |
| `WakeupCorrect` | `SpecLinkUp => []NoLostWakeup` | `WakeInv` |
| `TimerExact` | `Spec => WakesWhenReady` | `TimerInv`: an armed timer is armed for `last`, and a peak rate is above the rate and comes with one, so a packet never costs more at the peak rate |
| `BacklogCorrect` | `Spec => []BacklogExact` | `BacklogInv` |
| `BytesFollowCorrect` | `Spec => BytesFollow` | `SameDistance`: two counters that wrap and move by the same bytes keep their distance, for every width |
| `FitsCorrect` | `SpecShaper => []HeadFits` | `ShaperInv`: no request of a program lowers `max_size`, so what is queued stays below it; then `AdmittedFits` |
| `LimitCorrect` | `SpecShaper => []LimitInForce` | `LimitInv`: a request that waits for the lock has already set the limit it will report, or will replace a `noop_qdisc` |
| `ShaperIsTbf`, `ShaperBacklog`, `ShaperWakeup` | `SpecShaper => Spec`, `SpecShaper => []BacklogExact`, `FairShaper => []NoLostWakeup` | a program only takes steps that `Tbf` has; with the link up, only those of `SpecLinkUp` |
| `ControllerTypes`, `InStepCorrect`, `AdjacentCorrect`, `AnswersCorrect`, `WaitCorrect` | `Spec => []...` of `Controller` | one invariant `Inv` |
| `NetemTypes`, `QlenCorrect`, `SpacingCorrect`, `WakeCorrect`, `TrapCondition` | `Spec => []...` of `Netem` | one invariant `Inv` |
| `Refinement` | `Spec => EarliestFirst`: `Netem` implements `DelayQueue` | the part `Ordered` of it |
| `CounterTypes` | `Spec => []TypeOK` of `TcpCounter` | the wrapped numbers stay in the sequence space |
| `CounterCorrect` | `Spec => CountsReordering` | `BeforeIsLess`: on positions below `Half`, `before` on the wrapped numbers is `<` |
| `CountCorrect` | `SpecLogged => []CountExact` | `LogInv` |
| `BuffersTyped`, `SizeCorrect`, `LoopReleasesAll` | `Spec => []TypeOK`, `...SizeExact`, `...NothingDueWaits` of `Resequencer` | one invariant `Inv` |
| `GapsCorrect` | `SpecLogged => []GapExact` | `GapInv` |

- `BucketInv`. The bound alone is not inductive. The surplus and what may still be
  sent must fit the deepest bucket together:
  `excess = 0 \/ excess + tokens + age <= depth`. A packet moves its cost from
  `tokens + age` to `excess`; a tick moves one unit from `excess` to `age`;
  `tbf_change` leaves the sum alone and can only raise `depth`. Had it filled the
  bucket, as the unmodified kernel does, the sum would grow: that is the mutant of
  this property. `NoneInv` adds that without a qdisc everything is zero.
- `WakeInv`. While the link stays up `last_expires` is the time of the pending timer,
  and once the timer fired it lies in the past (`WatchdogInv`), so the early return
  of `qdisc_watchdog_schedule_ns` is only taken with the timer armed. `tbf_reset`
  breaks `WatchdogInv`; that is the finding `lostwake`.
- `Inv` of `Controller`. A program may go on to the next request only because it read an
  answer without error; so the invariant says that such an answer in the socket was sent
  by the change it stands for (`Believed`), that there is one answer at most (`Single`)
  and which entries are in force at each point of the round (`Rounds`). That
  requests of a round go to different qdiscs is an assumption on the programs, which
  `control` evaluates for the five.
- `Inv` of `Netem`. The order of departure rests on one fact about the two structures:
  while the tree holds a packet, the list is not empty and its tail leaves after every
  packet of the tree (`Below`). So a list that runs empty leaves an empty tree behind,
  and a packet that is appended to the list cannot overtake the tree. `Ties` adds that a
  packet of the tree came after those of the list with the same time, which is why
  `netem_peek` may prefer the list. `TrapsOnlyAtZero` is inductive itself; it rests on
  `ReadFacts`: `TCA_NETEM_RATE64` never lowers what `get_rate` stored.
- `BacklogInv`. What the inner qdisc counts is the sum of the lengths in its queue modulo
  2^32. That it is the sum itself needs that no limit in force lets a bfifo reach the
  width of the counter, and that a pfifo, which does not look at bytes, becomes a bfifo
  only by a graft, which empties it (`FifoInv`): a `tbf_change` that waits for the lock
  and will create a bfifo found a `noop_qdisc`. `Bytes` is a sum over a sequence; the
  lemmas `BytesOfBlock`, `BytesOfAppend` and `BytesOfTail` say how it changes.
- `LogInv` of `TcpCounter`. The one number kept of a connection is the largest end of all
  its packets in the log, so a comparison with it is a comparison with all of them.
- `Inv` of `Resequencer`. The entries of a flow have different numbers, all within half of
  the sequence space, and `size` is their number (`Buffer`). On such a buffer `before` is
  the order of the positions, the loop of `rc_handle_packet` releases a packet per turn,
  and it ends with nothing due: `Drains` shows this for the function that `Drain` defines
  by recursion.
- `GapInv`. An orderly flow is one whose packets come once each. All positions in front
  of the expected one have arrived, and the buffer holds exactly those that arrived at or
  behind it (`Keeps`); with nothing due, the expected one is then the first that is missing.
  A packet is counted when it is stored, and it is stored when one in front of it is
  missing, so the count grows with `EarlyPackets`.
- Induction. The induction theorems of the library take an operator, which no installed
  prover can instantiate. `Induction` takes a set in its place: a set of naturals has a
  least element (from the library's theorem that `<` is well-founded), so a set that has 0
  and with each number the next one has all (`UpTo`), and a function can be iterated
  (`Iterates`). With them a recursive function is shown to satisfy its equation, and
  what it computes is shown turn by turn.
- The assumptions are in the modules that use them: conversions (`Psched`), option
  blocks (`TbfAssumption`, `TimeCapAssumption`), byte counts (`WidthAssumption`: a limit
  plus a packet stays below 2^32, so that the sum in `bfifo_enqueue` does not wrap), bursts
  (`ShaperAssumption`), programs (`ControllerAssumption`), requests for netem
  (`NetemAssumption`), streams (`TcpAssumption`, `ReseqAssumption`, and for `CountExact`
  `BoundariesAssumption`: retransmissions keep the boundaries of the segments). Every run
  evaluates those of its modules.

Only model-checked: `Progress`, `RoundEnds` and `Drains` of `Netem` (liveness is out of the
prover's reach), and `RedBlack` and `WalksInOrder`. `RbTree` is written with recursive
operators, which the prover's SMT backend does not accept, and the shape of a tree of any
size is an induction over its structure.

## Findings

| Run | At | What the model shows |
|---|---|---|
| `latewake` | `sch_tbf.c:413` | a raised rate does not advance the armed watchdog; the packet waits for the old time (comment, lines 78-79) |
| `lostwake` | `net/sched/sch_api.c:642` | a cancelled expiry is remembered; a packet throttled until just that time gets no timer (comment, lines 78-79 of `sch_tbf.c`) |
| `gsobacklog` | `sch_tbf.c:177` | segments are subtracted from the byte count and never added; it wraps (comment, line 103) |
| `expectback` | `reorder_counter.c:112` | an old packet moves `expected_next` back (comment, lines 103-106) |
| `fullwrap` | `reorder_counter.c:178` | a full buffer compares numbers without regard to the wrap (comment, lines 157-160) |

Three more disagreements can be read off the models and have no run of their own. `tbf_change` calls
`fifo_set_limit` on any inner fifo, so a grafted pfifo gets the limit in bytes as its
number of packets (`sch_tbf.c:379`; lines 96-98 say that the limit "is not effective
anymore"). And a new qdisc starts with an empty bucket, because lines 410-411 are
commented out (line 50: "Let N(t_i) be B/R initially"). The third is in `Netem`:
`netem_enqueue` tests `q->rate` (`net/sched/sch_netem.c:545`) and reads it again to divide
by it (361), and a request with rate zero that is stored in between (850) makes it divide by
zero, where the comment on it (433-436) knows two results, a packet dropped or queued. Adding
the invariant `state # "trapped"` to `MCNetem.cfg` gives the steps: create with a rate,
begin a change to zero, enqueue.

`lostwake` needs two expiries that agree to the nanosecond, `latewake` only a rate
change while a packet waits. The division by zero needs a plan for `netem` with a bandwidth
below 8 bits per second, and a packet whose `netem_enqueue` is between lines 545 and 361 when
`get_rate` stores; if the compiler keeps `q->rate` in a register between the two, it
does not happen.

## Not modelled

Nearly all lines under `src/` are copies of Linux `net/` and of iproute2 that
this repository did not write (more than a million lines in two thousand files), so
the modelled share of all lines is small, and will stay so. Of these copies the models
contain what the repository's own parts call: fifo, watchdog, activation of the
device, `tc_modify_qdisc`, netem and `rtnl_talk`. Of the repository's own code, what is
left out is:

- of tbf, statistics other than the two counters, and `tbf_dump_class`, `tbf_leaf`,
  `tbf_find` and `tbf_walk`, which only read;
- a driver that does not take a packet (`NETDEV_TX_BUSY`, or a queue that stops after the
  packet was dequeued). `sch_direct_xmit` then calls `dev_requeue_skb`
  (`net/sched/sch_generic.c:121-136`, `339-347`), which keeps the packet beside the qdisc and
  adds it to `q.qlen` and `qstats.backlog` of the root alone, until `dequeue_skb` (226-266)
  takes it off. In the models the driver takes every packet. So the counts of `QlenExact`,
  `BacklogExact` and `BytesFollow` are those without such packets; buckets, times and
  the order of packets do not depend on it, because tbf and netem have let the packet go;
- of the programs, parsing of the command line, the measuring of time, and the layout of
  the messages in bytes; the branch of `tbf.c` for `lat_ms != 0` (lines 102-113), which
  nothing sets; the rate tables, which tbf reads only to detect a link layer
  that every request names;
- of netem, what no program switches on: jitter, loss, duplication, corruption, gaps,
  slots and a child qdisc; and netem as the child of tbf (program `tn`), where tbf
  peeks into it: `Controller` has both qdiscs, but the packet path is modelled
  for each alone;
- of the tree, the post-order functions and augmented callbacks, which nobody calls;
- `nfqueue.c`, which accepts every packet at line 104, so that the resequencing
  behind it is never reached;
- `ip_reordercounter.c`, `tbf_direct.c`, `tbf_peak.c` and other files that no Makefile
  builds; experiments and scripts that are pure input and output.

`PROJECT.json` lists each part with its reason. Four hazards have no property: a
plan without entries, a packet that the driver gives back, the signal handler that
allocates, and connections that reuse ports; their notes say why.

## Plan

1. netem below tbf, as `tn` sets it up: `qdisc_peek_dequeued` holds a packet of netem
   while tbf lacks tokens.
2. An abstract token bucket in bytes that `Tbf` with constant parameters refines; the
   kernel's `mult` and `shift` against the exact division.
3. Streams longer than half of the sequence space.
4. Proofs about the tree: first that rotations keep the order, then the balance.
