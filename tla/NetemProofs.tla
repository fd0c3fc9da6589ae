---------------------------- MODULE NetemProofs ----------------------------
(***************************************************************************)
(* Proofs about Netem for every set of programs, packets and bounds.       *)
(*                                                                         *)
(* The argument turns on the two structures of the tfifo: as long as the   *)
(* tree holds a packet the list is not empty, and its tail leaves after    *)
(* every packet of the tree (Below).  Hence the list never runs empty      *)
(* before the tree does, a packet that is appended never ties with one of  *)
(* the tree, and the tail is the reference point of a rated packet.        *)
(***************************************************************************)
EXTENDS Netem, FiniteSetTheorems, TLAPS

\* The list is sorted by time and by arrival.
Sorted == \A i, j \in 1..Len(list) :
              i < j => list[i].time <= list[j].time /\ list[i].n < list[j].n

\* The tail of the list leaves after every packet of the tree.
Below == \A p \in tree : list # <<>> /\ p.time < t_tail.time

\* A packet of the tree came after those of the list it ties with.
Ties == \A p \in tree : \A i \in 1..Len(list) :
            list[i].n # p.n /\ (list[i].time = p.time => list[i].n < p.n)

\* The arrival number tells packets apart.
Numbered == /\ \A p \in tree : p.n < next
            /\ \A i \in 1..Len(list) : list[i].n < next
            /\ \A p, q \in tree : p.n = q.n => p = q

Ordered == Sorted /\ Below /\ Ties /\ Numbered

\* A packet that was accepted waits or was due when it left.
Logged == \A p \in accepted : p.n < next /\ (p \in Waiting \/ p.time <= now)

\* last_expires is the expiry of the timer that runs, or is past, or was left
\* behind by a reset.
Clocked == /\ timer # Absent => timer = last
           /\ timer = Absent => last <= now \/ stale

\* Nothing waits in a qdisc that no device uses.
Idle == state \in {"none", "down"} => Waiting = {}

Counted == IsFiniteSet(tree) /\ QlenExact

Inv == /\ TypeOK /\ Ordered /\ Logged /\ Clocked /\ Counted
       /\ RatedSpacing /\ WakesInTime /\ TrapsOnlyAtZero /\ Idle
-----------------------------------------------------------------------------
LEMMA InvInit == Init => Inv
<1> SUFFICES ASSUME Init PROVE Inv
  OBVIOUS
<1> USE NetemAssumption, PschedAssumption
<1>1. TypeOK
  <2>1. run \in BOOLEAN /\ stale \in BOOLEAN
    BY Zenon DEF Init
  <2>2. par \in [limit : Nat, latency : Nat, rate : Nat]
    BY DEF Init, NoParams
  <2>3. list \in Seq(PacketType)
    BY DEF Init
  <2> QED
    BY <2>1, <2>2, <2>3 DEF Init, TypeOK, Absent
<1>2. Ordered
  BY DEF Init, Ordered, Sorted, Below, Ties, Numbered
<1>3. Logged /\ Clocked /\ RatedSpacing /\ WakesInTime /\ TrapsOnlyAtZero /\ Idle
  BY DEF Init, Idle, Logged, Clocked, RatedSpacing, WakesInTime, TrapsOnlyAtZero, Waiting, Absent
<1>4. Counted
  BY FS_EmptySet DEF Init, Counted, QlenExact
<1> QED
  BY <1>1, <1>2, <1>3, <1>4 DEF Inv

\* A request leaves the parameters typed; the second store of the rate never
\* lowers the first.
LEMMA StoredFacts ==
  ASSUME TypeOK, NEW o \in plan
  PROVE  /\ Stored(o) \in [limit : Nat, latency : Nat, rate : Nat]
         /\ FinalRate(o) \in Nat
         /\ o.rate # Absent => o.rate \in Nat /\ o.rate <= FinalRate(o)
<1> USE NetemAssumption, PschedAssumption
<1>1. o \in ReqType
  BY DEF TypeOK
<1>2. /\ o.limit \in Nat /\ o.latency \in Nat
      /\ o.rate \in Nat \cup {Absent} /\ o.rate64 \in Nat \cup {Absent}
  BY <1>1 DEF ReqType
<1>3. PSCHED_TICKS2NS(o.latency) \in Nat
  BY <1>2 DEF PSCHED_TICKS2NS
<1>4. par.rate \in Nat
  BY DEF TypeOK
<1>5. FinalRate(o) \in Nat
  BY <1>2, <1>4 DEF FinalRate, MaxOf, Absent
<1>6. Stored(o) \in [limit : Nat, latency : Nat, rate : Nat]
  BY <1>2, <1>3, <1>5 DEF Stored
<1>7. o.rate # Absent => o.rate \in Nat /\ o.rate <= FinalRate(o)
  BY <1>2 DEF FinalRate, MaxOf, Absent
<1> QED
  BY <1>5, <1>6, <1>7

\* What netem_enqueue reads is typed, and a rate that it divides by is zero only
\* while a request with rate zero replaces a rate.
LEMMA ReadFacts ==
  ASSUME TypeOK
  PROVE  /\ Latencies \subseteq Nat
         /\ \A r \in RateReads :
               /\ r[1] \in Nat /\ r[2] \in Nat
               /\ r[1] # 0 /\ r[2] = 0 =>
                     par.rate # 0 /\ \E o \in pend : o.rate = 0
<1> USE NetemAssumption, PschedAssumption
<1>1. \A o \in pend : o \in plan /\ o.latency \in Nat
  BY DEF TypeOK, ReqType
<1>2. par.latency \in Nat /\ par.rate \in Nat
  BY DEF TypeOK
<1>3. Latencies \subseteq Nat
  BY <1>1, <1>2 DEF Latencies, PSCHED_TICKS2NS
<1> SUFFICES ASSUME NEW r \in RateReads
             PROVE  /\ r[1] \in Nat /\ r[2] \in Nat
                    /\ r[1] # 0 /\ r[2] = 0 =>
                          par.rate # 0 /\ \E o \in pend : o.rate = 0
  BY <1>3
<1>4. CASE r = <<par.rate, par.rate>>
  BY <1>2, <1>4
<1>5. CASE \E o \in pend : o.rate # Absent /\
             (\/ r = <<par.rate, o.rate>> \/ r = <<par.rate, FinalRate(o)>>
              \/ r = <<o.rate, o.rate>> \/ r = <<o.rate, FinalRate(o)>>
              \/ r = <<FinalRate(o), FinalRate(o)>>)
  <2>1. PICK o \in pend :
             /\ o.rate # Absent
             /\ \/ r = <<par.rate, o.rate>> \/ r = <<par.rate, FinalRate(o)>>
                \/ r = <<o.rate, o.rate>> \/ r = <<o.rate, FinalRate(o)>>
                \/ r = <<FinalRate(o), FinalRate(o)>>
    BY <1>5
  <2>2. o.rate \in Nat /\ FinalRate(o) \in Nat /\ o.rate <= FinalRate(o)
    BY <1>1, <2>1, StoredFacts
  <2>3. r[1] \in Nat /\ r[2] \in Nat
    BY <1>2, <2>1, <2>2
  <2>4. r[1] # 0 /\ r[2] = 0 => par.rate # 0 /\ o.rate = 0
    BY <1>2, <2>1, <2>2
  <2> QED
    BY <2>3, <2>4
<1> QED
  BY <1>4, <1>5 DEF RateReads
-----------------------------------------------------------------------------
(***************************************************************************)
(* A packet is taken.                                                      *)
(***************************************************************************)
LEMMA TailFacts ==
  ASSUME TypeOK, Ordered, list # <<>>
  PROVE  /\ Len(list) \in Nat \ {0}
         /\ t_tail \in PacketType /\ t_tail \in Waiting
         /\ \A p \in Waiting : p.time \in Nat /\ p.time <= t_tail.time
<1>1. list \in Seq(PacketType) /\ tree \subseteq PacketType
  BY DEF TypeOK
<1>2. Len(list) \in Nat \ {0} /\ DOMAIN list = 1..Len(list)
  BY <1>1
<1>3. \A i \in 1..Len(list) : list[i] \in PacketType
  BY <1>1
<1>4. t_tail \in PacketType /\ t_tail \in Waiting
  BY <1>2, <1>3 DEF t_tail, Waiting
<1>5. \A i \in 1..Len(list) : list[i].time \in Nat /\ list[i].time <= t_tail.time
  <2> TAKE i \in 1..Len(list)
  <2>1. list[i].time \in Nat
    BY <1>3 DEF PacketType
  <2>2. CASE i = Len(list)
    BY <2>1, <2>2 DEF t_tail
  <2>3. CASE i < Len(list)
    BY <1>2, <2>1, <2>3 DEF Ordered, Sorted, t_tail
  <2>4. i = Len(list) \/ i < Len(list)
    <3>1. Len(list) \in Nat
      BY <1>2
    <3>2. i \in Nat /\ i <= Len(list)
      BY <3>1
    <3> QED
      BY <3>1, <3>2
  <2> QED
    BY <2>2, <2>3, <2>4
<1>6. \A p \in tree : p.time \in Nat /\ p.time <= t_tail.time
  BY <1>1, <1>4 DEF Ordered, Below, PacketType
<1> QED
  BY <1>2, <1>4, <1>5, <1>6 DEF Waiting

LEMMA RatedTimeFacts ==
  ASSUME TypeOK, Ordered, NEW latency \in Nat, NEW cost \in Nat
  PROVE  /\ RatedTime(latency, cost) \in Nat
         /\ now + cost <= RatedTime(latency, cost)
         /\ \A p \in Waiting : p.time + cost <= RatedTime(latency, cost)
<1>1. now \in Nat /\ tree \subseteq PacketType
  BY DEF TypeOK
<1>2. CASE list = <<>>
  <2>1. tree = {}
    BY <1>2 DEF Ordered, Below
  <2>2. Departures = {} /\ Waiting = {}
    BY <1>2, <2>1 DEF Departures, Waiting
  <2> QED
    BY <1>1, <2>2 DEF RatedTime
<1>3. CASE list # <<>>
  <2>1. /\ t_tail.time \in Nat
        /\ \A p \in Waiting : p.time \in Nat /\ p.time <= t_tail.time
    BY <1>3, TailFacts DEF PacketType
  <2>2. t_tail.time \in Departures
    BY <1>3 DEF Departures
  <2>3. \A t \in Departures : t \in Nat /\ t <= t_tail.time
    BY <1>3, <2>1 DEF Departures, Waiting
  <2> DEFINE final == CHOOSE t \in Departures : \A u \in Departures : u <= t
  <2>4. final \in Departures /\ \A u \in Departures : u <= final
    BY <2>2, <2>3
  <2>5. final = t_tail.time
    BY <2>1, <2>2, <2>3, <2>4
  <2> HIDE DEF final
  <2>6. RatedTime(latency, cost) =
            final + MaxOf(0, latency - (final - now)) + cost
    BY <2>2 DEF RatedTime, final
  <2>7. /\ RatedTime(latency, cost) \in Nat
        /\ now + cost <= RatedTime(latency, cost)
        /\ final + cost <= RatedTime(latency, cost)
    BY <1>1, <2>1, <2>5, <2>6 DEF MaxOf
  <2> QED
    BY <2>1, <2>5, <2>7
<1> QED
  BY <1>2, <1>3

\* tfifo_enqueue keeps the order of the two structures, whatever time the packet
\* was given.
LEMMA TakenOrder ==
  ASSUME TypeOK, Ordered, NEW p \in PacketType, p.n = next,
         tfifo_enqueue(p), next' = next + 1
  PROVE  /\ list' \in Seq(PacketType) /\ tree' \subseteq PacketType
         /\ Ordered'
         /\ Waiting' = Waiting \cup {p}
<1>1. /\ list \in Seq(PacketType) /\ tree \subseteq PacketType
      /\ next \in Nat /\ p.time \in Nat
  BY DEF TypeOK, PacketType
<1>2. Len(list) \in Nat /\ DOMAIN list = 1..Len(list)
  BY <1>1
<1>3. \A i \in 1..Len(list) : list[i] \in PacketType
  BY <1>1
<1>4. \A i \in 1..Len(list) : list[i].n \in Nat /\ list[i].time \in Nat
  BY <1>3 DEF PacketType
<1>5. \A q \in tree : q.n \in Nat /\ q.time \in Nat
  BY <1>1 DEF PacketType
<1>6. CASE list = <<>> \/ p.time >= t_tail.time
  <2>1. list' = Append(list, p) /\ tree' = tree
    BY <1>6 DEF tfifo_enqueue
  <2>2. /\ list' \in Seq(PacketType) /\ Len(list') = Len(list) + 1
        /\ DOMAIN list' = 1..Len(list) + 1
        /\ \A i \in 1..Len(list) : list'[i] = list[i]
        /\ list'[Len(list) + 1] = p
    BY <1>1, <2>1
  <2>3. t_tail' = p /\ list' # <<>>
    BY <1>2, <2>2 DEF t_tail
  <2>4. \A i \in 1..Len(list) : list[i].time <= p.time /\ list[i].n < p.n
    <3> TAKE i \in 1..Len(list)
    <3>1. list[i].n < p.n
      BY DEF Ordered, Numbered
    <3>2. list # <<>>
      BY <1>1, <1>2
    <3>3. list[i] \in Waiting
      BY <1>2 DEF Waiting
    <3>4. list[i].time <= t_tail.time /\ t_tail.time \in Nat
      BY <3>2, <3>3, TailFacts DEF PacketType
    <3> QED
      BY <1>1, <1>4, <1>6, <3>1, <3>2, <3>4
  <2>5. \A q \in tree : q.time < p.time /\ q.n < p.n
    <3> TAKE q \in tree
    <3>1. q.n < p.n
      BY DEF Ordered, Numbered
    <3>2. list # <<>> /\ q.time < t_tail.time
      BY DEF Ordered, Below
    <3>3. t_tail.time \in Nat
      BY <3>2, TailFacts DEF PacketType
    <3> QED
      BY <1>1, <1>5, <1>6, <3>1, <3>2, <3>3
  <2>6. Sorted'
    <3> SUFFICES ASSUME NEW i \in 1..Len(list) + 1, NEW j \in 1..Len(list) + 1, i < j
                 PROVE  list'[i].time <= list'[j].time /\ list'[i].n < list'[j].n
      BY <2>2 DEF Sorted
    <3>1. i \in 1..Len(list)
      BY <1>2
    <3>2. j \in 1..Len(list) \/ j = Len(list) + 1
      BY <1>2
    <3>3. CASE j \in 1..Len(list)
      BY <2>2, <3>1, <3>3 DEF Ordered, Sorted
    <3>4. CASE j = Len(list) + 1
      BY <2>2, <2>4, <3>1, <3>4
    <3> QED
      BY <3>2, <3>3, <3>4
  <2>7. Below'
    BY <2>1, <2>3, <2>5 DEF Below
  <2>8. Ties'
    <3> SUFFICES ASSUME NEW q \in tree, NEW i \in 1..Len(list')
                 PROVE  /\ list'[i].n # q.n
                        /\ list'[i].time = q.time => list'[i].n < q.n
      BY <2>1 DEF Ties
    <3>1. CASE i \in 1..Len(list)
      BY <2>2, <3>1 DEF Ordered, Ties
    <3>2. CASE i = Len(list) + 1
      BY <1>1, <1>5, <2>2, <2>5, <3>2
    <3> QED
      BY <1>2, <2>2, <3>1, <3>2
  <2>9. Numbered'
    <3>1. \A q \in tree : q.n < next + 1
      BY <1>1, <1>5 DEF Ordered, Numbered
    <3>2. \A i \in 1..Len(list) + 1 : list'[i].n < next + 1
      BY <1>1, <1>2, <1>4, <2>2 DEF Ordered, Numbered
    <3> QED
      BY <2>1, <2>2, <3>1, <3>2 DEF Ordered, Numbered
  <2>10. Waiting' = Waiting \cup {p}
    <3>1. {list'[i] : i \in 1..Len(list) + 1} =
          {list[i] : i \in 1..Len(list)} \cup {p}
      BY <1>2, <2>2
    <3> QED
      BY <1>2, <2>1, <2>2, <3>1 DEF Waiting
  <2> QED
    BY <1>1, <2>1, <2>2, <2>6, <2>7, <2>8, <2>9, <2>10 DEF Ordered
<1>7. CASE ~(list = <<>> \/ p.time >= t_tail.time)
  <2>1. list' = list /\ tree' = tree \cup {p} /\ list # <<>>
    BY <1>7 DEF tfifo_enqueue
  <2>2. t_tail.time \in Nat
    BY <2>1, TailFacts DEF PacketType
  <2>3. p.time < t_tail.time
    BY <1>1, <1>7, <2>2
  <2>4. Sorted'
    BY <2>1 DEF Ordered, Sorted
  <2>5. Below'
    BY <2>1, <2>3 DEF Ordered, Below, t_tail
  <2>6. Ties'
    <3>1. \A i \in 1..Len(list) : list[i].n < p.n /\ list[i].n # p.n
      BY <1>1, <1>4 DEF Ordered, Numbered
    <3> QED
      BY <2>1, <3>1 DEF Ordered, Ties
  <2>7. Numbered'
    <3>1. \A q \in tree : q.n < next + 1 /\ q.n # p.n
      BY <1>1, <1>5 DEF Ordered, Numbered
    <3>2. \A i \in 1..Len(list) : list[i].n < next + 1
      BY <1>1, <1>4 DEF Ordered, Numbered
    <3>3. p.n < next + 1
      BY <1>1
    <3> QED
      BY <2>1, <3>1, <3>2, <3>3 DEF Ordered, Numbered
  <2>8. Waiting' = Waiting \cup {p}
    BY <2>1 DEF Waiting
  <2> QED
    BY <1>1, <2>1, <2>4, <2>5, <2>6, <2>7, <2>8 DEF Ordered
<1> QED
  BY <1>6, <1>7

\* The packet that is taken is counted once.
LEMMA TakenCount ==
  ASSUME TypeOK, Ordered, Counted, NEW p \in PacketType, p.n = next,
         tfifo_enqueue(p)
  PROVE  Counted' /\ qlen' \in Nat
<1>1. /\ list \in Seq(PacketType) /\ next \in Nat /\ qlen \in Nat
      /\ IsFiniteSet(tree) /\ qlen = Len(list) + Cardinality(tree)
  BY DEF TypeOK, Counted, QlenExact
<1>2. Len(list) \in Nat /\ Cardinality(tree) \in Nat
  BY <1>1, FS_CardinalityType
<1>3. p \notin tree
  <2>1. \A q \in tree : q.n \in Nat /\ q.n < next
    BY DEF TypeOK, PacketType, Ordered, Numbered
  <2> QED
    BY <1>1, <2>1
<1>4. qlen' = qlen + 1
  BY DEF tfifo_enqueue
<1>5. CASE list' = Append(list, p) /\ tree' = tree
  <2>1. Len(list') = Len(list) + 1
    BY <1>1, <1>5
  <2> QED
    BY <1>1, <1>2, <1>4, <1>5, <2>1 DEF Counted, QlenExact
<1>6. CASE list' = list /\ tree' = tree \cup {p}
  <2>1. IsFiniteSet(tree') /\ Cardinality(tree') = Cardinality(tree) + 1
    BY <1>1, <1>3, <1>6, FS_AddElement
  <2> QED
    BY <1>1, <1>2, <1>4, <1>6, <2>1 DEF Counted, QlenExact
<1> QED
  BY <1>5, <1>6 DEF tfifo_enqueue

\* A packet that was given a time is taken in order, and leaves its cost after
\* the ones before it if it is rated.
LEMMA StampedStep ==
  ASSUME Inv, state = "up", NEW len \in Lengths, NEW latency \in Latencies,
         NEW rates \in RateReads, Stamped(len, latency, rates), now' = now
  PROVE  /\ state' = state
         /\ list' \in Seq(PacketType) /\ tree' \subseteq PacketType
         /\ accepted' \subseteq PacketType /\ next' \in Nat /\ qlen' \in Nat
         /\ Ordered' /\ Counted' /\ Logged' /\ RatedSpacing'
         /\ \E p \in Waiting' : Delay!Accept(p)
<1> DEFINE rated == rates[1] # 0
           cost == IF rated THEN packet_time_ns(len, rates[2]) ELSE 0
           time == IF rated THEN RatedTime(latency, cost) ELSE now + latency
           p == [n |-> next, time |-> time, rated |-> rated, cost |-> cost]
<1>1. TypeOK /\ Ordered /\ Counted /\ Logged /\ RatedSpacing
  BY DEF Inv
<1>2. /\ latency \in Nat /\ rates[1] \in Nat /\ rates[2] \in Nat
      /\ rates[1] = 0 \/ rates[2] # 0
  BY <1>1, ReadFacts DEF Stamped
<1>3. Taken(p) /\ state' = state
  BY DEF Stamped
<1>4. now \in Nat /\ next \in Nat /\ accepted \subseteq PacketType
  BY <1>1 DEF TypeOK
<1>5. cost \in Nat
  <2>1. CASE rated
    <3>1. rates[2] \in Nat \ {0} /\ len \in Nat /\ NSEC_PER_SEC \in Nat
      BY <1>2, <2>1, NetemAssumption, PschedAssumption
    <3>2. len * NSEC_PER_SEC \in Nat
      BY <3>1
    <3>3. (len * NSEC_PER_SEC) \div rates[2] \in Nat
      BY <3>1, <3>2
    <3> QED
      BY <2>1, <3>3 DEF packet_time_ns
  <2>2. CASE ~rated
    BY <2>2
  <2> QED
    BY <2>1, <2>2
<1> HIDE DEF cost
<1>6. /\ time \in Nat /\ now <= time
      /\ rated => /\ now + cost <= time
                  /\ \A q \in Waiting : q.time + cost <= time
  <2>1. CASE rated
    <3>1. time = RatedTime(latency, cost)
      BY <2>1
    <3>2. /\ time \in Nat /\ now + cost <= time
          /\ \A q \in Waiting : q.time + cost <= time
      BY <1>1, <1>2, <1>5, <3>1, RatedTimeFacts
    <3>3. now <= time
      BY <1>4, <1>5, <3>2
    <3> QED
      BY <3>2, <3>3
  <2>2. CASE ~rated
    BY <1>2, <1>4, <2>2
  <2> QED
    BY <2>1, <2>2
<1> HIDE DEF time
<1>7. rated \in BOOLEAN
  BY Zenon
<1> HIDE DEF rated
<1>8. /\ p \in PacketType /\ p.n = next /\ p.time = time
      /\ p.rated = rated /\ p.cost = cost
  BY <1>4, <1>5, <1>6, <1>7 DEF PacketType
<1> HIDE DEF p
<1>9. tfifo_enqueue(p) /\ next' = next + 1 /\ accepted' = accepted \cup {p}
  BY <1>3 DEF Taken
<1>10. /\ list' \in Seq(PacketType) /\ tree' \subseteq PacketType
       /\ Ordered' /\ Waiting' = Waiting \cup {p}
  BY <1>1, <1>8, <1>9, TakenOrder
<1>11. Counted' /\ qlen' \in Nat
  BY <1>1, <1>8, <1>9, TakenCount
<1>12. \A q \in accepted : q.n \in Nat /\ q.n < next /\ q.time \in Nat
                            /\ (q \in Waiting \/ q.time <= now)
  BY <1>1, <1>4 DEF Logged, PacketType
<1>13. Logged'
  <2>1. \A q \in accepted : q.n < next + 1
    BY <1>4, <1>12
  <2>2. p.n < next + 1
    BY <1>4, <1>8
  <2> QED
    BY <1>9, <1>10, <1>12, <2>1, <2>2 DEF Logged
<1>14. RatedSpacing'
  <2> SUFFICES ASSUME NEW a \in accepted', NEW b \in accepted', b.rated, a.n < b.n
               PROVE  a.time + b.cost <= b.time
    BY DEF RatedSpacing
  <2>1. CASE a \in accepted /\ b \in accepted
    BY <1>1, <2>1 DEF RatedSpacing
  <2>2. CASE a \in accepted /\ b = p
    BY <1>4, <1>5, <1>6, <1>8, <1>12, <2>2
  <2>3. CASE a = p
    BY <1>4, <1>8, <1>9, <1>12, <2>3
  <2> QED
    BY <1>9, <2>1, <2>2, <2>3
<1>15. Delay!Accept(p) /\ p \in Waiting'
  BY <1>4, <1>6, <1>8, <1>9, <1>10 DEF Delay!Accept
<1>16. accepted' \subseteq PacketType /\ next' \in Nat
  BY <1>4, <1>8, <1>9
<1> QED
  BY <1>3, <1>10, <1>11, <1>13, <1>14, <1>15, <1>16
-----------------------------------------------------------------------------
(***************************************************************************)
(* A packet leaves.                                                        *)
(***************************************************************************)
\* netem_peek finds the earliest packet of both structures.
LEMMA PeekFirst ==
  ASSUME TypeOK, Ordered, NEW p \in Waiting, netem_peek(p)
  PROVE  \A q \in Waiting \ {p} : Delay!Before(p, q)
<1>1. /\ list \in Seq(PacketType) /\ tree \subseteq PacketType
      /\ DOMAIN list = 1..Len(list) /\ Len(list) \in Nat
  BY DEF TypeOK
<1>2. \A i \in 1..Len(list) : list[i].n \in Nat /\ list[i].time \in Nat
  <2>1. \A i \in 1..Len(list) : list[i] \in PacketType
    BY <1>1
  <2> QED
    BY <2>1 DEF PacketType
<1>3. \A q \in tree : q.n \in Nat /\ q.time \in Nat
  BY <1>1 DEF PacketType
<1>4. list # <<>> => 1 \in 1..Len(list) /\ Head(list) = list[1]
  BY <1>1
<1>5. \A i \in 1..Len(list) :
          \/ list[i] = Head(list)
          \/ Head(list).time <= list[i].time /\ Head(list).n < list[i].n
  <2> TAKE i \in 1..Len(list)
  <2>1. list # <<>>
    BY <1>1
  <2>2. i = 1 \/ 1 < i
    BY <1>1
  <2> QED
    BY <1>4, <2>1, <2>2 DEF Ordered, Sorted
<1>6. CASE p \in rb_first /\ (list # <<>> => p.time < Head(list).time)
  <2>1. p \in tree /\ \A q \in tree \ {p} : Delay!Before(p, q)
    BY <1>6 DEF rb_first, Delay!Before
  <2>2. \A i \in 1..Len(list) : Delay!Before(p, list[i])
    <3> TAKE i \in 1..Len(list)
    <3>1. list # <<>>
      BY <1>1
    <3>2. p.time < Head(list).time /\ Head(list).time <= list[i].time
      BY <1>2, <1>4, <1>5, <1>6, <3>1
    <3>3. p.time \in Nat /\ Head(list).time \in Nat /\ list[i].time \in Nat
      BY <1>2, <1>3, <1>4, <2>1, <3>1
    <3> QED
      BY <3>2, <3>3 DEF Delay!Before
  <2> QED
    BY <1>1, <2>1, <2>2 DEF Waiting
<1>7. CASE list # <<>> /\ p = Head(list) /\ \A q \in tree : Head(list).time <= q.time
  <2>1. \A q \in tree : Delay!Before(p, q)
    <3> TAKE q \in tree
    <3>1. p.time <= q.time /\ (p.time = q.time => p.n < q.n)
      BY <1>4, <1>7 DEF Ordered, Ties
    <3> QED
      BY <1>2, <1>3, <1>4, <1>7, <3>1 DEF Delay!Before
  <2>2. \A i \in 1..Len(list) : list[i] = p \/ Delay!Before(p, list[i])
    BY <1>2, <1>4, <1>5, <1>7 DEF Delay!Before
  <2> QED
    BY <1>1, <2>1, <2>2 DEF Waiting
<1> QED
  BY <1>6, <1>7 DEF netem_peek

\* Taking it off keeps the order: the list does not run empty under the tree.
LEMMA EraseOrder ==
  ASSUME TypeOK, Ordered, Counted, NEW p \in Waiting, netem_peek(p),
         netem_erase_head(p), qlen' = qlen - 1, next' = next
  PROVE  /\ list' \in Seq(PacketType) /\ tree' \subseteq PacketType
         /\ Ordered' /\ Counted' /\ qlen' \in Nat
         /\ Waiting' = Waiting \ {p}
<1>1. /\ list \in Seq(PacketType) /\ tree \subseteq PacketType
      /\ DOMAIN list = 1..Len(list) /\ Len(list) \in Nat
  BY DEF TypeOK
<1>2. /\ IsFiniteSet(tree) /\ Cardinality(tree) \in Nat
      /\ qlen = Len(list) + Cardinality(tree)
  BY FS_CardinalityType DEF Counted, QlenExact
<1>3. \A i \in 1..Len(list) : list[i].n \in Nat /\ list[i].time \in Nat
  <2>1. \A i \in 1..Len(list) : list[i] \in PacketType
    BY <1>1
  <2> QED
    BY <2>1 DEF PacketType
<1>4. CASE list # <<>> /\ p = Head(list)
  <2>1. list' = Tail(list) /\ tree' = tree
    BY <1>4 DEF netem_erase_head
  <2>2. Len(list) \in Nat \ {0} /\ p = list[1] /\ 1 \in 1..Len(list)
    BY <1>1, <1>4
  <2>3. /\ list' \in Seq(PacketType) /\ Len(list') = Len(list) - 1
        /\ DOMAIN list' = 1..Len(list) - 1
        /\ \A i \in 1..Len(list) - 1 : list'[i] = list[i + 1]
    BY <1>1, <1>4, <2>1
  <2>4. p \notin tree
    BY <2>2 DEF Ordered, Ties
  <2>5. \A q \in tree : p.time <= q.time
    BY <1>4, <2>4 DEF netem_peek, rb_first
  <2>6. \A i \in 1..Len(list) - 1 : i + 1 \in 1..Len(list)
    BY <2>2
  <2>7. Sorted'
    <3> SUFFICES ASSUME NEW i \in 1..Len(list) - 1, NEW j \in 1..Len(list) - 1, i < j
                 PROVE  /\ list[i + 1].time <= list[j + 1].time
                        /\ list[i + 1].n < list[j + 1].n
      BY <2>3 DEF Sorted
    <3>1. i + 1 < j + 1
      BY <2>2
    <3> QED
      BY <2>6, <3>1 DEF Ordered, Sorted
  <2>8. Below'
    <3> SUFFICES ASSUME NEW q \in tree
                 PROVE  list' # <<>> /\ q.time < t_tail'.time
      BY <2>1 DEF Below
    <3>1. q.time < t_tail.time
      BY DEF Ordered, Below
    <3>2. q.time \in Nat /\ p.time <= q.time /\ p.time \in Nat
      BY <1>1, <1>3, <2>2, <2>5 DEF PacketType
    <3>3. Len(list) # 1
      <4> SUFFICES ASSUME Len(list) = 1 PROVE FALSE
        OBVIOUS
      <4>1. t_tail = p
        BY <2>2 DEF t_tail
      <4> QED
        BY <3>1, <3>2, <4>1
    <3>4. Len(list) - 1 \in 1..Len(list) - 1
      <4>1. Len(list) \in Nat /\ Len(list) > 1
        BY <2>2, <3>3
      <4> QED
        BY <4>1
    <3>5. list'[Len(list) - 1] = list[(Len(list) - 1) + 1]
      BY <2>3, <3>4
    <3>6. (Len(list) - 1) + 1 = Len(list)
      BY <2>2
    <3>7. t_tail' = t_tail
      BY <2>3, <3>5, <3>6 DEF t_tail
    <3>8. list' # <<>>
      BY <2>2, <2>3, <3>3
    <3> QED
      BY <3>1, <3>7, <3>8
  <2>9. Ties'
    BY <2>1, <2>3, <2>6 DEF Ordered, Ties
  <2>10. Numbered'
    BY <2>1, <2>3, <2>6 DEF Ordered, Numbered
  <2>11. Waiting' = Waiting \ {p}
    <3>1. \A i \in 1..Len(list) : i # 1 => list[i] # p
      <4> SUFFICES ASSUME NEW i \in 1..Len(list), i # 1 PROVE list[i] # p
        OBVIOUS
      <4>1. 1 < i
        BY <2>2
      <4> QED
        BY <1>3, <2>2, <4>1 DEF Ordered, Sorted
    <3>2. \A i \in 1..Len(list) : i # 1 => /\ i - 1 \in 1..Len(list) - 1
                                           /\ list'[i - 1] = list[i]
      <4> SUFFICES ASSUME NEW i \in 1..Len(list), i # 1
                   PROVE  i - 1 \in 1..Len(list) - 1 /\ list'[i - 1] = list[i]
        OBVIOUS
      <4>1. i - 1 \in 1..Len(list) - 1 /\ (i - 1) + 1 = i
        BY <2>2
      <4> QED
        BY <2>3, <4>1
    <3>3. \A x \in Waiting \ {p} : x \in Waiting'
      <4> SUFFICES ASSUME NEW x \in Waiting, x # p PROVE x \in Waiting'
        OBVIOUS
      <4>1. CASE x \in tree
        BY <2>1, <4>1 DEF Waiting
      <4>2. CASE \E i \in 1..Len(list) : x = list[i]
        <5>1. PICK i \in 1..Len(list) : x = list[i]
          BY <4>2
        <5>2. i # 1
          BY <2>2, <5>1
        <5>3. i - 1 \in DOMAIN list' /\ x = list'[i - 1]
          BY <2>3, <3>2, <5>1, <5>2
        <5> QED
          BY <5>3 DEF Waiting
      <4> QED
        BY <1>1, <4>1, <4>2 DEF Waiting
    <3>4. \A i \in 1..Len(list) - 1 : i + 1 # 1
      BY <2>2
    <3>5. \A x \in Waiting' : x \in Waiting /\ x # p
      BY <1>1, <2>1, <2>3, <2>4, <2>6, <3>1, <3>4 DEF Waiting
    <3> QED
      BY <3>3, <3>5
  <2>12. Counted' /\ qlen' \in Nat
    BY <1>2, <2>1, <2>2, <2>3 DEF Counted, QlenExact
  <2> QED
    BY <1>1, <2>1, <2>3, <2>7, <2>8, <2>9, <2>10, <2>11, <2>12 DEF Ordered
<1>5. CASE ~(list # <<>> /\ p = Head(list))
  <2>1. list' = list /\ tree' = tree \ {p}
    BY <1>5 DEF netem_erase_head
  <2>2. p \in tree
    BY <1>5 DEF netem_peek, rb_first
  <2>3. \A i \in 1..Len(list) : list[i] # p
    BY <2>2 DEF Ordered, Ties
  <2>4. Waiting' = Waiting \ {p}
    BY <1>1, <2>1, <2>3 DEF Waiting
  <2>5. Ordered'
    BY <2>1 DEF Ordered, Sorted, Below, Ties, Numbered, t_tail
  <2>6. /\ IsFiniteSet(tree') /\ Cardinality(tree') = Cardinality(tree) - 1
    BY <1>2, <2>1, <2>2, FS_RemoveElement
  <2>7. Cardinality(tree') \in Nat
    BY <2>6, FS_CardinalityType
  <2>8. Counted' /\ qlen' \in Nat
    BY <1>1, <1>2, <2>1, <2>6, <2>7 DEF Counted, QlenExact
  <2> QED
    BY <1>1, <2>1, <2>4, <2>5, <2>8
<1> QED
  BY <1>4, <1>5
-----------------------------------------------------------------------------
(***************************************************************************)
(* Every step keeps the invariant and is a step of DelayQueue or leaves    *)
(* its variables alone.                                                    *)
(***************************************************************************)
Simulated == Delay!Next \/ (now' = now /\ next' = next /\ Waiting' = Waiting)

\* A step that touches neither the packets nor the clock.
LEMMA Quiet ==
  ASSUME Inv, UNCHANGED <<list, tree, qlen, next, accepted, now>>
  PROVE  /\ Ordered' /\ Counted' /\ Logged' /\ RatedSpacing'
         /\ Waiting' = Waiting /\ Simulated
<1>1. Waiting' = Waiting
  BY DEF Waiting
<1>2. Ordered'
  BY DEF Inv, Ordered, Sorted, Below, Ties, Numbered, t_tail
<1>3. Counted' /\ RatedSpacing'
  BY DEF Inv, Counted, QlenExact, RatedSpacing
<1>4. Logged'
  BY <1>1 DEF Inv, Logged
<1> QED
  BY <1>1, <1>2, <1>3, <1>4 DEF Simulated

\* A step that drops every packet.
LEMMA Emptied ==
  ASSUME Inv, list' = <<>>, tree' = {}, qlen' = 0, accepted' = {},
         next' = next, now' = now
  PROVE  /\ Ordered' /\ Counted' /\ Logged' /\ RatedSpacing'
         /\ Waiting' = {} /\ Simulated
<1>1. Waiting' = {}
  BY DEF Waiting
<1>2. Ordered'
  BY DEF Ordered, Sorted, Below, Ties, Numbered
<1>3. Counted'
  BY FS_EmptySet DEF Counted, QlenExact
<1>4. Logged' /\ RatedSpacing'
  BY DEF Logged, RatedSpacing
<1>5. Simulated
  BY <1>1 DEF Simulated, Delay!Next, Delay!Discard
<1> QED
  BY <1>1, <1>2, <1>3, <1>4, <1>5

LEMMA EnqueueStep ==
  ASSUME Inv, NEW len \in Lengths, netem_enqueue(len)
  PROVE  Inv' /\ Simulated
<1>1. /\ state = "up" /\ run' = TRUE
      /\ UNCHANGED <<plan, par, pend, now, timer, last, stale>>
  BY DEF netem_enqueue
<1>2. TypeOK /\ Clocked
  BY DEF Inv
<1>3. CASE UNCHANGED <<state, tfifo, arrived>>
  <2>1. UNCHANGED <<state, list, tree, qlen, next, accepted>>
    BY <1>3 DEF tfifo, arrived
  <2>2. /\ Ordered' /\ Counted' /\ Logged' /\ RatedSpacing'
        /\ Waiting' = Waiting /\ Simulated
    BY <1>1, <2>1, Quiet
  <2>3. TypeOK'
    BY <1>1, <1>2, <2>1 DEF TypeOK
  <2>4. Clocked' /\ TrapsOnlyAtZero' /\ Idle' /\ WakesInTime'
    BY <1>1, <1>2, <2>1 DEF Clocked, TrapsOnlyAtZero, Idle, WakesInTime
  <2> QED
    BY <2>2, <2>3, <2>4 DEF Inv
<1>4. CASE \E rates \in RateReads : DivideError(rates)
  <2>1. PICK rates \in RateReads : DivideError(rates)
    BY <1>4
  <2>2. /\ state' = "trapped"
        /\ UNCHANGED <<list, tree, qlen, next, accepted>>
    BY <2>1 DEF DivideError, tfifo, arrived
  <2>3. /\ Ordered' /\ Counted' /\ Logged' /\ RatedSpacing'
        /\ Waiting' = Waiting /\ Simulated
    BY <1>1, <2>2, Quiet
  <2>4. TypeOK'
    BY <1>1, <1>2, <2>2 DEF TypeOK
  <2>5. par.rate # 0 /\ \E o \in pend : o.rate = 0
    BY <1>2, <2>1, ReadFacts DEF DivideError
  <2>6. Clocked' /\ TrapsOnlyAtZero' /\ Idle' /\ WakesInTime'
    BY <1>1, <1>2, <2>2, <2>5 DEF Clocked, TrapsOnlyAtZero, Idle, WakesInTime
  <2> QED
    BY <2>3, <2>4, <2>6 DEF Inv
<1>5. CASE \E latency \in Latencies, rates \in RateReads : Stamped(len, latency, rates)
  <2>1. PICK latency \in Latencies, rates \in RateReads : Stamped(len, latency, rates)
    BY <1>5
  <2>2. /\ state' = state
        /\ list' \in Seq(PacketType) /\ tree' \subseteq PacketType
        /\ accepted' \subseteq PacketType /\ next' \in Nat /\ qlen' \in Nat
        /\ Ordered' /\ Counted' /\ Logged' /\ RatedSpacing'
        /\ \E p \in Waiting' : Delay!Accept(p)
    BY <1>1, <2>1, StampedStep
  <2>3. TypeOK'
    BY <1>1, <1>2, <2>2 DEF TypeOK
  <2>4. Clocked' /\ TrapsOnlyAtZero' /\ Idle' /\ WakesInTime'
    BY <1>1, <1>2, <2>2 DEF Clocked, TrapsOnlyAtZero, Idle, WakesInTime
  <2>5. Simulated
    BY <2>2 DEF Simulated, Delay!Next
  <2> QED
    BY <2>2, <2>3, <2>4, <2>5 DEF Inv
<1> QED
  BY <1>3, <1>4, <1>5 DEF netem_enqueue

LEMMA DeliverStep ==
  ASSUME Inv, NEW p \in Waiting, state = "up", run, netem_peek(p), Deliver(p),
         UNCHANGED <<config, now, arrived>>
  PROVE  Inv' /\ Simulated
<1>1. /\ p.time <= now /\ netem_erase_head(p) /\ qlen' = qlen - 1
      /\ UNCHANGED <<plan, state, par, pend, now, next, accepted,
                      timer, last, run, stale>>
  BY DEF Deliver, config, arrived, wakeup
<1>2. TypeOK /\ Ordered /\ Counted /\ Logged /\ RatedSpacing /\ Clocked
  BY DEF Inv
<1>3. /\ list' \in Seq(PacketType) /\ tree' \subseteq PacketType
      /\ Ordered' /\ Counted' /\ qlen' \in Nat /\ Waiting' = Waiting \ {p}
  BY <1>1, <1>2, EraseOrder
<1>4. TypeOK'
  BY <1>1, <1>2, <1>3 DEF TypeOK
<1>5. Logged'
  BY <1>1, <1>2, <1>3 DEF Logged
<1>6. RatedSpacing' /\ Clocked' /\ TrapsOnlyAtZero' /\ Idle' /\ WakesInTime'
  BY <1>1, <1>2 DEF RatedSpacing, Clocked, TrapsOnlyAtZero, Idle, WakesInTime
<1>7. Delay!Release(p)
  BY <1>1, <1>2, <1>3, PeekFirst DEF Delay!Release
<1>8. Simulated
  BY <1>7 DEF Simulated, Delay!Next
<1> QED
  BY <1>3, <1>4, <1>5, <1>6, <1>8 DEF Inv

LEMMA ThrottleStep ==
  ASSUME Inv, NEW p \in Waiting, state = "up", netem_peek(p), Throttle(p),
         UNCHANGED <<config, now, arrived>>
  PROVE  Inv' /\ Simulated
<1>1. /\ p.time > now /\ qdisc_watchdog_schedule_ns(p.time) /\ run' = FALSE
      /\ UNCHANGED <<plan, state, par, pend, now, next, accepted,
                      list, tree, qlen>>
  BY DEF Throttle, config, arrived, tfifo
<1>2. TypeOK /\ Ordered /\ Clocked
  BY DEF Inv
<1>3. /\ Ordered' /\ Counted' /\ Logged' /\ RatedSpacing'
      /\ Waiting' = Waiting /\ Simulated
  BY <1>1, Quiet
<1>4. \A q \in Waiting : q \in PacketType
  BY <1>2 DEF TypeOK, Waiting
<1>5. p.time \in Nat /\ now \in Nat /\ last \in Nat /\ timer \in Nat \cup {Absent}
  BY <1>2, <1>4 DEF TypeOK, PacketType
<1>6. \/ last = p.time /\ UNCHANGED <<timer, last, stale>>
      \/ last # p.time /\ timer' = p.time /\ last' = p.time /\ stale' = FALSE
  BY <1>1 DEF qdisc_watchdog_schedule_ns
<1>7. timer' = p.time \/ (stale' /\ last' = p.time)
  BY <1>1, <1>2, <1>5, <1>6 DEF Clocked
<1>8. Clocked'
  BY <1>1, <1>2, <1>5, <1>6 DEF Clocked, Absent
<1>9. \A q \in Waiting : netem_peek(q) => q.time = p.time
  <2> SUFFICES ASSUME NEW q \in Waiting, netem_peek(q), q # p PROVE q.time = p.time
    OBVIOUS
  <2>1. Delay!Before(p, q) /\ Delay!Before(q, p)
    BY <1>2, PeekFirst
  <2> QED
    BY <1>4, <2>1 DEF Delay!Before, PacketType
<1>10. WakesInTime'
  <2>1. \A q : netem_peek(q)' = netem_peek(q)
    BY <1>1 DEF netem_peek, rb_first
  <2> QED
    BY <1>3, <1>7, <1>9, <2>1 DEF WakesInTime
<1>11. TypeOK'
  <2>1. stale' \in BOOLEAN /\ run' \in BOOLEAN
    BY <1>1, <1>2, <1>6, Zenon DEF TypeOK
  <2>2. timer' \in Nat \cup {Absent} /\ last' \in Nat
    BY <1>5, <1>6
  <2> QED
    BY <1>1, <1>2, <2>1, <2>2 DEF TypeOK
<1>12. TrapsOnlyAtZero' /\ Idle'
  BY <1>1, <1>2 DEF TrapsOnlyAtZero, Idle
<1> QED
  BY <1>3, <1>8, <1>10, <1>11, <1>12 DEF Inv

LEMMA DequeueStep ==
  ASSUME Inv, netem_dequeue
  PROVE  Inv' /\ Simulated
<1>1. state = "up" /\ run /\ UNCHANGED <<config, now, arrived>>
  BY DEF netem_dequeue
<1>2. CASE DequeueEmpty
  <2>1. /\ UNCHANGED <<plan, state, par, pend, now, next, accepted,
                        list, tree, qlen, timer, last, stale>>
        /\ Waiting = {} /\ run' = FALSE
    BY <1>1, <1>2 DEF DequeueEmpty, config, arrived, tfifo
  <2>2. TypeOK /\ Clocked
    BY DEF Inv
  <2>3. /\ Ordered' /\ Counted' /\ Logged' /\ RatedSpacing'
        /\ Waiting' = Waiting /\ Simulated
    BY <2>1, Quiet
  <2>4. TypeOK'
    BY <2>1, <2>2 DEF TypeOK
  <2>5. Clocked' /\ TrapsOnlyAtZero' /\ Idle' /\ WakesInTime'
    BY <1>1, <2>1, <2>2, <2>3 DEF Clocked, TrapsOnlyAtZero, Idle, WakesInTime
  <2> QED
    BY <2>3, <2>4, <2>5 DEF Inv
<1>3. CASE \E p \in Waiting : netem_peek(p) /\ (Deliver(p) \/ Throttle(p))
  BY <1>1, <1>3, DeliverStep, ThrottleStep
<1> QED
  BY <1>2, <1>3 DEF netem_dequeue

LEMMA WatchdogStep ==
  ASSUME Inv, qdisc_watchdog
  PROVE  Inv' /\ Simulated
<1>1. /\ UNCHANGED <<plan, state, par, pend, now, next, accepted,
                      list, tree, qlen, last, stale>>
      /\ timer # Absent /\ timer <= now /\ timer' = Absent /\ run' = TRUE
  BY DEF qdisc_watchdog, config, arrived, tfifo
<1>2. TypeOK /\ Clocked /\ TrapsOnlyAtZero /\ Idle
  BY DEF Inv
<1>3. /\ Ordered' /\ Counted' /\ Logged' /\ RatedSpacing'
      /\ Waiting' = Waiting /\ Simulated
  BY <1>1, Quiet
<1>4. TypeOK'
  BY <1>1, <1>2 DEF TypeOK
<1>5. Clocked'
  BY <1>1, <1>2 DEF Clocked
<1>6. TrapsOnlyAtZero' /\ Idle' /\ WakesInTime'
  BY <1>1, <1>2, <1>3 DEF TrapsOnlyAtZero, Idle, WakesInTime
<1> QED
  BY <1>3, <1>4, <1>5, <1>6 DEF Inv

LEMMA TickStep ==
  ASSUME Inv, Tick
  PROVE  Inv' /\ Simulated
<1>1. /\ UNCHANGED <<plan, state, par, pend, next, accepted,
                      list, tree, qlen, timer, last, run, stale>>
      /\ now' = now + 1
  BY DEF Tick, config, arrived, tfifo, wakeup
<1>2. TypeOK /\ Ordered /\ Counted /\ Logged /\ RatedSpacing
      /\ Clocked /\ TrapsOnlyAtZero /\ Idle /\ WakesInTime
  BY DEF Inv
<1>3. Waiting' = Waiting /\ \A q : netem_peek(q)' = netem_peek(q)
  BY <1>1 DEF Waiting, netem_peek, rb_first
<1>4. now \in Nat /\ last \in Nat /\ \A p \in accepted : p.time \in Nat
  BY <1>2 DEF TypeOK, PacketType
<1>5. TypeOK'
  BY <1>1, <1>2, <1>4 DEF TypeOK
<1>6. Ordered'
  BY <1>1, <1>2 DEF Ordered, Sorted, Below, Ties, Numbered, t_tail
<1>7. Logged'
  BY <1>1, <1>2, <1>3, <1>4 DEF Logged
<1>8. Clocked'
  BY <1>1, <1>2, <1>4 DEF Clocked
<1>9. Counted' /\ RatedSpacing' /\ TrapsOnlyAtZero' /\ Idle'
  BY <1>1, <1>2, <1>3 DEF Counted, QlenExact, RatedSpacing, TrapsOnlyAtZero, Idle
<1>10. WakesInTime'
  BY <1>1, <1>2, <1>3 DEF WakesInTime
<1>11. Simulated
  BY <1>1, <1>3 DEF Simulated, Delay!Next, Delay!Tick
<1> QED
  BY <1>5, <1>6, <1>7, <1>8, <1>9, <1>10, <1>11 DEF Inv

\* The steps of the control path that leave the packets alone.
LEMMA ChangeStep ==
  ASSUME Inv,
         \/ \E o \in plan : netem_init(o) \/ netem_change(o)
         \/ netem_change_returns
         \/ dev_activate
  PROVE  Inv' /\ Simulated
<1>1. UNCHANGED <<plan, now, next, accepted, list, tree, qlen,
                  timer, last, run, stale>>
  BY DEF netem_init, netem_change, netem_change_returns, dev_activate,
         tfifo, arrived, wakeup
<1>2. TypeOK /\ Clocked /\ TrapsOnlyAtZero /\ Idle /\ WakesInTime
  BY DEF Inv
<1>3. /\ Ordered' /\ Counted' /\ Logged' /\ RatedSpacing'
      /\ Waiting' = Waiting /\ Simulated
  BY <1>1, Quiet
<1>4. \A q : netem_peek(q)' = netem_peek(q)
  BY <1>1 DEF netem_peek, rb_first
<1>5. Clocked'
  BY <1>1, <1>2 DEF Clocked
<1>6. \/ state' = state /\ state # "trapped"
      \/ state \in {"none", "down"} /\ state' = "up"
  BY DEF netem_init, netem_change, netem_change_returns, dev_activate
<1>7. TrapsOnlyAtZero' /\ Idle'
  BY <1>2, <1>3, <1>6 DEF TrapsOnlyAtZero, Idle
<1>8. WakesInTime'
  BY <1>1, <1>2, <1>3, <1>4, <1>6 DEF WakesInTime, Idle
<1>9. par' = par \/ \E o \in plan : par' = Stored(o)
  BY <1>2 DEF TypeOK, netem_init, netem_change, netem_change_returns, dev_activate
<1>10. par' \in [limit : Nat, latency : Nat, rate : Nat]
  BY <1>2, <1>9, StoredFacts DEF TypeOK
<1>11. pend' \subseteq plan
  BY <1>2 DEF TypeOK, netem_init, netem_change, netem_change_returns, dev_activate
<1>12. TypeOK'
  BY <1>1, <1>2, <1>6, <1>10, <1>11 DEF TypeOK
<1> QED
  BY <1>3, <1>5, <1>7, <1>8, <1>12 DEF Inv

\* The steps that drop the packets.
LEMMA ResetStep ==
  ASSUME Inv, dev_deactivate \/ netem_destroy
  PROVE  Inv' /\ Simulated
<1>1. /\ UNCHANGED <<plan, pend, now, next>>
      /\ list' = <<>> /\ tree' = {} /\ qlen' = 0 /\ accepted' = {}
      /\ timer' = Absent /\ run' = FALSE /\ state' \in {"none", "down"}
  BY DEF dev_deactivate, netem_destroy, netem_reset
<1>2. TypeOK /\ Clocked
  BY DEF Inv
<1>3. /\ Ordered' /\ Counted' /\ Logged' /\ RatedSpacing'
      /\ Waiting' = {} /\ Simulated
  BY <1>1, Emptied
<1>4. TrapsOnlyAtZero' /\ Idle' /\ WakesInTime'
  BY <1>1, <1>3 DEF TrapsOnlyAtZero, Idle, WakesInTime
<1>5. now \in Nat /\ last \in Nat
  BY <1>2 DEF TypeOK
<1>6. \/ last' = last /\ stale' = (stale \/ timer # Absent)
      \/ last' = 0 /\ stale' = FALSE
  BY DEF dev_deactivate, netem_destroy, netem_reset
<1>7. Clocked'
  <2>1. last' <= now' \/ stale'
    <3>1. CASE last' = last /\ stale' = (stale \/ timer # Absent)
      <4>1. last <= now \/ stale \/ timer # Absent
        BY <1>2 DEF Clocked
      <4> QED
        BY <1>1, <3>1, <4>1, Zenon
    <3>2. CASE last' = 0
      BY <1>1, <1>5, <3>2
    <3> QED
      BY <1>6, <3>1, <3>2
  <2> QED
    BY <1>1, <2>1 DEF Clocked
<1>8. \/ par' = par /\ state = "up"
      \/ par' = NoParams /\ state' = "none"
  BY DEF dev_deactivate, netem_destroy
<1>9. par' \in [limit : Nat, latency : Nat, rate : Nat]
  BY <1>1, <1>2, <1>8 DEF TypeOK, NoParams
<1>10. stale' \in BOOLEAN /\ run' \in BOOLEAN
  BY <1>1, <1>6, Zenon
<1>11. TypeOK'
  <2>1. list' \in Seq(PacketType) /\ tree' \subseteq PacketType
    BY <1>1
  <2>2. last' \in Nat
    BY <1>5, <1>6
  <2> QED
    BY <1>1, <1>2, <1>9, <1>10, <2>1, <2>2 DEF TypeOK
<1> QED
  BY <1>3, <1>4, <1>7, <1>11 DEF Inv

LEMMA InvStep == Inv /\ [Next]_vars => Inv' /\ Simulated
<1> SUFFICES ASSUME Inv, [Next]_vars PROVE Inv' /\ Simulated
  OBVIOUS
<1>1. CASE PacketPath
  BY <1>1, EnqueueStep, DequeueStep, WatchdogStep, TickStep DEF PacketPath
<1>2. CASE ControlPath
  BY <1>2, ChangeStep, ResetStep DEF ControlPath
<1>3. CASE UNCHANGED vars
  <2>1. UNCHANGED <<plan, state, par, pend, now, next, accepted,
                    list, tree, qlen, timer, last, run, stale>>
    BY <1>3 DEF vars, config, arrived, tfifo, wakeup
  <2>2. TypeOK /\ Clocked /\ TrapsOnlyAtZero /\ Idle /\ WakesInTime
    BY DEF Inv
  <2>3. /\ Ordered' /\ Counted' /\ Logged' /\ RatedSpacing'
        /\ Waiting' = Waiting /\ Simulated
    BY <2>1, Quiet
  <2>4. \A q : netem_peek(q)' = netem_peek(q)
    BY <2>1 DEF netem_peek, rb_first
  <2>5. TypeOK' /\ Clocked' /\ TrapsOnlyAtZero' /\ Idle'
    BY <2>1, <2>2, <2>3 DEF TypeOK, Clocked, TrapsOnlyAtZero, Idle
  <2>6. WakesInTime'
    BY <2>1, <2>2, <2>3, <2>4 DEF WakesInTime
  <2> QED
    BY <2>3, <2>5, <2>6 DEF Inv
<1> QED
  BY <1>1, <1>2, <1>3 DEF Next

LEMMA InvAlways == Spec => []Inv
  BY InvInit, InvStep, PTL DEF Spec
-----------------------------------------------------------------------------
\* In netem_enqueue, netem_dequeue and netem_change every variable keeps its type.
THEOREM NetemTypes == Spec => []TypeOK
<1>1. Inv => TypeOK
  BY DEF Inv
<1> QED
  BY <1>1, InvAlways, PTL

\* The q.qlen that netem_enqueue compares with the limit counts the packets of
\* the list and the tree.
THEOREM QlenCorrect == Spec => []QlenExact
<1>1. Inv => QlenExact
  BY DEF Inv, Counted
<1> QED
  BY <1>1, InvAlways, PTL

\* With a rate, netem_enqueue gives every packet a time that is its transmission
\* time after those of all packets before it.
THEOREM SpacingCorrect == Spec => []RatedSpacing
<1>1. Inv => RatedSpacing
  BY DEF Inv
<1> QED
  BY <1>1, InvAlways, PTL

\* netem_dequeue leaves the watchdog armed for the packet that leaves first,
\* unless its expiry is the one a reset left in last_expires.
THEOREM WakeCorrect == Spec => []WakesInTime
<1>1. Inv => WakesInTime
  BY DEF Inv
<1> QED
  BY <1>1, InvAlways, PTL

\* packet_time_ns divides by zero only while netem_change replaces a rate by a rate
\* of zero; no other mix of its stores makes it do so.
THEOREM TrapCondition == Spec => []TrapsOnlyAtZero
<1>1. Inv => TrapsOnlyAtZero
  BY DEF Inv
<1> QED
  BY <1>1, InvAlways, PTL

\* tfifo_enqueue and netem_dequeue implement the delay queue: packets leave when
\* they are due, the earliest first and equal ones in the order they came.
THEOREM Refinement == Spec => EarliestFirst
<1>1. Init => Delay!Init
  BY DEF Init, Delay!Init, Waiting
<1>2. Inv /\ [Next]_vars => [Delay!Next]_<<now, next, Waiting>>
  BY InvStep DEF Simulated
<1> QED
  BY <1>1, <1>2, InvAlways, PTL DEF Spec, EarliestFirst, Delay!Spec
=============================================================================
