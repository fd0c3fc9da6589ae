-------------------------- MODULE ControllerProofs --------------------------
(***************************************************************************)
(* Proofs about Controller, for all programs, plans, devices and bounds.   *)
(***************************************************************************)
EXTENDS Controller, TLAPS

(***************************************************************************)
(* The conversions.                                                        *)
(***************************************************************************)
\* The rate that the kernel reads is the rate of the plan, however wide it is.
LEMMA RateSurvives ==
    ASSUME NEW bandwidth \in Nat
    PROVE  /\ bandwidth \div 8 \in Nat
           /\ RateInForce(RateAttribute(bandwidth)) = bandwidth \div 8
<1>1. bandwidth \div 8 \in Nat
    OBVIOUS
<1>2. U32 \in Nat \ {0}
    BY PschedAssumption
<1> QED
    BY <1>1, <1>2 DEF RateInForce, RateAttribute, MaxOf

\* Division by the length of a tick loses less than a tick.
LEMMA TickFloor ==
    ASSUME NEW time \in Nat
    PROVE  /\ time \div NsPerTick \in Nat
           /\ (time \div NsPerTick) * NsPerTick \in time - NsPerTick + 1..time
<1>1. NsPerTick \in Nat \ {0}
    BY PschedAssumption
<1>2. time \div NsPerTick \in Nat
    BY <1>1
<1>3. (time \div NsPerTick) * NsPerTick <= time
    BY <1>1
<1>4. time < (time \div NsPerTick) * NsPerTick + NsPerTick
    BY <1>1
<1>5. (time \div NsPerTick) * NsPerTick \in Nat
    BY <1>1, <1>2
<1> QED
    BY <1>1, <1>2, <1>3, <1>4, <1>5

\* The delay that the kernel reads is less than a tick short of that of the plan.
LEMMA DelaySurvives ==
    ASSUME NEW usec \in Nat, (usec * NSEC_PER_USEC) \div NsPerTick < U32
    PROVE  LET latency == PSCHED_TICKS2NS(tc_core_time2tick(usec))
               delay == usec * NSEC_PER_USEC
           IN latency \in Nat /\ latency \in delay - NsPerTick + 1..delay
<1> DEFINE delay == usec * NSEC_PER_USEC
           ticks == delay \div NsPerTick
<1>1. delay \in Nat
    BY ControllerAssumption
<1>2. ticks \in Nat /\ ticks * NsPerTick \in delay - NsPerTick + 1..delay
    BY <1>1, TickFloor
<1>3. U32 \in Nat \ {0} /\ NsPerTick \in Nat \ {0}
    BY PschedAssumption
<1>4. ticks % U32 = ticks
    <2>1. ticks < U32
        OBVIOUS
    <2> HIDE DEF ticks
    <2> QED BY <2>1, <1>2, <1>3
<1>5. ticks * NsPerTick \in Nat
    <2> HIDE DEF ticks
    <2> QED BY <1>2, <1>3
<1>6. PSCHED_TICKS2NS(tc_core_time2tick(usec)) = ticks * NsPerTick
    BY <1>4 DEF PSCHED_TICKS2NS, tc_core_time2tick
<1> QED
    BY <1>2, <1>5, <1>6

-----------------------------------------------------------------------------
(***************************************************************************)
(* Programs and what one request changes.                                  *)
(***************************************************************************)
LEMMA ProgramFacts ==
    ASSUME NEW p \in Programs
    PROVE  /\ p.entries \in Nat \ {0}
           /\ p.first \in 0..p.entries - 1
           /\ Len(p.requests) \in Nat \ {0}
           /\ DOMAIN p.requests = 1..Len(p.requests)
           /\ \A i \in DOMAIN p.requests :
                p.requests[i] \in Requests /\ Target(p.requests[i]) \in Targets
           /\ \A i, j \in DOMAIN p.requests :
                i # j => Target(p.requests[i]) # Target(p.requests[j])
           /\ p.setup \subseteq Commands
<1>1. /\ p.entries \in Nat \ {0}
      /\ p.first \in 0..p.entries - 1
      /\ p.requests \in Seq(Requests)
      /\ p.requests # <<>>
      /\ p.setup \subseteq Commands
      /\ \A i, j \in DOMAIN p.requests :
            i # j => Target(p.requests[i]) # Target(p.requests[j])
    BY ControllerAssumption
<1>2. /\ Len(p.requests) \in Nat \ {0}
      /\ DOMAIN p.requests = 1..Len(p.requests)
      /\ \A i \in DOMAIN p.requests : p.requests[i] \in Requests
    BY <1>1
<1>3. \A r \in Requests : Target(r) \in Targets
    BY DEF Requests, Target, Targets
<1> QED
    BY <1>1, <1>2, <1>3

LEMMA PlanFacts ==
    ASSUME NEW p \in Programs, NEW e \in 0..p.entries - 1
    PROVE  /\ p.plan[e].bandwidth \in Nat
           /\ p.plan[e].delay \in Nat
           /\ (p.plan[e].delay * NSEC_PER_USEC) \div NsPerTick < U32
BY ControllerAssumption

\* A qdisc that goes away disturbs nothing.
LEMMA Kept ==
    ASSUME NEW p \in Programs, NEW qs, NEW qt,
           \A t \in Targets : qt[t] \subseteq qs[t],
           NEW i \in DOMAIN p.requests, NEW e, WorksBy(p, qs, i, e)
    PROVE  WorksBy(p, qt, i, e)
<1>1. Target(p.requests[i]) \in Targets
    BY ProgramFacts
<1> QED
    BY <1>1 DEF WorksBy

\* A changed qdisc works by the entry.
LEMMA ChangeWorks ==
    ASSUME NEW p \in Programs, NEW e \in 0..p.entries - 1,
           NEW q \in Qdiscs, NEW req \in Requests
    PROVE  LET c == qdisc_change(q, req, p.plan[e])
               delay == p.plan[e].delay * NSEC_PER_USEC
           IN /\ c \in Qdiscs
              /\ req.rated => c.rate = p.plan[e].bandwidth \div 8
              /\ req.delayed => c.latency \in delay - NsPerTick + 1..delay
<1> DEFINE rate == RateInForce(RateAttribute(p.plan[e].bandwidth))
           latency == PSCHED_TICKS2NS(tc_core_time2tick(p.plan[e].delay))
           c == qdisc_change(q, req, p.plan[e])
<1>1. rate \in Nat /\ rate = p.plan[e].bandwidth \div 8
    BY PlanFacts, RateSurvives
<1>2. LET delay == p.plan[e].delay * NSEC_PER_USEC
      IN latency \in Nat /\ latency \in delay - NsPerTick + 1..delay
    BY PlanFacts, DelaySurvives
<1>3. /\ c = [q EXCEPT !.rate = IF req.rated THEN rate ELSE @,
                       !.latency = IF req.delayed THEN latency ELSE @]
    BY DEF qdisc_change
<1> HIDE DEF rate, latency, c
<1>4. c \in Qdiscs
    BY <1>1, <1>2, <1>3 DEF Qdiscs
<1>5. req.rated => c.rate = rate
    BY <1>3 DEF Qdiscs
<1>6. req.delayed => c.latency = latency
    BY <1>3 DEF Qdiscs
<1> QED
    BY <1>1, <1>2, <1>4, <1>5, <1>6 DEF c

\* A request that is carried out brings its own qdisc to the entry, and no other.
LEMMA Applied ==
    ASSUME NEW p \in Programs, NEW qs \in [Targets -> SUBSET Qdiscs],
           NEW s \in DOMAIN p.requests, NEW e \in 0..p.entries - 1, NEW qt,
           qt = Changed(qs, p.requests[s], p.plan[e])
    PROVE  /\ qt \in [Targets -> SUBSET Qdiscs]
           /\ WorksBy(p, qt, s, e)
           /\ \A i \in DOMAIN p.requests : \A f :
                i # s /\ WorksBy(p, qs, i, f) => WorksBy(p, qt, i, f)
<1> DEFINE req == p.requests[s]
           Change(q) == qdisc_change(q, req, p.plan[e])
           new == {Change(q) : q \in qs[Target(req)]}
<1>1. req \in Requests /\ Target(req) \in Targets
    BY ProgramFacts
<1>2. \A q \in Qdiscs : /\ Change(q) \in Qdiscs
                        /\ req.rated => Change(q).rate = p.plan[e].bandwidth \div 8
                        /\ req.delayed => Change(q).latency \in
                             p.plan[e].delay * NSEC_PER_USEC - NsPerTick + 1..
                             p.plan[e].delay * NSEC_PER_USEC
    BY <1>1, ChangeWorks
<1>3. qt = [qs EXCEPT ![Target(req)] = new]
    BY DEF Changed
<1>4. qs[Target(req)] \subseteq Qdiscs
    BY <1>1
<1> HIDE DEF Change
<1>5. new \subseteq Qdiscs
    BY <1>2, <1>4
<1>6. WorksBy(p, qt, s, e)
    <2>1. qt[Target(req)] = new
        BY <1>1, <1>3
    <2>2. \A c \in new : \E q \in Qdiscs : c = Change(q)
        BY <1>4
    <2> QED BY <2>1, <2>2, <1>2 DEF WorksBy
<1> HIDE DEF new
<1>7. qt \in [Targets -> SUBSET Qdiscs]
    BY <1>1, <1>3, <1>5
<1>8. ASSUME NEW i \in DOMAIN p.requests, NEW f, i # s, WorksBy(p, qs, i, f)
      PROVE  WorksBy(p, qt, i, f)
    <2>1. Target(p.requests[i]) # Target(req) /\ Target(p.requests[i]) \in Targets
        BY <1>8, ProgramFacts
    <2>2. qt[Target(p.requests[i])] = qs[Target(p.requests[i])]
        BY <2>1, <1>3
    <2> QED BY <2>2, <1>8 DEF WorksBy
<1> QED
    BY <1>6, <1>7, <1>8

\* The entry before the next one is the present one.
LEMMA NextEntry ==
    ASSUME NEW n \in Nat \ {0}, NEW x \in 0..n - 1
    PROVE  /\ (x + 1) % n \in 0..n - 1
           /\ x = IF (x + 1) % n = 0 THEN n - 1 ELSE ((x + 1) % n) - 1
<1>1. CASE x + 1 < n
    BY <1>1
<1>2. CASE x + 1 = n
    BY <1>2
<1> QED
    BY <1>1, <1>2

-----------------------------------------------------------------------------
(***************************************************************************)
(* The invariant.  Adjacent alone is not inductive: a round may only start *)
(* when the last one was applied everywhere, and an acknowledgement may    *)
(* only be believed because it was sent by the change it stands for.       *)
(***************************************************************************)
Everywhere(e) == \A i \in DOMAIN program.requests : InForce(i, e)

Rounds ==
    /\ pc = "setup" => step = 1 /\ ~warm
    /\ pc = "advance" => IF warm THEN Everywhere(index) ELSE step = 1
    /\ pc = "sleep" => warm /\ Everywhere(index)
    /\ pc = "send" /\ warm => InForce(step, Before)

Believed ==
    \A k \in DOMAIN socket :
        pc = "recv" /\ socket[k].own /\ ~socket[k].error => InForce(step, index)

Single ==
    \A j, k \in DOMAIN socket : socket[j].own /\ socket[k].own => j = k

Inv == TypeOK /\ Rounds /\ Believed /\ Single /\ Adjacent /\ AnswersCurrent /\ WaitsForAnswer

LEMMA InvInit == Init => Inv
<1> SUFFICES ASSUME Init PROVE Inv
    OBVIOUS
<1>1. /\ program.entries \in Nat \ {0}
      /\ program.first \in 0..program.entries - 1
      /\ Len(program.requests) \in Nat \ {0}
      /\ DOMAIN program.requests = 1..Len(program.requests)
    BY ProgramFacts DEF Init
<1>2. TypeOK
    <2>1. qdiscs \in [Targets -> SUBSET Qdiscs]
        BY DEF Init
    <2>2. socket \in Seq(Messages) /\ seq \in 0..U32 - 1
        BY PschedAssumption DEF Init
    <2>3. warm \in BOOLEAN
        BY DEF Init
    <2> QED BY <1>1, <2>1, <2>2, <2>3 DEF Init, TypeOK
<1>3. DOMAIN socket = {}
    BY DEF Init
<1>4. Adjacent
    BY <1>1 DEF Init, Adjacent
<1> QED
    BY <1>2, <1>3, <1>4 DEF Init, Inv, Rounds, Believed, Single, AnswersCurrent, WaitsForAnswer

\* What the actions of the process find.
LEMMA Facts ==
    ASSUME Inv
    PROVE  /\ program \in Programs
           /\ program.entries \in Nat \ {0}
           /\ index \in 0..program.entries - 1
           /\ Before \in 0..program.entries - 1
           /\ Len(program.requests) \in Nat \ {0}
           /\ DOMAIN program.requests = 1..Len(program.requests)
           /\ step \in 1..Len(program.requests)
           /\ socket \in Seq(Messages)
           /\ qdiscs \in [Targets -> SUBSET Qdiscs]
           /\ seq \in 0..U32 - 1
           /\ U32 \in Nat \ {0}
<1>1. TypeOK
    BY DEF Inv
<1>2. /\ program.entries \in Nat \ {0}
      /\ Len(program.requests) \in Nat \ {0}
      /\ DOMAIN program.requests = 1..Len(program.requests)
    BY <1>1, ProgramFacts DEF TypeOK
<1> QED
    BY <1>1, <1>2, PschedAssumption DEF TypeOK, Before

\* The end of the process keeps what the qdiscs are.
LEMMA ExitStep ==
    ASSUME Inv, exit, UNCHANGED <<devices, qdiscs>>
    PROVE  Inv'
<1>1. TypeOK'
    BY Facts DEF Inv, TypeOK, exit
<1>2. DOMAIN socket' = {}
    BY DEF exit
<1>3. Adjacent'
    BY DEF Inv, Adjacent, exit, InForce, Before
<1> QED
    BY <1>1, <1>2, <1>3
       DEF Inv, exit, Rounds, Believed, Single, AnswersCurrent, WaitsForAnswer

\* Qdiscs that go away disturb nothing while the process stands still.
LEMMA RemoveStep ==
    ASSUME Inv, NEW d \in Devices, Remove(d)
    PROVE  Inv'
<1>1. \A t \in Targets : qdiscs'[t] \subseteq qdiscs[t]
    BY Facts DEF Remove
<1>2. UNCHANGED <<program, pc, index, step, seq, warm, starts, socket>>
    BY DEF Remove, process
<1>3. \A i \in DOMAIN program.requests : \A e :
        WorksBy(program, qdiscs, i, e) => WorksBy(program, qdiscs', i, e)
    BY <1>1, Facts, Kept
<1>4. TypeOK'
    <2>1. qdiscs' \in [Targets -> SUBSET Qdiscs]
        BY Facts DEF Remove
    <2>2. devices' \subseteq Devices
        BY DEF Inv, TypeOK, Remove
    <2> QED BY <2>1, <2>2, <1>2 DEF Inv, TypeOK
<1>5. Adjacent'
    <2>1. Adjacent
        BY DEF Inv
    <2>2. \A i \in 1..step - 1 : i \in DOMAIN program.requests
        BY Facts
    <2>3. \A i \in step + 1..Len(program.requests) : i \in DOMAIN program.requests
        BY Facts
    <2>4. step \in DOMAIN program.requests /\ Before' = Before
        BY Facts, <1>2 DEF Before
    <2> QED
        BY <2>1, <2>2, <2>3, <2>4, <1>2, <1>3 DEF Adjacent, InForce
<1>6. Rounds' /\ Believed'
    BY <1>2, <1>3, Facts DEF Inv, Rounds, Believed, Everywhere, InForce, Before
<1>7. Single' /\ AnswersCurrent' /\ WaitsForAnswer'
    BY <1>2 DEF Inv, Single, AnswersCurrent, WaitsForAnswer, Accepts
<1> QED
    BY <1>4, <1>5, <1>6, <1>7 DEF Inv

\* tc adds qdiscs of the program and no others.
LEMMA AddedType ==
    ASSUME NEW has \in [Targets -> SUBSET Qdiscs], NEW commands \in SUBSET Commands,
           NEW place
    PROVE  Added(has, commands, place) \in [Targets -> SUBSET Qdiscs]
<1>1. \A c \in commands : c.qdisc \in Qdiscs
    BY DEF Commands
<1> QED
    BY <1>1 DEF Added

LEMMA SetupStep == Inv /\ Setup => Inv'
<1> SUFFICES ASSUME Inv, Setup PROVE Inv'
    OBVIOUS
<1>1. qdiscs' \in [Targets -> SUBSET Qdiscs]
    <2>1. PICK deleted \in SUBSET {c.dev : c \in program.setup},
               done \in SUBSET program.setup :
            LET left == [t \in Targets |-> IF t[1] \in deleted THEN {} ELSE qdiscs[t]]
            IN qdiscs' = Added(Added(left, done, "root"), done, "child")
        BY DEF Setup
    <2> DEFINE left == [t \in Targets |-> IF t[1] \in deleted THEN {} ELSE qdiscs[t]]
    <2>2. left \in [Targets -> SUBSET Qdiscs]
        BY Facts
    <2>3. done \in SUBSET Commands
        BY Facts, ProgramFacts
    <2> HIDE DEF left
    <2>4. Added(left, done, "root") \in [Targets -> SUBSET Qdiscs]
        BY <2>2, <2>3, AddedType
    <2>5. Added(Added(left, done, "root"), done, "child") \in [Targets -> SUBSET Qdiscs]
        BY <2>3, <2>4, AddedType
    <2> QED BY <2>1, <2>5 DEF left
<1>2. step = 1 /\ ~warm /\ pc = "setup" /\ devices' = devices
    BY DEF Inv, Rounds, Setup
<1>3. CASE exit
    <2>1. TypeOK'
        BY <1>1, <1>2, <1>3, Facts DEF Inv, TypeOK, exit
    <2>2. Adjacent'
        BY <1>2, <1>3 DEF Adjacent, exit
    <2>3. DOMAIN socket' = {} /\ pc' = "exit"
        BY <1>3 DEF exit
    <2> QED
        BY <2>1, <2>2, <2>3 DEF Inv, Rounds, Believed, Single, AnswersCurrent, WaitsForAnswer
<1>4. CASE /\ pc' = "advance"
           /\ seq' \in Clock
           /\ UNCHANGED <<program, index, step, socket, warm, starts>>
    <2>1. seq' \in 0..U32 - 1
        BY <1>4, ControllerAssumption
    <2>2. TypeOK'
        BY <1>1, <1>2, <1>4, <2>1, Facts DEF Inv, TypeOK
    <2>3. Adjacent'
        BY <1>2, <1>4 DEF Adjacent
    <2>4. AnswersCurrent'
        BY <1>2, <1>4 DEF Inv, AnswersCurrent
    <2> QED
        BY <1>2, <1>4, <2>2, <2>3, <2>4 DEF Inv, Rounds, Believed, Single, WaitsForAnswer
<1> QED
    BY <1>3, <1>4 DEF Setup

\* A round starts from qdiscs that all work by the entry before.
LEMMA AdvanceStep == Inv /\ Advance => Inv'
<1> SUFFICES ASSUME Inv, Advance PROVE Inv'
    OBVIOUS
<1>1. /\ pc = "advance" /\ pc' = "send" /\ step' = 1
      /\ UNCHANGED <<program, seq, socket, devices, qdiscs, warm, starts>>
    BY DEF Advance
<1>2. index' \in 0..program.entries - 1 /\ Before' = index
    BY <1>1, Facts, NextEntry DEF Advance, Before
<1>3. TypeOK'
    BY <1>1, <1>2, Facts DEF Inv, TypeOK
<1>4. warm => \A i \in DOMAIN program.requests : InForce(i, Before)'
    BY <1>1, <1>2 DEF Inv, Rounds, Everywhere, InForce
<1>5. step' \in DOMAIN program.requests
    BY <1>1, Facts
<1>6. \A i \in step' + 1..Len(program.requests) : i \in DOMAIN program.requests
    BY <1>1, Facts
<1>7. Adjacent'
    BY <1>1, <1>4, <1>5, <1>6 DEF Adjacent
<1>8. Rounds'
    BY <1>1, <1>4, <1>5 DEF Rounds
<1> QED
    BY <1>1, <1>3, <1>7, <1>8 DEF Inv, Believed, Single, AnswersCurrent, WaitsForAnswer

LEMMA WakeStep == Inv /\ Wake => Inv'
<1> SUFFICES ASSUME Inv, Wake PROVE Inv'
    OBVIOUS
<1>1. /\ pc = "sleep" /\ pc' = "advance"
      /\ UNCHANGED <<program, index, step, seq, socket, devices, qdiscs, warm, starts>>
    BY DEF Wake
<1>2. TypeOK'
    BY <1>1 DEF Inv, TypeOK
<1>3. Adjacent' /\ Rounds'
    BY <1>1 DEF Inv, Adjacent, Rounds, Everywhere, InForce, Before
<1> QED
    BY <1>1, <1>2, <1>3 DEF Inv, Believed, Single, AnswersCurrent, WaitsForAnswer

LEMMA RestartStep == Inv /\ Restart => Inv'
<1> SUFFICES ASSUME Inv, Restart PROVE Inv'
    OBVIOUS
<1>1. /\ pc' = "setup" /\ step' = 1 /\ warm' = FALSE /\ index' = program'.first
      /\ program' \in Programs
      /\ UNCHANGED <<seq, socket, devices, qdiscs>>
    BY DEF Restart
<1>2. /\ index' \in 0..program'.entries - 1
      /\ step' \in DOMAIN program'.requests
    BY <1>1, ProgramFacts
<1>3. starts' \in Nat
    BY DEF Inv, TypeOK, Restart
<1>4. TypeOK'
    BY <1>1, <1>2, <1>3 DEF Inv, TypeOK
<1>5. Adjacent'
    BY <1>1 DEF Adjacent
<1>6. AnswersCurrent'
    BY <1>1 DEF Inv, AnswersCurrent, Restart
<1> QED
    BY <1>1, <1>4, <1>5, <1>6 DEF Inv, Rounds, Believed, Single, WaitsForAnswer

\* The messages of a socket that gets one more.
LEMMA Appended ==
    ASSUME NEW s \in Seq(Messages), NEW m \in Messages
    PROVE  /\ Append(s, m) \in Seq(Messages)
           /\ DOMAIN Append(s, m) = 1..Len(s) + 1
           /\ DOMAIN s = 1..Len(s) /\ Len(s) \in Nat
           /\ Append(s, m)[Len(s) + 1] = m
           /\ \A k \in 1..Len(s) : Append(s, m)[k] = s[k]
OBVIOUS

\* The messages of a socket that loses its first.
LEMMA Dropped ==
    ASSUME NEW s \in Seq(Messages), s # <<>>
    PROVE  /\ Tail(s) \in Seq(Messages)
           /\ DOMAIN s = 1..Len(s) /\ Len(s) \in Nat \ {0}
           /\ DOMAIN Tail(s) = 1..Len(s) - 1
           /\ Head(s) = s[1] /\ Head(s) \in Messages
           /\ \A k \in 1..Len(s) - 1 : Tail(s)[k] = s[k + 1]
OBVIOUS

\* The answer that the kernel leaves is the only one of its own in the socket, and it
\* is positive only if the request was carried out.
LEMMA SendStep == Inv /\ Send => Inv'
<1> SUFFICES ASSUME Inv, Send PROVE Inv'
    OBVIOUS
<1>1. /\ pc = "send" /\ pc' = "recv" /\ seq' = NextSeq(seq)
      /\ UNCHANGED <<program, index, step, devices, warm, starts>>
    BY DEF Send
<1>2. seq' \in 0..U32 - 1
    BY <1>1, Facts DEF NextSeq
<1>3. PICK error \in BOOLEAN :
        /\ socket' = Append(socket, Ack(seq', error))
        /\ \/ error /\ qdiscs' = qdiscs
           \/ qdiscs' = Changed(qdiscs, program.requests[step], program.plan[index])
    BY DEF Send, tc_modify_qdisc, Request
<1>4. Ack(seq', error) \in Messages
    BY <1>2 DEF Ack, Messages
<1>5. /\ socket' \in Seq(Messages)
      /\ DOMAIN socket' = 1..Len(socket) + 1
      /\ DOMAIN socket = 1..Len(socket) /\ Len(socket) \in Nat
      /\ socket'[Len(socket) + 1] = Ack(seq', error)
      /\ \A k \in 1..Len(socket) : socket'[k] = socket[k]
    BY <1>3, <1>4, Facts, Appended
<1>6. \A k \in DOMAIN socket : ~socket[k].own
    BY <1>1 DEF Inv, AnswersCurrent
<1>7. \A k \in DOMAIN socket' : socket'[k].own => socket'[k] = Ack(seq', error)
    BY <1>5, <1>6
<1>8. /\ qdiscs' \in [Targets -> SUBSET Qdiscs]
      /\ (error /\ qdiscs' = qdiscs) \/ WorksBy(program, qdiscs', step, index)
      /\ \A i \in DOMAIN program.requests : \A e :
            i # step /\ WorksBy(program, qdiscs, i, e) => WorksBy(program, qdiscs', i, e)
    <2>1. CASE error /\ qdiscs' = qdiscs
        BY <2>1, Facts
    <2>2. CASE qdiscs' = Changed(qdiscs, program.requests[step], program.plan[index])
        <3>1. step \in DOMAIN program.requests
            BY Facts
        <3>2. /\ program \in Programs
              /\ qdiscs \in [Targets -> SUBSET Qdiscs]
              /\ index \in 0..program.entries - 1
            BY Facts
        <3>3. /\ qdiscs' \in [Targets -> SUBSET Qdiscs]
              /\ WorksBy(program, qdiscs', step, index)
              /\ \A i \in DOMAIN program.requests : \A e :
                    i # step /\ WorksBy(program, qdiscs, i, e)
                        => WorksBy(program, qdiscs', i, e)
            BY <2>2, <3>1, <3>2, Applied
        <3> QED BY <3>3
    <2> QED BY <1>3, <2>1, <2>2
<1>9. TypeOK'
    BY <1>1, <1>2, <1>5, <1>8 DEF Inv, TypeOK
<1>10. Adjacent'
    <2>1. Before' = Before
        BY <1>1 DEF Before
    <2>2. \A i \in 1..step - 1 : i \in DOMAIN program.requests /\ i # step
        BY Facts
    <2>3. \A i \in step + 1..Len(program.requests) :
            i \in DOMAIN program.requests /\ i # step
        BY Facts
    <2>4. warm => \/ WorksBy(program, qdiscs', step, index)
                  \/ WorksBy(program, qdiscs', step, Before)
        BY <1>1, <1>8 DEF Inv, Rounds, InForce
    <2> QED
        BY <1>1, <1>8, <2>1, <2>2, <2>3, <2>4 DEF Inv, Adjacent, InForce
<1>11. Believed'
    <2>1. \A k \in DOMAIN socket' :
            socket'[k].own /\ ~socket'[k].error => WorksBy(program, qdiscs', step, index)
        BY <1>7, <1>8 DEF Ack
    <2> QED BY <1>1, <2>1 DEF Believed, InForce
<1>12. AnswersCurrent'
    BY <1>1, <1>7 DEF AnswersCurrent, Ack
<1>14. Single'
    <2>1. \A k \in DOMAIN socket' : socket'[k].own => k = Len(socket) + 1
        BY <1>5, <1>6
    <2> QED BY <2>1 DEF Single
<1>13. WaitsForAnswer'
    <2>1. Len(socket) + 1 \in DOMAIN socket'
        BY <1>5
    <2>2. /\ socket'[Len(socket) + 1].own
          /\ socket'[Len(socket) + 1].seq = seq'
        BY <1>5 DEF Ack
    <2>3. seq' \in Int
        BY <1>2
    <2>4. \A n \in Int : n <= n /\ n >= n - 1
        OBVIOUS
    <2> QED BY <2>1, <2>2, <2>3, <2>4 DEF WaitsForAnswer, Accepts
<1> QED
    BY <1>1, <1>9, <1>10, <1>11, <1>12, <1>13, <1>14 DEF Inv, Rounds

\* A message that is passed over was not the answer.
LEMMA SkipStep == Inv /\ Skip => Inv'
<1> SUFFICES ASSUME Inv, Skip PROVE Inv'
    OBVIOUS
<1>1. /\ socket # <<>> /\ socket' = Tail(socket) /\ ~Accepts(Head(socket))
      /\ UNCHANGED <<program, pc, index, step, seq, warm, starts, devices, qdiscs>>
    BY DEF Skip, process
<1>2. /\ socket' \in Seq(Messages)
      /\ DOMAIN socket = 1..Len(socket) /\ Len(socket) \in Nat \ {0}
      /\ DOMAIN socket' = 1..Len(socket) - 1
      /\ Head(socket) = socket[1]
      /\ \A k \in 1..Len(socket) - 1 : socket'[k] = socket[k + 1]
    BY <1>1, Facts, Dropped
<1>3. TypeOK'
    BY <1>1, <1>2 DEF Inv, TypeOK
<1>4. Adjacent' /\ Rounds'
    BY <1>1 DEF Inv, Adjacent, Rounds, Everywhere, InForce, Before
<1>5. \A k \in DOMAIN socket' : k + 1 \in DOMAIN socket /\ socket'[k] = socket[k + 1]
    BY <1>2
<1>6. Believed' /\ AnswersCurrent'
    BY <1>1, <1>5 DEF Inv, Believed, AnswersCurrent, InForce
<1>8. Single'
    BY <1>2, <1>5 DEF Inv, Single
<1>7. WaitsForAnswer'
    <2>1. \A k \in DOMAIN socket : k # 1 => k - 1 \in DOMAIN socket' /\ socket'[k - 1] = socket[k]
        BY <1>2
    <2>2. \A k \in DOMAIN socket : Accepts(socket[k]) => k # 1
        BY <1>1, <1>2
    <2> QED BY <1>1, <2>1, <2>2 DEF Inv, WaitsForAnswer, Accepts
<1> QED
    BY <1>3, <1>4, <1>6, <1>7, <1>8 DEF Inv

\* The answer that is taken stands for the request of this step.
LEMMA TalkedStep == Inv /\ Talked => Inv'
<1> SUFFICES ASSUME Inv, Talked PROVE Inv'
    OBVIOUS
<1>1. CASE exit
    BY <1>1, ExitStep DEF Talked
<1>2. CASE /\ ~Head(socket).error
           /\ socket' = Tail(socket)
           /\ \/ step < Len(program.requests) /\ step' = step + 1 /\ pc' = "send" /\ warm' = warm
              \/ step = Len(program.requests) /\ step' = step /\ pc' = "sleep" /\ warm' = TRUE
           /\ UNCHANGED <<program, index, seq, starts>>
    <2>1. /\ pc = "recv" /\ socket # <<>> /\ Accepts(Head(socket))
          /\ UNCHANGED <<devices, qdiscs>>
        BY DEF Talked
    <2>2. /\ socket' \in Seq(Messages)
          /\ 1 \in DOMAIN socket /\ Head(socket) = socket[1]
          /\ \A k \in DOMAIN socket' : k + 1 \in DOMAIN socket /\ socket'[k] = socket[k + 1]
        BY <1>2, <2>1, Facts, Dropped
    <2>3. InForce(step, index)
        BY <1>2, <2>1, <2>2 DEF Inv, Believed, Accepts
    <2>4. \A k \in DOMAIN socket' : ~socket'[k].own
        <3>1. socket[1].own
            BY <2>1, <2>2 DEF Accepts
        <3>2. \A k \in DOMAIN socket' : k \in Nat /\ k + 1 # 1
            BY <2>2
        <3> QED BY <2>2, <3>1, <3>2 DEF Inv, Single
    <2>5. TypeOK'
        <3>1. step' \in DOMAIN program.requests
            BY <1>2, Facts
        <3>2. warm' \in BOOLEAN /\ pc' \in {"send", "sleep"}
            BY <1>2 DEF Inv, TypeOK
        <3> QED BY <1>2, <2>1, <2>2, <3>1, <3>2 DEF Inv, TypeOK
    <2>6. \A i \in 1..step : InForce(i, index)
        <3>1. \A i \in 1..step : i = step \/ i \in 1..step - 1
            BY Facts
        <3> QED BY <3>1, <2>3 DEF Inv, Adjacent
    <2>7. Believed' /\ Single' /\ AnswersCurrent' /\ WaitsForAnswer'
        BY <1>2, <2>4 DEF Believed, Single, AnswersCurrent, WaitsForAnswer
    <2>8. CASE step < Len(program.requests) /\ step' = step + 1 /\ pc' = "send" /\ warm' = warm
        <3>1. step + 1 \in step + 1..Len(program.requests)
            BY <2>8, Facts
        <3>2. \A i \in step + 2..Len(program.requests) : i \in step + 1..Len(program.requests)
            BY Facts
        <3>3. 1..step' - 1 = 1..step /\ step' + 1 = step + 2
            BY <2>8, Facts
        <3>4. warm => \A i \in step + 1..Len(program.requests) : InForce(i, Before)
            BY DEF Inv, Adjacent
        <3>5. Adjacent' /\ Rounds'
            BY <1>2, <2>1, <2>6, <2>8, <3>1, <3>2, <3>3, <3>4
               DEF Adjacent, Rounds, InForce, Before
        <3> QED BY <2>5, <2>7, <3>5 DEF Inv
    <2>9. CASE step = Len(program.requests) /\ step' = step /\ pc' = "sleep" /\ warm' = TRUE
        <3>1. /\ 1..step = DOMAIN program.requests
              /\ step + 1..Len(program.requests) = {}
              /\ \A i \in 1..step - 1 : i \in 1..step
              /\ step \in 1..step
            BY <2>9, Facts
        <3>2. Adjacent' /\ Rounds'
            BY <1>2, <2>1, <2>6, <2>9, <3>1
               DEF Adjacent, Rounds, Everywhere, InForce, Before
        <3> QED BY <2>5, <2>7, <3>2 DEF Inv
    <2> QED
        BY <1>2, <2>8, <2>9
<1> QED
    BY <1>1, <1>2 DEF Talked

\* A message of another process is never taken for an answer.
LEMMA IntrudeStep == Inv /\ Intrude => Inv'
<1> SUFFICES ASSUME Inv, Intrude PROVE Inv'
    OBVIOUS
<1>1. /\ socket' = Append(socket, Foreign)
      /\ UNCHANGED <<program, pc, index, step, seq, warm, starts, devices, qdiscs>>
    BY DEF Intrude, process
<1>2. Foreign \in Messages
    BY PschedAssumption DEF Foreign, Messages
<1>3. /\ socket' \in Seq(Messages)
      /\ DOMAIN socket' = 1..Len(socket) + 1
      /\ DOMAIN socket = 1..Len(socket) /\ Len(socket) \in Nat
      /\ socket'[Len(socket) + 1] = Foreign
      /\ \A k \in 1..Len(socket) : socket'[k] = socket[k]
    BY <1>1, <1>2, Facts, Appended
<1>4. /\ \A k \in DOMAIN socket : k \in DOMAIN socket' /\ socket'[k] = socket[k]
      /\ \A k \in DOMAIN socket' : socket'[k].own => k \in DOMAIN socket
    BY <1>3 DEF Foreign
<1>5. TypeOK'
    BY <1>1, <1>3 DEF Inv, TypeOK
<1>6. Adjacent' /\ Rounds'
    BY <1>1 DEF Inv, Adjacent, Rounds, Everywhere, InForce, Before
<1>7. Believed' /\ Single' /\ AnswersCurrent'
    BY <1>1, <1>4 DEF Inv, Believed, Single, AnswersCurrent, InForce
<1>8. WaitsForAnswer'
    BY <1>1, <1>4 DEF Inv, WaitsForAnswer, Accepts
<1> QED
    BY <1>5, <1>6, <1>7, <1>8 DEF Inv

LEMMA InvStep == Inv /\ [Next]_vars => Inv'
<1> SUFFICES ASSUME Inv, [Next]_vars PROVE Inv'
    OBVIOUS
<1>1. CASE Setup
    BY <1>1, SetupStep
<1>2. CASE Advance
    BY <1>2, AdvanceStep
<1>3. CASE Send
    BY <1>3, SendStep
<1>4. CASE SendFails \/ RecvFails \/ Kill
    BY <1>4, ExitStep DEF SendFails, RecvFails, Kill
<1>5. CASE Skip
    BY <1>5, SkipStep
<1>6. CASE Talked
    BY <1>6, TalkedStep
<1>7. CASE Wake
    BY <1>7, WakeStep
<1>8. CASE Restart
    BY <1>8, RestartStep
<1>9. CASE Intrude
    BY <1>9, IntrudeStep
<1>10. CASE \E d \in Devices : Remove(d)
    BY <1>10, RemoveStep
<1>11. CASE UNCHANGED vars
    <2>1. UNCHANGED <<program, pc, index, step, seq, socket, devices, qdiscs, warm, starts>>
        BY <1>11 DEF vars
    <2>2. TypeOK' /\ Single' /\ AnswersCurrent' /\ WaitsForAnswer'
        BY <2>1 DEF Inv, TypeOK, Single, AnswersCurrent, WaitsForAnswer, Accepts
    <2>3. Adjacent' /\ Rounds' /\ Believed'
        BY <2>1 DEF Inv, Adjacent, Rounds, Believed, Everywhere, InForce, Before
    <2> QED BY <2>2, <2>3 DEF Inv
<1> QED
    BY <1>1, <1>2, <1>3, <1>4, <1>5, <1>6, <1>7, <1>8, <1>9, <1>10, <1>11 DEF Next

LEMMA InvAlways == Spec => []Inv
<1> QED BY InvInit, InvStep, PTL DEF Spec

\* Types of the controller, for all programs, plans and numbers of restarts.
THEOREM ControllerTypes == Spec => []TypeOK
<1>1. Inv => TypeOK
    BY DEF Inv
<1> QED BY <1>1, InvAlways, PTL

\* Whenever a control program sleeps, every qdisc it controls that is still there
\* works by the entry of the plan that the period belongs to.
THEOREM InStepCorrect == Spec => []InStep
<1>1. Inv => InStep
    BY DEF Inv, Rounds, Everywhere, InStep
<1> QED BY <1>1, InvAlways, PTL

\* The qdiscs of a control program are never more than one entry of the plan apart,
\* wherever an error, a signal or a removed device stops it.
THEOREM AdjacentCorrect == Spec => []Adjacent
<1>1. Inv => Adjacent
    BY DEF Inv
<1> QED BY <1>1, InvAlways, PTL

\* The tolerance of rtnl_talk for the number before its own is never used: each answer
\* in the socket belongs to the request that is out.
THEOREM AnswersCorrect == Spec => []AnswersCurrent
<1>1. Inv => AnswersCurrent
    BY DEF Inv
<1> QED BY <1>1, InvAlways, PTL

\* rtnl_talk waits for an answer that will not come only when its counter is zero.
THEOREM WaitCorrect == Spec => []WaitsForAnswer
<1>1. Inv => WaitsForAnswer
    BY DEF Inv
<1> QED BY <1>1, InvAlways, PTL
=============================================================================
