----------------------------- MODULE Controller -----------------------------
(***************************************************************************)
(* The control programs of src/tbf (tbf, netem, tn, ti and te): a process  *)
(* that goes through a plan of rates and delays for ever.  In every round  *)
(* it sends one netlink request per queueing discipline, waits for the     *)
(* answer to each (rtnl_talk) and sleeps for the period of the entry.      *)
(*                                                                         *)
(* The programs are one loop over different lists of requests, so a        *)
(* program is a record; module ControlPrograms has the five of them.  The  *)
(* kernel's side is tc_modify_qdisc, which runs inside of sendmsg.         *)
(***************************************************************************)
EXTENDS Psched, Sequences

CONSTANTS
    Devices,        \* names of network devices
    Programs,       \* the control programs
    NSEC_PER_USEC,  \* 1000
    Clock,          \* values of time(NULL)
    MaxForeign,     \* bound: messages of other processes waiting in the socket
    MaxStarts       \* bound: processes started one after the other

\* What a device has in a place; a child hangs below the root.
Places == {"root", "child"}
Kinds == {"tbf", "netem"}

\* tcm_handle: given by tc when the command names none, 1:0 or 10:.
Handles == {"any", "1:", "10:"}

Requests == [dev : Devices, place : Places, kind : Kinds,
             rated : BOOLEAN, delayed : BOOLEAN]

Target(req) == <<req.dev, req.place>>

Targets == Devices \X Places

Qdiscs == [kind : Kinds, handle : Handles, rate : Nat, latency : Nat]

\* tc commands that add a qdisc.
Commands == [dev : Devices, place : Places, qdisc : Qdiscs]

\* Rates are in bytes per second, delays in microseconds.  The delays are short
\* enough for the 32 bits that carry them as ticks.
ASSUME ControllerAssumption ==
    /\ MaxForeign \in Nat /\ MaxStarts \in Nat
    /\ NSEC_PER_USEC \in Nat
    /\ Clock \subseteq 0..U32 - 1
    /\ \A p \in Programs :
        /\ p.entries \in Nat \ {0}
        /\ p.first \in 0..p.entries - 1
        /\ \A e \in 0..p.entries - 1 :
            /\ p.plan[e].bandwidth \in Nat
            /\ p.plan[e].delay \in Nat
            /\ (p.plan[e].delay * NSEC_PER_USEC) \div NsPerTick < U32
        /\ p.requests \in Seq(Requests)
        /\ p.requests # <<>>
        /\ p.setup \subseteq Commands
        /\ \A i, j \in DOMAIN p.requests :
            i # j => Target(p.requests[i]) # Target(p.requests[j])

VARIABLES
    program,    \* the program that runs
    pc,         \* "setup", "advance", "send", "recv", "sleep" or "exit"
    index,      \* the entry of the plan
    step,       \* the request of the round that is next, sent, or was last
    seq,        \* rth.seq
    socket,     \* messages that wait to be received
    devices,    \* the devices that exist
    qdiscs,     \* for every target: no qdisc of its own or one
    warm,       \* history: this process has finished a round
    starts      \* the processes started so far

process == <<program, pc, index, step, seq, warm, starts>>

vars == <<program, pc, index, step, seq, socket, devices, qdiscs, warm,
          starts>>

Request == program.requests[step]

Messages == [own : BOOLEAN, seq : 0..U32 - 1, error : BOOLEAN]

Foreign == [own |-> FALSE, seq |-> 0, error |-> FALSE]

Ack(n, error) == [own |-> TRUE, seq |-> n, error |-> error]
-----------------------------------------------------------------------------
(***************************************************************************)
(* What a request carries, and what the kernel makes of it.                *)
(***************************************************************************)
tc_core_time2tick(usec) == (usec * NSEC_PER_USEC) \div NsPerTick % U32

\* The rate is saturated, and sent in 64 bits as well when it does not fit.
RateAttribute(bandwidth) ==
    LET rate64 == bandwidth \div 8
    IN [rate   |-> IF rate64 >= U32 THEN U32 - 1 ELSE rate64,
        rate64 |-> IF rate64 >= U32 THEN rate64 ELSE 0]

RateInForce(attr) == MaxOf(attr.rate, attr.rate64)

\* The change operation of the qdisc: it sets what the request carries.
qdisc_change(q, req, entry) ==
    [q EXCEPT !.rate = IF req.rated THEN RateInForce(RateAttribute(entry.bandwidth)) ELSE @,
              !.latency = IF req.delayed
                          THEN PSCHED_TICKS2NS(tc_core_time2tick(entry.delay)) ELSE @]

\* Requests carry no NLM_F_CREATE: a qdisc has to be there, and of that kind.
tc_modify_qdisc_finds(req) ==
    {q \in qdiscs[Target(req)] :
        /\ req.dev \in devices
        /\ q.kind = req.kind
        /\ req.place = "child" =>
            q.handle = "10:" /\ \E p \in qdiscs[<<req.dev, "root">>] : p.handle = "1:"}

Changed(qs, req, entry) ==
    [qs EXCEPT ![Target(req)] = {qdisc_change(q, req, entry) : q \in @}]

\* A change that fails leaves the qdisc as it was.
tc_modify_qdisc(req, entry) ==
    \/ /\ tc_modify_qdisc_finds(req) # {}
       /\ qdiscs' = Changed(qdiscs, req, entry)
       /\ socket' = Append(socket, Ack(seq', FALSE))
    \/ /\ socket' = Append(socket, Ack(seq', TRUE))
       /\ UNCHANGED qdiscs
-----------------------------------------------------------------------------
(***************************************************************************)
(* The start of a process.                                                 *)
(***************************************************************************)
Init ==
    /\ program \in Programs
    /\ pc = "setup"
    /\ index = program.first
    /\ step = 1
    /\ seq = 0
    /\ socket = <<>>
    /\ devices = Devices
    /\ qdiscs = [t \in Targets |-> {}]
    /\ warm = FALSE
    /\ starts = 1

\* The process and its socket are gone; index and step stay as history.
exit ==
    /\ pc' = "exit"
    /\ seq' = 0
    /\ socket' = <<>>
    /\ UNCHANGED <<program, index, step, warm, starts>>

\* `tc qdisc add' of some commands, at the given place.  It replaces nothing, and a
\* child needs the parent that it names.
Added(has, commands, place) ==
    [t \in Targets |-> has[t] \cup
        {c.qdisc : c \in {c \in commands :
            /\ Target(c) = t /\ c.place = place /\ c.dev \in devices
            /\ has[t] = {}
            /\ place = "child" => \E p \in has[<<c.dev, "root">>] : p.handle = "1:"}}]

\* The results of the commands are ignored: some fail.  rtnl_open takes the first
\* number from the clock, or the program gives up.
Setup ==
    /\ pc = "setup"
    /\ \E deleted \in SUBSET {c.dev : c \in program.setup},
          done \in SUBSET program.setup :
        LET left == [t \in Targets |-> IF t[1] \in deleted THEN {} ELSE qdiscs[t]]
        IN qdiscs' = Added(Added(left, done, "root"), done, "child")
    /\ \/ /\ pc' = "advance"
          /\ seq' \in Clock
          /\ UNCHANGED <<program, index, step, socket, warm, starts>>
       \/ exit
    /\ UNCHANGED devices
-----------------------------------------------------------------------------
(***************************************************************************)
(* The loop.                                                               *)
(***************************************************************************)
\* Mutant: the index moves on before and after its use.
AdvanceTwice ==
    /\ pc = "advance"
    /\ index' = (index + 2) % program.entries
    /\ step' = 1
    /\ pc' = "send"
    /\ UNCHANGED <<program, seq, socket, devices, qdiscs, warm, starts>>

Advance ==
    /\ pc = "advance"
    /\ index' = (index + 1) % program.entries
    /\ step' = 1
    /\ pc' = "send"
    /\ UNCHANGED <<program, seq, socket, devices, qdiscs, warm, starts>>

\* Mutant: the counter is wider than the field of the message.
SeqUnbounded(n) == n + 1

NextSeq(n) == (n + 1) % U32

\* sendmsg hands the request to the kernel, which answers before it returns.
Send ==
    /\ pc = "send"
    /\ seq' = NextSeq(seq)
    /\ tc_modify_qdisc(Request, program.plan[index])
    /\ pc' = "recv"
    /\ UNCHANGED <<program, index, step, devices, warm, starts>>

SendFails ==
    /\ pc = "send"
    /\ exit
    /\ UNCHANGED <<devices, qdiscs>>

\* Mutant: only numbers before its own.
AcceptsOlder(msg) ==
    /\ msg.own
    /\ msg.seq < seq
    /\ seq # 0 /\ msg.seq >= seq - 1

\* The messages that rtnl_talk takes for answers: from the kernel, with a number
\* from seq - iovlen to seq, where iovlen is 1 and the subtraction has 64 bits.
Accepts(msg) ==
    /\ msg.own
    /\ msg.seq <= seq
    /\ seq # 0 /\ msg.seq >= seq - 1

\* Mutant: the message is looked at again.
SkipForgets ==
    /\ pc = "recv" /\ socket # <<>>
    /\ ~Accepts(Head(socket))
    /\ UNCHANGED <<process, socket, devices, qdiscs>>

Skip ==
    /\ pc = "recv" /\ socket # <<>>
    /\ ~Accepts(Head(socket))
    /\ socket' = Tail(socket)
    /\ UNCHANGED <<process, devices, qdiscs>>

\* Mutant: the last request of the round is forgotten.
TalkedEarly ==
    /\ pc = "recv" /\ socket # <<>>
    /\ Accepts(Head(socket))
    /\ \/ Head(socket).error /\ exit
       \/ /\ ~Head(socket).error
          /\ socket' = Tail(socket)
          /\ \/ /\ step + 1 < Len(program.requests)
                /\ step' = step + 1
                /\ pc' = "send"
                /\ UNCHANGED warm
             \/ /\ step + 1 = Len(program.requests)
                /\ pc' = "sleep"
                /\ UNCHANGED <<warm, step>>
          /\ UNCHANGED <<program, index, seq, starts>>
    /\ UNCHANGED <<devices, qdiscs>>

\* The answer: the next request, or the end of the round, or of the program.
Talked ==
    /\ pc = "recv" /\ socket # <<>>
    /\ Accepts(Head(socket))
    /\ \/ Head(socket).error /\ exit
       \/ /\ ~Head(socket).error
          /\ socket' = Tail(socket)
          /\ \/ /\ step < Len(program.requests)
                /\ step' = step + 1
                /\ pc' = "send"
                /\ UNCHANGED warm
             \/ /\ step = Len(program.requests)
                /\ pc' = "sleep"
                /\ warm' = TRUE
                /\ UNCHANGED step
          /\ UNCHANGED <<program, index, seq, starts>>
    /\ UNCHANGED <<devices, qdiscs>>

\* Mutant: the request is sent again.
RecvFailsResends ==
    /\ pc = "recv"
    /\ pc' = "send"
    /\ UNCHANGED <<program, index, step, seq, warm, starts, socket, devices, qdiscs>>

\* recvmsg fails: the answer, if there is one, is never read.
RecvFails ==
    /\ pc = "recv"
    /\ exit
    /\ UNCHANGED <<devices, qdiscs>>

Wake ==
    /\ pc = "sleep"
    /\ pc' = "advance"
    /\ UNCHANGED <<program, index, step, seq, socket, devices, qdiscs, warm, starts>>
-----------------------------------------------------------------------------
(***************************************************************************)
(* The environment.                                                        *)
(***************************************************************************)
\* The process is killed at any point.
Kill ==
    /\ pc # "exit"
    /\ exit
    /\ UNCHANGED <<devices, qdiscs>>

\* A program is started where an earlier one has left its qdiscs behind.
Restart ==
    /\ pc = "exit" /\ starts < MaxStarts
    /\ starts' = starts + 1
    /\ program' \in Programs
    /\ index' = program'.first
    /\ step' = 1
    /\ pc' = "setup"
    /\ warm' = FALSE
    /\ UNCHANGED <<seq, socket, devices, qdiscs>>

\* A message of another process, which rtnl_talk has to skip.
Intrude ==
    /\ pc \in {"advance", "send", "recv", "sleep"}
    /\ Len(SelectSeq(socket, LAMBDA m : ~m.own)) < MaxForeign
    /\ socket' = Append(socket, Foreign)
    /\ UNCHANGED <<process, devices, qdiscs>>

\* Somebody removes the root qdisc, and what hangs below it, or the device.  Only
\* the devices of the present program matter to it.
Remove(d) ==
    /\ d \in devices /\ d \in {c.dev : c \in program.setup}
    /\ \/ qdiscs[<<d, "root">>] # {} /\ UNCHANGED devices
       \/ devices' = devices \ {d}
    /\ qdiscs' = [t \in Targets |-> IF t[1] = d THEN {} ELSE qdiscs[t]]
    /\ UNCHANGED <<process, socket>>

Next ==
    \/ Setup
    \/ Advance
    \/ Send
    \/ SendFails
    \/ Skip
    \/ Talked
    \/ RecvFails
    \/ Wake
    \/ Kill
    \/ Restart
    \/ Intrude
    \/ \E d \in Devices : Remove(d)

Spec == Init /\ [][Next]_vars

\* The process is scheduled: a round in progress goes on.
Progress == Advance \/ Send \/ Skip \/ Talked

FairSpec == Spec /\ WF_vars(Progress)
-----------------------------------------------------------------------------
(***************************************************************************)
(* Properties.                                                             *)
(***************************************************************************)
TypeOK ==
    /\ program \in Programs
    /\ pc \in {"setup", "advance", "send", "recv", "sleep", "exit"}
    /\ index \in 0..program.entries - 1
    /\ step \in DOMAIN program.requests
    /\ seq \in 0..U32 - 1
    /\ socket \in Seq(Messages)
    /\ devices \subseteq Devices
    /\ qdiscs \in [Targets -> SUBSET Qdiscs]
    /\ warm \in BOOLEAN
    /\ starts \in Nat

\* The qdisc of the i-th request of program p, if nobody removed it, works by entry
\* e: at its rate to the byte, and with its delay to the tick.
WorksBy(p, qs, i, e) ==
    LET req == p.requests[i]
        delay == p.plan[e].delay * NSEC_PER_USEC
    IN \A q \in qs[Target(req)] :
        /\ req.rated => q.rate = p.plan[e].bandwidth \div 8
        /\ req.delayed => q.latency \in delay - NsPerTick + 1..delay

InForce(i, e) == WorksBy(program, qdiscs, i, e)

\* While the program sleeps, every qdisc it controls works by the entry of the
\* plan that the period belongs to: whatever failed, was skipped or was retried
\* on the way, a round that was not applied everywhere does not end in nanosleep.
InStep == pc = "sleep" => \A i \in DOMAIN program.requests : InForce(i, index)

\* The entry before the present one.
Before == IF index = 0 THEN program.entries - 1 ELSE index - 1

\* At every moment, also when an error or a signal has ended the program between
\* two requests, the qdiscs are at most one entry apart: those in front of the
\* request at hand work by the present entry and those behind it by the one before.
Adjacent ==
    /\ \A i \in 1..step - 1 : InForce(i, index)
    /\ warm => /\ InForce(step, index) \/ InForce(step, Before)
               /\ \A i \in step + 1..Len(program.requests) : InForce(i, Before)

\* rtnl_talk also accepts the number before its own, yet an answer in the socket
\* always belongs to the request that is out: none is left over from an earlier one.
AnswersCurrent ==
    \A k \in DOMAIN socket :
        socket[k].own => pc = "recv" /\ socket[k].seq = seq

\* rtnl_talk has no timeout: it waits for an answer that is not in the socket only
\* after its counter has wrapped to zero, when seq - iovlen is a huge number and the
\* answer was skipped.
WaitsForAnswer ==
    pc = "recv" /\ seq # 0 => \E k \in DOMAIN socket : Accepts(socket[k])

\* Every round ends: a program that starts one gets to the sleep that belongs to it,
\* unless the program ends or its counter wraps to zero on the way.
RoundEnds ==
    pc = "advance" ~> \/ pc \in {"sleep", "exit"}
                      \/ pc = "recv" /\ seq = 0
=============================================================================
