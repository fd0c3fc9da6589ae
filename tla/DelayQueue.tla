----------------------------- MODULE DelayQueue -----------------------------
(***************************************************************************)
(* What the delay emulator promises: every packet is given a time to leave *)
(* when it arrives, and packets leave one by one, none before its time,    *)
(* the earliest first and equal ones in the order they came.               *)
(***************************************************************************)
EXTENDS Integers

VARIABLES
    now,        \* the clock
    next,       \* arrival number of the next packet
    waiting     \* packets that have not left: arrival number n and time

\* p leaves before q.
Before(p, q) == p.time < q.time \/ (p.time = q.time /\ p.n < q.n)

Init == waiting = {} /\ now = 1 /\ next = 1

Accept(p) ==
    /\ p.n = next /\ p.time >= now
    /\ next' = next + 1
    /\ waiting' = waiting \cup {p}
    /\ UNCHANGED now

Release(p) ==
    /\ p \in waiting /\ p.time <= now
    /\ \A q \in waiting \ {p} : Before(p, q)
    /\ waiting' = waiting \ {p}
    /\ UNCHANGED <<now, next>>

Discard == waiting' = {} /\ UNCHANGED <<now, next>>

Tick == now' = now + 1 /\ UNCHANGED <<next, waiting>>

Next == \/ \E p \in waiting' : Accept(p)
        \/ \E p \in waiting : Release(p)
        \/ Discard
        \/ Tick

Spec == Init /\ [][Next]_<<now, next, waiting>>
=============================================================================
