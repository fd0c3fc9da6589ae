------------------------------ MODULE MCNetem ------------------------------
(***************************************************************************)
(* A small instance of Netem: a program that sets the rate, as netem.c,    *)
(* with a rate beyond 32 bits and a rate of zero, and one that sets the    *)
(* delay, as tbfnetem.c, tbfifb.c and tbfenp.c.                            *)
(***************************************************************************)
EXTENDS Netem

Req(limit, latency, rate, rate64) ==
    [limit |-> limit, latency |-> latency, rate |-> rate, rate64 |-> rate64]

Rated == {Req(3, 1, 1, Absent), Req(2, 0, 2, 4)}
Zeroed == {Req(3, 1, 1, Absent), Req(2, 0, 0, Absent)}
Delayed == {Req(3, 2, Absent, Absent), Req(2, 0, Absent, Absent),
            Req(4, 1, Absent, Absent)}

MCPlans == {Rated, Zeroed, Delayed}
=============================================================================
