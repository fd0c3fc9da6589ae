------------------------------- MODULE Psched -------------------------------
(***************************************************************************)
(* The conversions between packet lengths and transmission times that the  *)
(* token bucket filter of src/sch_tbf.c computes with.  A rate is a number *)
(* of bytes per second (rate_bytes_ps); times are in nanoseconds.  The     *)
(* programs of this repository shape Ethernet devices with no per-packet   *)
(* overhead, so linklayer and overhead are left out here.                  *)
(***************************************************************************)
EXTENDS Integers

CONSTANTS
    NSEC_PER_SEC,   \* clock units in a second
    NsPerTick,      \* clock units in a psched tick (PSCHED_TICKS2NS)
    U32             \* 2^32: the range of the unsigned counters

ASSUME PschedAssumption ==
    /\ NSEC_PER_SEC \in Nat \ {0}
    /\ NsPerTick \in Nat \ {0}
    /\ U32 \in Nat \ {0}

MinOf(a, b) == IF a <= b THEN a ELSE b

MaxOf(a, b) == IF a >= b THEN a ELSE b

\* Time to send len bytes.  The reciprocal (mult, shift) that the kernel
\* precomputes stands for this division; at rate zero it is one, and a byte
\* takes a nanosecond.
psched_l2t_ns(rate, len) == IF rate = 0 THEN len
                            ELSE (len * NSEC_PER_SEC) \div rate

\* How many bytes can be sent in a given time.
psched_ns_t2l(rate, time_in_ns) == (time_in_ns * rate) \div NSEC_PER_SEC

PSCHED_TICKS2NS(ticks) == ticks * NsPerTick

\* min_t(u64, x, ~0U)
CapU32(x) == MinOf(x, U32 - 1)
=============================================================================
