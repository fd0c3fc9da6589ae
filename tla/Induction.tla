----------------------------- MODULE Induction -----------------------------
(***************************************************************************)
(* Induction over the naturals with a set in the place of the predicate,   *)
(* so that its theorems need no operator as a parameter.                   *)
(***************************************************************************)
EXTENDS Integers, WellFoundedInduction, TLAPS

\* A set of naturals has a least element.
LEMMA LeastNatural ==
    ASSUME NEW T \in SUBSET Nat, T # {}
    PROVE  \E x \in T : \A y \in T : x <= y
<1> DEFINE R == OpToRel(<, Nat)
<1>1. IsWellFoundedOn(R, Nat)
    BY NatLessThanWellFounded
<1>2. \A x, y \in Nat : <<y, x>> \in R <=> y < x
    BY DEF OpToRel
<1> HIDE DEF R
<1>3. PICK x \in T : \A y \in T : ~(<<y, x>> \in R)
    BY <1>1, WFMin
<1>4. \A y \in T : ~(y < x)
    BY <1>2, <1>3
<1>5. \A y \in T : x <= y
    BY <1>4
<1> QED
    BY <1>5

\* A set that has 0 and with every number below N the next one has all up to N.
LEMMA UpTo ==
    ASSUME NEW N \in Nat, NEW S, 0 \in S,
           \A n \in 1..N : n - 1 \in S => n \in S
    PROVE  \A n \in 0..N : n \in S
<1> DEFINE T == {n \in 0..N : n \notin S}
<1> SUFFICES ASSUME T # {} PROVE FALSE
    OBVIOUS
<1>1. PICK x \in T : \A y \in T : x <= y
    <2>1. T \in SUBSET Nat
        OBVIOUS
    <2> HIDE DEF T
    <2> QED BY <2>1, LeastNatural
<1>2. x \in 1..N /\ x \notin S /\ x - 1 \in 0..N
    BY <1>1
<1>3. x - 1 \in S
    BY <1>1, <1>2
<1> QED
    BY <1>2, <1>3

\* The sequences b, F[b], F[F[b]]... of k turns.
Runs(S, F, b, k) ==
    {g \in [0..k -> S] : g[0] = b /\ \A n \in 1..k : g[n] = F[g[n - 1]]}

\* A function on a set can be iterated.
LEMMA Iterates ==
    ASSUME NEW N \in Nat, NEW S, NEW F \in [S -> S], NEW b \in S
    PROVE  Runs(S, F, b, N) # {}
<1> DEFINE Good == {k \in 0..N : Runs(S, F, b, k) # {}}
<1>1. 0 \in Good
    <2>1. [n \in 0..0 |-> b] \in Runs(S, F, b, 0)
        BY DEF Runs
    <2> QED
        BY <2>1
<1>2. ASSUME NEW k \in 1..N, k - 1 \in Good
      PROVE  k \in Good
    <2>1. PICK g \in [0..k - 1 -> S] : g[0] = b /\ \A n \in 1..k - 1 : g[n] = F[g[n - 1]]
        BY <1>2 DEF Runs
    <2> DEFINE h == [n \in 0..k |-> IF n = k THEN F[g[k - 1]] ELSE g[n]]
    <2>2. F[g[k - 1]] \in S
        BY <1>2, <2>1
    <2>3. h \in [0..k -> S]
        BY <2>1, <2>2
    <2>4. h[0] = b
        BY <1>2, <2>1
    <2>5. \A n \in 1..k : h[n] = F[h[n - 1]]
        BY <2>1
    <2>6. h \in Runs(S, F, b, k)
        BY <2>3, <2>4, <2>5 DEF Runs
    <2> QED
        BY <2>6
<1>3. N \in Good
    <2> HIDE DEF Good
    <2> QED BY <1>1, <1>2, UpTo
<1> QED
    BY <1>3
=============================================================================
