--------------------------- MODULE SeqSpaceProofs ---------------------------
(***************************************************************************)
(* Sequence numbers and the positions of a stream they stand for, for      *)
(* every size of the sequence space.                                       *)
(***************************************************************************)
EXTENDS SeqSpace, TLAPS

\* A number that is at most one turn off is brought back by one turn.
LEMMA OneTurn ==
    ASSUME NEW m \in Nat \ {0}, NEW n \in Int, -m <= n, n < 2 * m
    PROVE  n % m = IF n < 0 THEN n + m ELSE IF n < m THEN n ELSE n - m
<1>1. CASE n < 0
    BY <1>1
<1>2. CASE 0 <= n /\ n < m
    BY <1>2
<1>3. CASE m <= n
    BY <1>3
<1> QED
    BY <1>1, <1>2, <1>3

\* The same for __u32.
LEMMA U32Turn ==
    ASSUME NEW n \in Int, -(2 * Half) <= n, n < 4 * Half
    PROVE  /\ U32Of(n) = IF n < 0 THEN n + 2 * Half
                         ELSE IF n < 2 * Half THEN n ELSE n - 2 * Half
           /\ U32Of(n) \in SeqNumbers
<1> DEFINE m == 2 * Half
<1>1. m \in Nat \ {0} /\ -m <= n /\ n < 2 * m
    BY HalfAssumption
<1>2. n % m = IF n < 0 THEN n + m ELSE IF n < m THEN n ELSE n - m
    <2> HIDE DEF m
    <2> QED BY <1>1, OneTurn
<1> QED
    BY <1>2, HalfAssumption DEF U32Of, SeqNumbers

\* before orders the numbers of a stream as their positions are ordered.
LEMMA BeforeIsLess ==
    ASSUME NEW i \in SeqNumbers, NEW p \in 0..Half - 1, NEW q \in 0..Half - 1
    PROVE  before(U32Of(i + p), U32Of(i + q)) <=> p < q
<1> USE HalfAssumption
<1> DEFINE a == U32Of(i + p)
           b == U32Of(i + q)
<1>1. /\ a = IF i + p < 2 * Half THEN i + p ELSE i + p - 2 * Half
      /\ b = IF i + q < 2 * Half THEN i + q ELSE i + q - 2 * Half
      /\ a \in SeqNumbers /\ b \in SeqNumbers
    BY U32Turn DEF SeqNumbers
<1> HIDE DEF a, b
<1>2. U32Of(a - b) = IF a - b < 0 THEN a - b + 2 * Half ELSE a - b
    BY <1>1, U32Turn DEF SeqNumbers
<1>3. S32Of(U32Of(a - b)) < 0 <=> p < q
    BY <1>1, <1>2 DEF S32Of, SeqNumbers
<1> QED
    BY <1>3 DEF before, a, b

\* A position can be recovered from its number, and a number from its position.
LEMMA PositionOfNumber ==
    ASSUME NEW i \in SeqNumbers, NEW p \in 0..Half - 1
    PROVE  U32Of(U32Of(i + p) - i) = p
<1> USE HalfAssumption
<1> DEFINE a == U32Of(i + p)
<1>1. a = (IF i + p < 2 * Half THEN i + p ELSE i + p - 2 * Half) /\ a \in SeqNumbers
    BY U32Turn DEF SeqNumbers
<1> HIDE DEF a
<1>2. U32Of(a - i) = IF a - i < 0 THEN a - i + 2 * Half ELSE a - i
    BY <1>1, U32Turn DEF SeqNumbers
<1> QED
    BY <1>1, <1>2 DEF SeqNumbers, a

LEMMA NumberOfPosition ==
    ASSUME NEW i \in SeqNumbers, NEW e \in SeqNumbers
    PROVE  U32Of(i + U32Of(e - i)) = e /\ U32Of(e - i) \in SeqNumbers
<1> USE HalfAssumption
<1> DEFINE d == U32Of(e - i)
<1>1. d = (IF e - i < 0 THEN e - i + 2 * Half ELSE e - i) /\ d \in SeqNumbers
    BY U32Turn DEF SeqNumbers
<1> HIDE DEF d
<1>2. U32Of(i + d) = IF i + d < 2 * Half THEN i + d ELSE i + d - 2 * Half
    BY <1>1, U32Turn DEF SeqNumbers
<1> QED
    BY <1>1, <1>2 DEF SeqNumbers, d

\* Adding in two steps wraps like adding at once.
LEMMA AddWraps ==
    ASSUME NEW i \in SeqNumbers, NEW p \in Nat, NEW n \in Nat, p + n < Half
    PROVE  U32Of(U32Of(i + p) + n) = U32Of(i + p + n)
<1> USE HalfAssumption
<1> DEFINE a == U32Of(i + p)
<1>1. a = (IF i + p < 2 * Half THEN i + p ELSE i + p - 2 * Half) /\ a \in SeqNumbers
    BY U32Turn DEF SeqNumbers
<1> HIDE DEF a
<1>2. U32Of(a + n) = IF a + n < 2 * Half THEN a + n ELSE a + n - 2 * Half
    BY <1>1, U32Turn DEF SeqNumbers
<1>3. U32Of(i + p + n) = IF i + p + n < 2 * Half THEN i + p + n ELSE i + p + n - 2 * Half
    BY U32Turn DEF SeqNumbers
<1> QED
    BY <1>1, <1>2, <1>3 DEF SeqNumbers, a
=============================================================================
