------------------------------ MODULE SeqSpace ------------------------------
(***************************************************************************)
(* Sequence numbers of src/reordering_buffer: unsigned numbers of 32 bits, *)
(* compared by the sign of their difference.                               *)
(***************************************************************************)
EXTENDS Integers

CONSTANT Half   \* 2^31

ASSUME HalfAssumption == Half \in Nat \ {0}

SeqNumbers == 0..2 * Half - 1

\* Mutant: the type is wide enough never to wrap.
NoWrap(n) == n

\* Arithmetic of the C type __u32.
U32Of(n) == n % (2 * Half)

\* The conversion from __u32 to __s32.
S32Of(u) == IF u < Half THEN u ELSE u - 2 * Half

\* Mutant: the numbers are compared as they are.
beforeUnwrapped(seq1, seq2) == seq1 < seq2

\* seq1 lies less than half of the space in front of seq2.
before(seq1, seq2) == S32Of(U32Of(seq1 - seq2)) < 0
=============================================================================
