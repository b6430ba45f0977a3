-------------------------------- MODULE Binary --------------------------------
(***************************************************************************)
(* Unsigned numbers of w bits: their bits, and the bitwise or of C++.      *)
(***************************************************************************)
EXTENDS Integers

\* What the proofs about powers of two start from.
Doubling(w) == \A i \in 0 .. w : 2^(i + 1) = 2 * 2^i

Bit(n, i) == (n \div 2^i) % 2
Bits(n, w) == {i \in 0 .. w - 1 : Bit(n, i) = 1}

\* m | n, which is between the larger of the two and their sum.
Or(m, n, w) ==
  CHOOSE r \in (IF m < n THEN n ELSE m) .. m + n : Bits(r, w) = Bits(m, w) \cup Bits(n, w)
=============================================================================
