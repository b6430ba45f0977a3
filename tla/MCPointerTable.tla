--------------------------- MODULE MCPointerTable ---------------------------
(***************************************************************************)
(* PointerTable for TLC.  Which object is which does not matter.           *)
(***************************************************************************)
EXTENDS PointerTable, TLC

Symmetry == Permutations(Objects) \cup Permutations(Copies)
=============================================================================
