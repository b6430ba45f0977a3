----------------------------- MODULE MCVarUInt -----------------------------
(***************************************************************************)
(* Instances of VarUInt for TLC.  Words of three bits and a size_t of six  *)
(* stand to each other as u32 and a size_t of 64 bits do: two words hold   *)
(* as many bits as size_t, but a number may need three.                    *)
(***************************************************************************)
EXTENDS VarUInt

AllNumbers == 0 .. 2^QuantityBits - 1

\* What the accumulator holds: nothing, all bits, and every other bit.
Leftovers == {0, 63, 21, 42}
=============================================================================
