--------------------------- MODULE MCArchiveLayout ---------------------------
(***************************************************************************)
(* Instances of ArchiveLayout for TLC: primitives of every size, arrays,   *)
(* raw data (the characters of a string), quantities of one word and two,  *)
(* and objects whose type names keep the stream aligned or not.            *)
(***************************************************************************)
EXTENDS ArchiveLayout

Value(al, n) == [kind |-> "value", align |-> al, len |-> n]
Vu(al, n)    == [kind |-> "vu", align |-> al, len |-> n]
Object(n)    == [kind |-> "object", align |-> Word, len |-> n]

Primitives == {Value(1, 1), Value(2, 2), Value(4, 4), Value(8, 8)}
\* array(p, 3) of u16, std::string characters, and an array char[64], which
\* s_primitive_array aligns as a whole.
Arrays  == {Value(2, 6), Value(1, 3), Value(64, 64)}
Objects == {Object(3), Object(8)}

\* vu<u16>, the length of a string, and vu<u32> with a second word.
Quantities == {Vu(2, 2), Vu(4, 8)}

StreamOps == Primitives \cup Arrays \cup Objects \cup Quantities

\* Every choice of flags, read back by the archive over a vector, which checks
\* nothing, and by those over a source, with and without their asserts.
AllSetups ==
  {[flags |-> f, reader |-> "vector", asserts |-> FALSE] : f \in SUBSET {"align_object", "debug_string"}}
    \cup {[flags |-> {"align_object"}, reader |-> "chunked", asserts |-> TRUE],
          [flags |-> {}, reader |-> "whole", asserts |-> TRUE],
          [flags |-> {"debug_string"}, reader |-> "istream", asserts |-> TRUE]}
=============================================================================
