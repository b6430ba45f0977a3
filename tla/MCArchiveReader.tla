--------------------------- MODULE MCArchiveReader ---------------------------
(***************************************************************************)
(* Instances of ArchiveReader for TLC: streams of primitives, arrays and   *)
(* objects that end inside windows, on their ends and across them.         *)
(***************************************************************************)
EXTENDS ArchiveReader

Value(al, n) == [kind |-> "value", align |-> al, len |-> n]
Vu(al, n)    == [kind |-> "vu", align |-> al, len |-> n]
Object(n)    == [kind |-> "object", align |-> Word, len |-> n]

\* u8, u32, u64, the characters of a string, u16[5], an object, and a vu<u16>
\* of two words.
StreamOps ==
  {Value(1, 1), Value(4, 4), Value(8, 8), Value(1, 3), Value(2, 10), Object(5), Vu(2, 4)}

Setup(f, r) == [flags |-> f, reader |-> r, asserts |-> TRUE]
ReaderSetups == {Setup({}, "chunked"), Setup({"debug_string"}, "chunked"),
                 Setup({}, "whole"), Setup({"align_object"}, "whole")}

File(k, b) == [kind |-> k, block |-> b]
Windows == {File("buffer", 0), File("istream", 0), File("istream", 8), File("istream", 16),
            File("mmap", 0), File("mmap", 8)}
=============================================================================
