-------------------------- MODULE SourceRefinement --------------------------
(***************************************************************************)
(* A source as the stream its user sees: Source is mapped to ByteStream.   *)
(***************************************************************************)
EXTENDS Source

\* A source is whole when it is made or mapped with its stream in one window.  A
\* mapped file has to be no longer than a page, or to end with one: what a source
\* is at the end of any other (Spent) is no stream.
WholeUsed ==
  /\ \A o \in Objects :
       /\ o.kind = "istream" => o.block = 0 \/ o.block >= o.file
       /\ o.kind = "mmap" => o.file <= PageSize \/ o.file % PageSize = 0
  /\ \A m \in MapArgs : m.block = 0

\* The source implements the abstract stream: between calls the cursor is
\* offset(); during a call it is where the call found it, and the bytes
\* delivered appear when the call returns.
Abstract == INSTANCE ByteStream WITH
  length  <- Size,
  pos     <- IF pc = "idle" THEN Offset ELSE call.start,
  pending <- IF pc = "idle" THEN [op |-> "none", n |-> 0] ELSE [op |-> call.op, n |-> call.n],
  got     <- IF pc = "idle" THEN [i \in 0 .. call.copied - 1 |-> dest[i]] ELSE <<>>

\* With the whole stream in its window, a source implements the stream.
ImplementsByteStream == Abstract!Spec
=============================================================================
