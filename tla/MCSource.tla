------------------------------ MODULE MCSource ------------------------------
(***************************************************************************)
(* Instances of Source for TLC.  The sizes are small but keep the cases    *)
(* apart: files shorter than a page, of whole pages, and ending inside a   *)
(* page; caches that divide the file and caches that do not.               *)
(***************************************************************************)
EXTENDS SourceRefinement

Obj(k, f, b) == [kind |-> k, file |-> f, block |-> b]
MapArg(o, b) == [off |-> o, block |-> b]

\* The whole stream in one window.  A mapped file longer than a page is a
\* whole number of pages (WholeUsed of SourceRefinement says why).
WholeObjects ==
  {Obj("buffer", f, 0) : f \in 0 .. 6} \cup {Obj("istream", f, 0) : f \in 0 .. 6}
    \cup {Obj("istream", 3, 5)} \cup {Obj("mmap", f, 0) : f \in {0, 1, 3, 4, 8}}
WholeMap == {MapArg(0, 0), MapArg(3, 0)}

\* A window of a page or two, moved along a longer stream; files that one of two
\* pages is too long for; and files mapped whole, some of which end inside a
\* later page.
ChunkObjects ==
  {Obj("istream", f, b) : f \in 0 .. 9, b \in {1, 2, 3, 4}}
    \cup {Obj("mmap", f, 0) : f \in {3, 4} \cup 8 .. 12}
ChunkMap == {MapArg(0, 0), MapArg(0, 4), MapArg(0, 8), MapArg(4, 4), MapArg(2, 4), MapArg(0, 2)}

\* A file of two blocks.
ChunkOnly == {Obj("istream", 8, 4), Obj("mmap", 8, 0)}
PageMap == {MapArg(0, 4)}

\* Every instance is of sources used as they have to be.
ASSUME Used == WellUsed
=============================================================================
