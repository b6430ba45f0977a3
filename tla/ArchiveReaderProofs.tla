------------------------ MODULE ArchiveReaderProofs ------------------------
(***************************************************************************)
(* An archive over a source, for every stream, file, window size and       *)
(* alignment: what it takes for read has arrived as it was written, it     *)
(* stops where the file has lost its end, and it reads the way of          *)
(* ArchiveLayout.                                                          *)
(*                                                                         *)
(* The theorems are about behaviours in which no skip goes round size_t    *)
(* (NoWrap): the asserts keep every call inside the stream, so that only a *)
(* skip that has run past the end, and loops there, could.                 *)
(***************************************************************************)
EXTENDS ArchiveReader, SequenceTheorems, TLAPS

\* The layout and the source, with what is proved of them.  The archive checks
\* its skips itself, and makes some that the contract of a source forbids; those
\* are not calls of SP, and have lemmas of their own.
LP == INSTANCE ArchiveLayoutProofs
SP == INSTANCE SourceProofs WITH
        Objects <- [kind : {"buffer", "istream", "mmap"}, file : 0 .. Width - 1, block : 0 .. Width - 1],
        MapArgs <- {}, SkipWithin <- "avail",
        MaxRequest <- Width - 1, SyscallsFail <- {}, pc <- source_pc

-----------------------------------------------------------------------------
(* The layout and the source of the reader are the ones proved about.      *)

LEMMA SameAligned == ASSUME NEW o, NEW al PROVE L!Aligned(o, al) <=> LP!Aligned(o, al)
BY DEF L!Aligned, LP!Aligned, L!Bits, LP!Bits, L!Bit, LP!Bit

LEMMA SameAlign == ASSUME NEW o, NEW al PROVE L!Align(o, al) = LP!Align(o, al)
BY Zenon DEF L!Align, LP!Align, L!Or, LP!Or, L!Bits, LP!Bits, L!Bit, LP!Bit

LEMMA SameTarget ==
  ASSUME NEW o, NEW al
  PROVE  L!Target(o, al) = LP!Target(o, al) /\ L!Padding(o, al) = LP!Padding(o, al)
BY SameAligned, SameAlign
DEF L!Target, LP!Target, L!Padding, LP!Padding, L!Smaller, LP!Smaller, L!PadMax, LP!PadMax

\* What ArchiveLayout and Source assume of their constants holds here.
LEMMA SameLayoutAssumption == LP!LayoutAssumption
BY ReaderAssumption, SameAligned, SameAlign, SameTarget
DEF ReaderAssumption, L!LayoutAssumption, LP!LayoutAssumption, L!Unchecked, LP!Unchecked, L!Word, LP!Word,
    L!PowersOfTwo, LP!PowersOfTwo, L!Doubling, LP!Doubling

LEMMA SameSourceAssumption == SP!SourceAssumption
BY ReaderAssumption DEF ReaderAssumption, SP!SourceAssumption

\* No file is mapped but the one that is opened, from its beginning.
LEMMA SourceWellUsed == SP!WellUsed
BY ReaderAssumption DEF ReaderAssumption, SP!WellUsed

LEMMA SameWriter ==
  /\ \A o : L!Write(o) <=> LP!Write(o)
  /\ L!Pad <=> LP!Pad
  /\ L!WriteValue <=> LP!WriteValue
  /\ L!WriteObject <=> LP!WriteObject
  /\ L!Finish <=> LP!Finish
  /\ L!Done <=> LP!Done
<1>1. \A o : L!Write(o) <=> LP!Write(o)
  BY DEF L!Write, LP!Write
<1>2. L!Aligning <=> LP!Aligning
  BY SameAligned DEF L!Aligning, LP!Aligning
<1>3. L!Pad <=> LP!Pad
  BY <1>2, SameAlign, SameTarget DEF L!Pad, LP!Pad, L!PadMax, LP!PadMax
<1>4. L!WriteValue <=> LP!WriteValue
  BY <1>2 DEF L!WriteValue, LP!WriteValue
<1>5. L!WriteObject <=> LP!WriteObject
  BY <1>2, SameAlign DEF L!WriteObject, LP!WriteObject, L!Named, LP!Named, L!Padded, LP!Padded,
    L!Word, LP!Word, L!ObjectStart, LP!ObjectStart, L!Garbage, LP!Garbage, L!Smaller, LP!Smaller
<1>6. (L!Finish <=> LP!Finish) /\ (L!Done <=> LP!Done)
  BY DEF L!Finish, LP!Finish, L!Done, LP!Done
<1>. QED  BY <1>1, <1>3, <1>4, <1>5, <1>6

LEMMA SameReader ==
  /\ L!ReadValue <=> LP!ReadValue
  /\ L!ReadVu <=> LP!ReadVu
  /\ L!ReadObject <=> LP!ReadObject
<1>1. L!ReadValue <=> LP!ReadValue
  BY SameTarget DEF L!ReadValue, LP!ReadValue, L!Item, LP!Item, L!Outcome, LP!Outcome,
    L!AdvanceAsserts, LP!AdvanceAsserts, L!ReadAsserts, LP!ReadAsserts, L!Unchecked, LP!Unchecked
<1>2. L!ReadObject <=> LP!ReadObject
  BY SameAligned DEF L!ReadObject, LP!ReadObject, L!Item, LP!Item, L!Outcome, LP!Outcome,
    L!AdvanceAsserts, LP!AdvanceAsserts, L!ReadAsserts, LP!ReadAsserts, L!Unchecked, LP!Unchecked,
    L!AlignAssert, LP!AlignAssert, L!Skip, LP!Skip, L!Word, LP!Word, L!Padded, LP!Padded, L!Named, LP!Named
<1>3. L!ReadVu <=> LP!ReadVu
  BY SameAligned DEF L!ReadVu, LP!ReadVu, L!Item, LP!Item, L!Outcome, LP!Outcome,
    L!ReadAsserts, LP!ReadAsserts, L!Unchecked, LP!Unchecked, L!AlignAssert, LP!AlignAssert
<1>. QED  BY <1>1, <1>2, <1>3

LEMMA SamePlace ==
  /\ S!Offset = SP!Offset /\ S!Avail = SP!Avail /\ S!Size = SP!Size
  /\ S!Offset' = SP!Offset' /\ S!Avail' = SP!Avail' /\ S!Size' = SP!Size'
BY DEF S!Offset, SP!Offset, S!Avail, SP!Avail, S!Size, SP!Size, S!WAdd, SP!WAdd, S!WSub, SP!WSub

LEMMA SameMakeAvailable == ASSUME NEW c PROVE S!MakeAvailable(c) <=> SP!MakeAvailable(c)
BY DEF S!MakeAvailable, SP!MakeAvailable, S!BufferMakeAvailable, SP!BufferMakeAvailable,
  S!IstreamMakeAvailable, SP!IstreamMakeAvailable, S!MmapMakeAvailable, SP!MmapMakeAvailable,
  S!WAdd, SP!WAdd, S!WSub, SP!WSub, S!Smaller, SP!Smaller, S!GCount, SP!GCount,
  S!StreamAfterRead, SP!StreamAfterRead, S!resources, SP!resources, S!Null, SP!Null, S!MapFailed, SP!MapFailed

LEMMA SameFetch ==
  /\ S!FetchTop <=> SP!FetchTop
  /\ S!FetchCopy <=> SP!FetchCopy
  /\ S!FetchFault <=> SP!FetchFault
  /\ S!FetchRefill <=> SP!FetchRefill
  /\ S!AdvanceStep <=> SP!AdvanceStep
<1>1. S!FetchTop <=> SP!FetchTop
  BY SamePlace, SameMakeAvailable DEF S!FetchTop, SP!FetchTop, S!window, SP!window, S!resources, SP!resources
<1>2. (\A i : S!Readable(i) <=> SP!Readable(i)) /\ (\A i : S!Byte(i) = SP!Byte(i)) /\ S!Capped = SP!Capped
  BY SamePlace DEF S!Readable, SP!Readable, S!Byte, SP!Byte, S!Capped, SP!Capped, S!Pages, SP!Pages,
    S!Smaller, SP!Smaller, S!ZeroFill, SP!ZeroFill
<1>3. (S!FetchCopy <=> SP!FetchCopy) /\ (S!FetchFault <=> SP!FetchFault)
  BY <1>2 DEF S!FetchCopy, SP!FetchCopy, S!FetchFault, SP!FetchFault, S!Copied, SP!Copied, S!WAdd, SP!WAdd,
    S!window, SP!window, S!resources, SP!resources
<1>4. S!FetchRefill <=> SP!FetchRefill
  BY SameMakeAvailable DEF S!FetchRefill, SP!FetchRefill
<1>5. S!AdvanceStep <=> SP!AdvanceStep
  BY SameMakeAvailable DEF S!AdvanceStep, SP!AdvanceStep, S!InWindow, SP!InWindow, S!WAdd, SP!WAdd,
    S!resources, SP!resources
<1>. QED  BY <1>1, <1>3, <1>4, <1>5

LEMMA SameUse ==
  /\ \A n : S!Fetch(n) <=> SP!Fetch(n)
  /\ \A n : SP!Advance(n) <=> S!Advance(n) /\ n <= S!Avail /\ S!Offset + n <= S!Size
  /\ S!Prefetch <=> SP!Prefetch
  /\ \A m : S!Map(m) <=> SP!Map(m)
<1>1. \A n : S!Fetch(n) <=> SP!Fetch(n)
  BY SamePlace DEF S!Fetch, SP!Fetch, S!Called, SP!Called, S!Unwritten, SP!Unwritten,
    S!window, SP!window, S!resources, SP!resources
<1>2. \A n : SP!Advance(n) <=> S!Advance(n) /\ n <= S!Avail /\ S!Offset + n <= S!Size
  BY SamePlace DEF S!Advance, SP!Advance, S!Called, SP!Called,
    S!window, SP!window, S!resources, SP!resources
<1>3. S!Prefetch <=> SP!Prefetch
  BY DEF S!Prefetch, SP!Prefetch, S!GCount, SP!GCount, S!StreamAfterRead, SP!StreamAfterRead,
    S!Smaller, SP!Smaller, S!WAdd, SP!WAdd, S!NoCall, SP!NoCall, S!resources, SP!resources
<1>4. \A m : S!Map(m) <=> SP!Map(m)
  BY DEF S!Map, SP!Map, S!Reset, SP!Reset, S!NoCall, SP!NoCall, S!Null, SP!Null,
    S!window, SP!window, S!resources, SP!resources
<1>. QED  BY <1>1, <1>2, <1>3, <1>4

-----------------------------------------------------------------------------
(* The source of a reading archive.                                        *)

\* A skip that has left its window does not go on past the largest size_t.  One
\* that did would begin again in front of the stream, with windows that begin
\* anywhere, and could even end where it was asked to.
NoWrap == source_pc = "advance" => S!Offset + call.n < Width

\* A file mapped whole ends in its first page, or with a page.
Fits == kind = "mmap" /\ block = 0 /\ size > PageSize => size % PageSize = 0

\* The source in order: what is proved of every source, and that the call it
\* is in ends where it was asked to.
Good ==
  /\ SP!ContentInv /\ Fits /\ ~SP!Broken /\ ~SP!Overlong
  /\ source_pc \notin {"fault", "abort"}
  /\ ec => SP!Offset >= SP!Size
  /\ call.op # "none" => call.start + call.n <= SP!Size
  /\ source_pc = "idle" /\ call.op # "none" => SP!Offset = call.start + call.n

\* A skip that leaves the window: in front of its first round, or behind it.
FirstRound ==
  /\ SP!Offset = call.start
  /\ SP!StreamInv /\ ~SP!Overlong /\ blsize < cur + call.n
LaterRound ==
  /\ SP!Offset >= call.start + call.n /\ bloff + cur < Width
  /\ kind = "mmap" /\ blsize = 0 => bloff = size /\ data = SP!Null

SkipOver ==
  /\ SP!SourceInv /\ ~SP!Broken /\ kind \in {"istream", "mmap"} /\ block # 0
  /\ kind = "mmap" => fd /\ size \in {0, file} /\ block % PageSize = 0
  /\ call.op = "advance" /\ call.n > 0 /\ call.start + call.n <= SP!Size
Left == SkipOver /\ source_pc = "advance" /\ ~ec /\ (FirstRound \/ LaterRound)
Gone == SkipOver /\ source_pc = "idle" /\ SP!Offset # call.start + call.n

\* The cursor of such a source is never behind its window.
LEMMA NotAdrift ==
  /\ Fits \/ block # 0 => (SP!Adrift <=> SP!Broken)
  /\ Fits' \/ block' # 0 => (SP!Adrift' <=> SP!Broken')
<1>1. Fits \/ block # 0 => ~SP!Spent
  BY DEF Fits, SP!Spent
<1>2. Fits' \/ block' # 0 => ~SP!Spent'
  BY DEF Fits, SP!Spent
<1>. QED  BY <1>1, <1>2 DEF SP!Adrift

\* Without failures of system calls, a mapping is never lost.
LEMMA NothingFails ==
  ASSUME SP!SourceInv, NEW c \in 0 .. Width - 1, SP!MakeAvailable(c), ~SP!Broken
  PROVE  ~SP!Broken'
<1>1. /\ Width \in Nat \ {0} /\ PageSize \in Nat \ {0}
      /\ kind \in {"buffer", "istream", "mmap"} /\ bloff \in 0 .. Width - 1
  BY SP!Numbers, SameSourceAssumption
<1>2. SP!WAdd(bloff, c) \in Nat
  BY <1>1, SP!Wrap, SameSourceAssumption
<1>. DEFINE foff == SP!WAdd(bloff, c)
            base == foff - (foff % PageSize)
<1>3. base \in Nat
  <2>1. foff % PageSize \in 0 .. foff
    BY <1>1, <1>2, SP!PageSplit, SameSourceAssumption
  <2>. QED  BY <1>2, <2>1
<1>4. data' \in {data, -1, foff, base}
  BY DEF SP!MakeAvailable, SP!BufferMakeAvailable, SP!IstreamMakeAvailable,
         SP!MmapMakeAvailable, SP!Null
<1>. QED  BY <1>2, <1>3, <1>4 DEF SP!Broken, SP!MapFailed

\* What is left of MmapPages then.
LEMMA PagesMapped ==
  ASSUME SP!SourceInv, ~SP!Broken, kind = "mmap", NEW c \in 0 .. Width - 1, SP!MakeAvailable(c)
  PROVE  \E o, base, will \in Nat :
           /\ base + o = SP!WAdd(bloff, c) /\ base + o < Width
           /\ o < PageSize /\ base % PageSize = 0
           /\ will = SP!Smaller(SP!WSub(size, base), block)
           /\ cur' = o /\ UNCHANGED <<kind, file, size, block, stream, fd>>
           /\ \/ base = bloff /\ UNCHANGED <<bloff, blsize, data, ec>>
              \/ base # bloff /\ blsize = 0 /\ ec' = TRUE /\ UNCHANGED <<bloff, blsize, data>>
              \/ /\ base # bloff /\ blsize # 0 /\ bloff' = base /\ UNCHANGED ec
                 /\ \/ will = 0 /\ blsize' = 0 /\ data' = SP!Null
                    \/ will # 0 /\ blsize' = will /\ data' = base
<1>1. data' # SP!MapFailed
  BY NothingFails DEF SP!Broken
<1>2. PICK o, base, will \in Nat :
           /\ base + o = SP!WAdd(bloff, c) /\ base + o < Width
           /\ o = SP!WAdd(bloff, c) % PageSize /\ o < PageSize /\ base % PageSize = 0
           /\ will = SP!Smaller(SP!WSub(size, base), block)
           /\ cur' = o /\ UNCHANGED <<kind, file, size, block, stream, fd, fds>>
           /\ \/ base = bloff /\ UNCHANGED <<bloff, blsize, data, maps, ec>>
              \/ base # bloff /\ blsize = 0 /\ ec' = TRUE
                 /\ UNCHANGED <<bloff, blsize, data, maps>>
              \/ /\ base # bloff /\ blsize # 0 /\ bloff' = base
                 /\ \/ will = 0 /\ blsize' = 0 /\ data' = SP!Null /\ UNCHANGED ec
                    \/ will # 0 /\ blsize' = will /\ data' = base /\ UNCHANGED ec
                    \/ will # 0 /\ blsize' = 0 /\ data' = SP!MapFailed /\ ec' = TRUE
  BY SP!MmapPages, SameSourceAssumption
<1>. QED  BY <1>1, <1>2

\* A refill at the end of a window moves nothing, and reports nothing.
LEMMA GoodRefill ==
  ASSUME SP!SourceInv, SP!StreamInv, ~SP!Broken, ~SP!Overlong, cur = blsize, SP!MakeAvailable(cur)
  PROVE  /\ ~SP!Broken' /\ ~SP!Overlong' /\ UNCHANGED ec
         /\ SP!Offset' = SP!Offset /\ SP!Size' = SP!Size
<1>1. /\ Width \in Nat \ {0} /\ PageSize \in Nat \ {0}
      /\ kind \in {"buffer", "istream", "mmap"} /\ bloff \in 0 .. Width - 1
      /\ cur \in 0 .. Width - 1 /\ blsize \in 0 .. Width - 1 /\ size \in 0 .. Width - 1
      /\ block \in 0 .. Width - 1
  BY SP!Numbers, SameSourceAssumption
<1>2. ~SP!Broken'
  BY <1>1, NothingFails
<1>3. SP!Refilled
  BY SP!WindowRefilled, SameSourceAssumption
<1>4. SP!Offset' = SP!Offset
  BY SP!RefillKeepsOffset, SameSourceAssumption
<1>5. SP!Size' = SP!Size
  BY <1>3, SP!RefillKeepsSize, SameSourceAssumption
<1>6. CASE kind # "mmap"
  <2>1. UNCHANGED ec /\ UNCHANGED kind
    BY <1>6 DEF SP!MakeAvailable, SP!BufferMakeAvailable, SP!IstreamMakeAvailable
  <2>. QED  BY <1>2, <1>4, <1>5, <1>6, <2>1 DEF SP!Overlong
<1>7. CASE kind = "mmap"
  <2>1. PICK o, base, will \in Nat :
           /\ base + o = SP!WAdd(bloff, cur) /\ base + o < Width
           /\ o < PageSize /\ base % PageSize = 0
           /\ will = SP!Smaller(SP!WSub(size, base), block)
           /\ cur' = o /\ UNCHANGED <<kind, file, size, block, stream, fd>>
           /\ \/ base = bloff /\ UNCHANGED <<bloff, blsize, data, ec>>
              \/ base # bloff /\ blsize = 0 /\ ec' = TRUE /\ UNCHANGED <<bloff, blsize, data>>
              \/ /\ base # bloff /\ blsize # 0 /\ bloff' = base /\ UNCHANGED ec
                 /\ \/ will = 0 /\ blsize' = 0 /\ data' = SP!Null
                    \/ will # 0 /\ blsize' = will /\ data' = base
    BY <1>1, <1>7, PagesMapped
  <2>2. base + o = bloff + blsize /\ bloff + blsize <= size
    BY <1>1, <1>7, <2>1 DEF SP!Overlong, SP!WAdd
  <2>3. bloff % PageSize = 0
    BY <1>7, SP!MmapAligned, SameSourceAssumption
  <2>4. blsize = 0 => base = bloff
    <3>. SUFFICES ASSUME blsize = 0 PROVE base = bloff
      OBVIOUS
    <3>1. base + o = bloff
      BY <1>1, <2>2
    <3>2. (base + o) % PageSize = o
      <4>1. o \in 0 .. PageSize - 1
        BY <1>1, <2>1
      <4>. QED  BY <1>1, <2>1, <4>1, SP!PageJoin, SameSourceAssumption
    <3>. QED  BY <2>1, <2>3, <3>1, <3>2
  <2>5. UNCHANGED ec
    BY <2>1, <2>4
  <2>6. will <= size - base
    BY <1>1, <2>1, <2>2 DEF SP!Smaller, SP!WSub
  <2>7. bloff' + blsize' <= size' /\ bloff' + blsize' \in Nat /\ size' \in Nat
    BY <1>1, <2>1, <2>2, <2>4, <2>6
  <2>8. ~SP!Overlong'
    BY <2>7 DEF SP!Overlong
  <2>. QED  BY <1>2, <1>4, <1>5, <2>5, <2>8
<1>. QED  BY <1>6, <1>7

-----------------------------------------------------------------------------
(* Calls on a source in order.                                             *)

\* What no round of a call changes.
LEMMA RoundFrame ==
  ASSUME SP!Step
  PROVE  /\ UNCHANGED <<kind, file, size, block, fd>> /\ SP!Size' = SP!Size
         /\ (kind = "buffer" => UNCHANGED <<bloff, blsize, data>>)
<1>1. UNCHANGED <<kind, file, size, block, fd>>
  BY DEF SP!Step, SP!FetchTop, SP!FetchCopy, SP!FetchFault, SP!FetchRefill, SP!AdvanceStep,
     SP!MakeAvailable, SP!BufferMakeAvailable, SP!IstreamMakeAvailable, SP!MmapMakeAvailable,
     SP!resources
<1>2. kind = "buffer" => UNCHANGED <<bloff, blsize, data>>
  BY DEF SP!Step, SP!FetchTop, SP!FetchCopy, SP!FetchFault, SP!FetchRefill, SP!AdvanceStep,
     SP!MakeAvailable, SP!BufferMakeAvailable, SP!window
<1>. QED  BY <1>1, <1>2 DEF SP!Size

\* The call a round belongs to.
LEMMA RoundCall ==
  ASSUME SP!SourceInv, SP!Step
  PROVE  /\ UNCHANGED <<call.op, call.n, call.start>>
         /\ call.op = "advance" => UNCHANGED <<call, dest>>
         /\ call.op = "fetch" \/ (call.op = "advance" /\ SP!AdvanceStep)
         /\ ec' \in BOOLEAN
<1>1. /\ call.op \in {"none", "fetch", "advance"} /\ call.n \in 0 .. Width - 1
      /\ call.start \in 0 .. Width - 1
  BY SP!Numbers, SameSourceAssumption
<1>2. \/ UNCHANGED <<call, dest>>
      \/ /\ call' = [call EXCEPT !.copied = @ + SP!Capped] /\ source_pc = "copy"
  BY DEF SP!Step, SP!FetchTop, SP!FetchCopy, SP!FetchFault, SP!FetchRefill, SP!AdvanceStep
<1>3. UNCHANGED <<call.op, call.n, call.start>>
  BY <1>1, <1>2 DEF SP!SourceInv, SP!TypeOK
<1>4. /\ source_pc \in {"top", "copy", "refill"} => call.op = "fetch"
      /\ source_pc = "advance" => call.op = "advance"
  BY DEF SP!SourceInv, SP!CallBounded
<1>5. source_pc \in {"top", "copy", "refill"} \/ (source_pc = "advance" /\ SP!AdvanceStep)
  BY DEF SP!Step, SP!FetchTop, SP!FetchCopy, SP!FetchFault, SP!FetchRefill, SP!AdvanceStep
<1>6. ec' \in BOOLEAN
  <2>1. SP!SourceInv'
    BY SP!StepInv, SameSourceAssumption DEF SP!Next
  <2>. QED  BY <2>1 DEF SP!SourceInv, SP!TypeOK
<1>. QED  BY <1>2, <1>3, <1>4, <1>5, <1>6

\* Numbers of a source in order.
LEMMA GoodNumbers ==
  ASSUME Good
  PROVE  /\ SP!SourceInv /\ SP!StreamInv
         /\ Width \in Nat \ {0} /\ PageSize \in Nat \ {0}
         /\ bloff \in Nat /\ blsize \in Nat /\ cur \in Nat /\ cur <= blsize
         /\ SP!Avail = blsize - cur /\ SP!Offset = bloff + cur /\ SP!Offset \in 0 .. Width - 1
         /\ SP!Size \in 0 .. Width - 1 /\ bloff + blsize <= SP!Size
         /\ call.n \in Nat /\ call.start \in Nat /\ call.copied \in 0 .. call.n
         /\ call.op \in {"none", "fetch", "advance"}
         /\ kind \in {"buffer", "istream", "mmap"}
         /\ size \in 0 .. Width - 1 /\ block \in 0 .. Width - 1 /\ file \in 0 .. Width - 1
         /\ ec \in BOOLEAN
<1>1. SP!SourceInv /\ SP!StreamInv /\ ~SP!Adrift /\ ~SP!Overlong
  BY NotAdrift DEF Good, SP!ContentInv
<1>2. /\ Width \in Nat \ {0} /\ PageSize \in Nat \ {0}
      /\ bloff \in 0 .. Width - 1 /\ blsize \in 0 .. Width - 1 /\ cur \in 0 .. Width - 1
      /\ call.n \in 0 .. Width - 1 /\ call.start \in 0 .. Width - 1 /\ call.copied \in 0 .. call.n
      /\ call.op \in {"none", "fetch", "advance"} /\ SP!Offset \in 0 .. Width - 1
      /\ kind \in {"buffer", "istream", "mmap"}
      /\ size \in 0 .. Width - 1 /\ block \in 0 .. Width - 1 /\ file \in 0 .. Width - 1
      /\ ec \in BOOLEAN
  BY <1>1, SP!Numbers, SameSourceAssumption
<1>3. /\ cur <= blsize /\ SP!Avail = blsize - cur /\ SP!Offset = bloff + cur
      /\ SP!WindowEnd <= SP!Size
  BY <1>1, SP!WindowInStream, SameSourceAssumption
<1>4. SP!Size \in 0 .. Width - 1
  BY <1>2 DEF SP!Size
<1>. QED  BY <1>1, <1>2, <1>3, <1>4 DEF SP!WindowEnd

\* A fetch starts, or a skip that stays in the window.
LEMMA GoodCall ==
  ASSUME Good, NEW n \in 0 .. Width - 1, SP!Offset + n <= SP!Size, SP!Fetch(n) \/ SP!Advance(n)
  PROVE  Good'
<1>1. SP!SourceInv'
  BY SP!CallStarts, SameSourceAssumption DEF Good, SP!ContentInv
<1>2. SP!ContentInv'
  BY <1>1, SP!FetchContent, SP!AdvanceContent, SameSourceAssumption, SourceWellUsed DEF Good
<1>3. /\ UNCHANGED <<kind, file, bloff, blsize, cur, data, size, block, stream, fd>>
      /\ ec' \in {ec, FALSE} /\ source_pc' \in {"top", "advance"}
      /\ call'.op \in {"fetch", "advance"} /\ call'.n = n /\ call'.start = SP!Offset
  <2>1. CASE SP!Fetch(n)
    BY <2>1 DEF SP!Fetch, SP!Called, SP!window, SP!resources
  <2>2. CASE SP!Advance(n)
    BY <2>2 DEF SP!Advance, SP!Called, SP!window, SP!resources
  <2>. QED  BY <2>1, <2>2
<1>4. SP!Offset' = SP!Offset /\ SP!Size' = SP!Size
  BY <1>3 DEF SP!Offset, SP!Size, SP!WAdd
<1>5. SP!Broken' = SP!Broken /\ SP!Overlong' = SP!Overlong /\ Fits' = Fits
  BY <1>3 DEF SP!Broken, SP!Overlong, Fits
<1>6. ec' => SP!Offset' >= SP!Size'
  BY <1>3, <1>4 DEF Good
<1>7. call'.start + call'.n <= SP!Size'
  BY <1>3, <1>4
<1>. QED  BY <1>2, <1>3, <1>5, <1>6, <1>7 DEF Good

\* A skip that leaves the window is one of a source that has several.
LEMMA SkipLeaves ==
  ASSUME Good, NEW n \in 0 .. Width - 1, SP!Offset + n <= SP!Size, ~(n <= SP!Avail), S!Advance(n)
  PROVE  Left'
<1>1. /\ SP!SourceInv /\ SP!StreamInv /\ ~SP!Broken /\ ~SP!Overlong
      /\ Width \in Nat \ {0} /\ PageSize \in Nat \ {0}
      /\ bloff \in Nat /\ blsize \in Nat /\ cur \in Nat /\ cur <= blsize
      /\ SP!Avail = blsize - cur /\ SP!Offset = bloff + cur /\ SP!Offset \in 0 .. Width - 1
      /\ SP!Size \in 0 .. Width - 1 /\ bloff + blsize <= SP!Size
      /\ kind \in {"buffer", "istream", "mmap"}
      /\ size \in 0 .. Width - 1 /\ block \in 0 .. Width - 1 /\ file \in 0 .. Width - 1
      /\ ec \in BOOLEAN
  BY GoodNumbers DEF Good
<1>2. /\ UNCHANGED <<kind, file, bloff, blsize, cur, data, size, block, stream, fd, fds, maps>>
      /\ ec' \in {ec, FALSE} /\ source_pc' = "advance"
      /\ call' = [op |-> "advance", n |-> n, start |-> SP!Offset, copied |-> 0]
  BY SamePlace DEF S!Advance, S!Called, S!window, S!resources
<1>3. n > 0 /\ blsize < cur + n /\ SP!Offset < SP!Size
  BY <1>1
<1>4. SP!Offset' = SP!Offset /\ SP!Size' = SP!Size
  BY <1>2 DEF SP!Offset, SP!Size, SP!WAdd
<1>5. SP!Broken' = SP!Broken /\ SP!Overlong' = SP!Overlong
  BY <1>2 DEF SP!Broken, SP!Overlong
<1>6. ~ec /\ ~ec'
  <2>1. ~ec
    BY <1>1, <1>3 DEF Good
  <2>2. ec' = ec \/ ec' = FALSE
    BY <1>2
  <2>. QED  BY <2>1, <2>2
<1>7. SP!SourceInv'
  <2>1. SP!WindowInv /\ ec' \in BOOLEAN
    BY <1>1, <1>2, SP!SourceInvParts, SameSourceAssumption
  <2>2. SP!WindowInv'
    BY <1>2, <2>1, SP!WindowStays, SameSourceAssumption DEF SP!window, SP!resources
  <2>3. SP!CallTypeOK' /\ SP!CallBounded'
    BY <1>1, <1>2 DEF SP!CallTypeOK, SP!CallBounded
  <2>4. SP!FetchAccounting'
    BY <1>2 DEF SP!FetchAccounting
  <2>. QED  BY <2>2, <2>3, <2>4, SP!SourceInvParts, SameSourceAssumption
<1>8. SP!StreamInv'
  BY <1>1, <1>2, <1>6, SP!StreamStays, SameSourceAssumption DEF SP!window
<1>9. kind # "buffer"
  BY <1>1, <1>3 DEF SP!Size, SP!StreamInv, SP!BufferWindow
<1>10. block # 0
  <2>1. CASE kind = "istream"
    BY <1>1, <1>3, <2>1 DEF SP!Size, SP!StreamInv, SP!IstreamWindow
  <2>2. CASE kind = "mmap" /\ block = 0
    <3>1. ~SP!Adrift
      BY <1>1, NotAdrift DEF Good
    <3>2. SP!Size = size /\ blsize # 0 /\ bloff = 0 /\ blsize = size
      BY <1>1, <1>3, <2>2, <3>1 DEF SP!Size, SP!StreamInv, SP!MmapWindow
    <3>. QED  BY <1>1, <1>3, <3>2
  <2>. QED  BY <1>1, <1>9, <2>1, <2>2
<1>11. kind = "mmap" => fd /\ size \in {0, file} /\ block % PageSize = 0
  BY <1>1, <1>3 DEF SP!Size, SP!StreamInv, SP!MmapWindow
<1>12. SkipOver'
  BY <1>1, <1>2, <1>3, <1>4, <1>5, <1>7, <1>9, <1>10, <1>11 DEF SkipOver
<1>13. FirstRound'
  BY <1>1, <1>2, <1>3, <1>4, <1>5, <1>8 DEF FirstRound
<1>. QED  BY <1>2, <1>6, <1>12, <1>13 DEF Left

SourceNumbers ==
  /\ SP!Offset \in 0 .. Width - 1 /\ call.copied \in 0 .. call.n
  /\ bloff \in 0 .. Width - 1 /\ blsize \in 0 .. Width - 1

\* The source's numbers stay numbers of size_t.
LEMMA SourceNumbersAfter == SP!SourceInv' => SourceNumbers'
<1>1. SP!SourceInv => SourceNumbers
  BY SP!Numbers, SameSourceAssumption DEF SourceNumbers
<1>. QED  BY <1>1, PTL

\* A source with an empty window, or one that is used up, gets the next one.
LEMMA GoodMore ==
  ASSUME Good, SP!FetchTop \/ SP!FetchRefill
  PROVE  /\ ~SP!Broken' /\ ~SP!Overlong' /\ UNCHANGED <<ec, call>>
         /\ SP!Offset' = SP!Offset /\ SP!Size' = SP!Size
         /\ source_pc' \in {"idle", "top", "copy"}
<1>1. /\ SP!SourceInv /\ SP!StreamInv /\ ~SP!Broken /\ ~SP!Overlong
      /\ cur \in Nat /\ blsize \in Nat /\ SP!Avail = blsize - cur
  BY GoodNumbers DEF Good
<1>2. CASE cur = blsize /\ SP!MakeAvailable(cur)
  <2>1. /\ ~SP!Broken' /\ ~SP!Overlong' /\ UNCHANGED ec
        /\ SP!Offset' = SP!Offset /\ SP!Size' = SP!Size
    BY <1>1, <1>2, GoodRefill
  <2>2. UNCHANGED call /\ source_pc' \in {"idle", "top", "copy"}
    BY DEF SP!FetchTop, SP!FetchRefill
  <2>. QED  BY <2>1, <2>2
<1>3. CASE /\ UNCHANGED <<kind, file, bloff, blsize, cur, data, size, block, stream, fd, ec, call>>
           /\ source_pc' = "copy"
  <2>1. SP!Offset' = SP!Offset /\ SP!Size' = SP!Size
    BY <1>3 DEF SP!Offset, SP!Size, SP!WAdd
  <2>2. ~SP!Broken' /\ ~SP!Overlong'
    BY <1>1, <1>3 DEF SP!Broken, SP!Overlong
  <2>3. UNCHANGED <<ec, call>> /\ source_pc' \in {"idle", "top", "copy"}
    BY <1>3
  <2>. QED  BY <2>1, <2>2, <2>3
<1>4. CASE SP!FetchTop
  <2>1. CASE SP!Avail # 0
    BY <1>3, <1>4, <2>1 DEF SP!FetchTop, SP!window, SP!resources
  <2>2. CASE SP!Avail = 0
    BY <1>1, <1>2, <1>4, <2>2 DEF SP!FetchTop
  <2>. QED  BY <2>1, <2>2
<1>5. CASE SP!FetchRefill
  <2>1. cur = blsize
    BY <1>1, <1>5, NotAdrift DEF Good, SP!ContentInv, SP!CursorInv, SP!FetchRefill
  <2>. QED  BY <1>2, <1>5, <2>1 DEF SP!FetchRefill
<1>. QED  BY <1>4, <1>5

\* A copy moves the cursor on.
LEMMA GoodCopy ==
  ASSUME Good, SP!FetchCopy
  PROVE  /\ ~SP!Broken' /\ ~SP!Overlong' /\ UNCHANGED ec
         /\ SP!Offset' >= SP!Offset /\ SP!Size' = SP!Size
         /\ source_pc' \in {"idle", "top", "refill"}
<1>1. /\ UNCHANGED <<kind, file, bloff, blsize, data, size, block, stream, fd, ec>>
      /\ source_pc' \in {"idle", "top", "refill"} /\ cur' = SP!WAdd(cur, SP!Capped)
  BY DEF SP!FetchCopy, SP!resources
<1>2. SP!Broken' = SP!Broken /\ SP!Overlong' = SP!Overlong /\ SP!Size' = SP!Size
  BY <1>1 DEF SP!Broken, SP!Overlong, SP!Size
<1>3. /\ bloff \in Nat /\ blsize \in Nat /\ cur \in Nat /\ cur <= blsize /\ Width \in Nat
      /\ SP!Avail = blsize - cur /\ SP!Size \in 0 .. Width - 1 /\ bloff + blsize <= SP!Size
      /\ call.n \in Nat /\ call.copied \in 0 .. call.n /\ SP!Offset = bloff + cur
  BY GoodNumbers
<1>4. SP!Capped \in Nat /\ SP!Capped <= blsize - cur
  BY <1>3 DEF SP!Capped, SP!Smaller
<1>5. cur' = cur + SP!Capped
  BY <1>1, <1>3, <1>4 DEF SP!WAdd
<1>6. SP!Offset' = bloff + (cur + SP!Capped)
  BY <1>1, <1>3, <1>4, <1>5 DEF SP!Offset, SP!WAdd
<1>. QED  BY <1>1, <1>2, <1>3, <1>4, <1>6 DEF Good

\* A skip in the window takes one round.
LEMMA GoodSkip ==
  ASSUME Good, SP!AdvanceStep
  PROVE  /\ ~SP!Broken' /\ ~SP!Overlong' /\ UNCHANGED ec
         /\ UNCHANGED <<bloff, blsize, data>>
         /\ SP!Offset' = call.start + call.n /\ SP!Size' = SP!Size /\ SP!Offset' >= SP!Offset
         /\ source_pc' = "idle"
<1>1. /\ bloff \in Nat /\ blsize \in Nat /\ cur \in Nat /\ Width \in Nat
      /\ SP!Size \in 0 .. Width - 1 /\ bloff + blsize <= SP!Size
      /\ call.n \in Nat /\ call.start \in Nat /\ SP!Offset = bloff + cur
  BY GoodNumbers
<1>2. SP!Offset = call.start /\ cur + call.n <= blsize
  BY NotAdrift DEF Good, SP!ContentInv, SP!CursorInv, SP!AdvanceStep
<1>3. SP!WAdd(cur, call.n) = cur + call.n
  BY <1>1, <1>2 DEF SP!WAdd
<1>4. /\ UNCHANGED <<kind, file, bloff, blsize, data, size, block, stream, fd, ec>>
      /\ source_pc' = "idle" /\ cur' = cur + call.n
  BY <1>2, <1>3 DEF SP!AdvanceStep, SP!InWindow, SP!resources
<1>5. SP!Broken' = SP!Broken /\ SP!Overlong' = SP!Overlong /\ SP!Size' = SP!Size
  BY <1>4 DEF SP!Broken, SP!Overlong, SP!Size
<1>6. SP!Offset' = bloff + (cur + call.n)
  BY <1>1, <1>2, <1>4 DEF SP!Offset, SP!WAdd
<1>. QED  BY <1>1, <1>2, <1>4, <1>5, <1>6 DEF Good

\* A source in order stays so: a fetch whose bytes the stream has is not
\* short, and a skip in the window ends where it was asked to.
LEMMA GoodStep ==
  ASSUME Good, SP!Step
  PROVE  Good'
<1>1. SP!ContentInv'
  BY SP!StepContent, SourceWellUsed, SameSourceAssumption DEF Good, SP!Next
<1>2. SP!NoFault'
  BY <1>1 DEF SP!ContentInv
<1>3. /\ UNCHANGED <<call.op, call.n, call.start>>
      /\ call.op = "fetch" \/ (call.op = "advance" /\ SP!AdvanceStep)
  BY RoundCall DEF Good, SP!ContentInv
<1>4. /\ ~SP!Broken' /\ ~SP!Overlong' /\ UNCHANGED ec
      /\ SP!Offset' >= SP!Offset /\ SP!Size' = SP!Size /\ source_pc' # "abort"
      /\ SP!AdvanceStep => SP!Offset' = call.start + call.n
  <2>1. CASE SP!FetchTop \/ SP!FetchRefill
    <3>1. SP!Offset \in Nat
      BY GoodNumbers
    <3>2. ~SP!AdvanceStep
      BY <2>1 DEF SP!FetchTop, SP!FetchRefill, SP!AdvanceStep
    <3>. QED  BY <2>1, <3>1, <3>2, GoodMore
  <2>2. CASE SP!FetchCopy
    <3>1. ~SP!AdvanceStep
      BY <2>2 DEF SP!FetchCopy, SP!AdvanceStep
    <3>. QED  BY <2>2, <3>1, GoodCopy
  <2>3. CASE SP!AdvanceStep
    BY <2>3, GoodSkip
  <2>4. CASE SP!FetchFault
    <3>1. source_pc' = "fault" /\ UNCHANGED <<kind, bloff, blsize, size, data>>
      BY <2>4 DEF SP!FetchFault, SP!window
    <3>2. UNCHANGED <<block, cur>>
      BY <2>4 DEF SP!FetchFault, SP!window, SP!resources
    <3>3. SP!Adrift' = SP!Adrift /\ SP!Overlong' = SP!Overlong
      BY <3>1, <3>2 DEF SP!Adrift, SP!Broken, SP!Spent, SP!Overlong, SP!Offset, SP!WAdd
    <3>. QED  BY <1>2, <3>1, <3>3, NotAdrift DEF SP!NoFault, Good
  <2>. QED  BY <2>1, <2>2, <2>3, <2>4 DEF SP!Step
<1>5. Fits'
  BY RoundFrame DEF Good, Fits
<1>6. source_pc' # "fault"
  BY <1>2, <1>4, <1>5, NotAdrift DEF SP!NoFault
<1>7. /\ SP!Size \in Nat /\ SP!Offset \in Nat /\ call.start \in Nat /\ call.n \in Nat
      /\ SP!Offset' \in 0 .. Width - 1 /\ Width \in Nat
      /\ call'.copied \in 0 .. call.n
  <2>1. SP!SourceInv'
    BY <1>1 DEF SP!ContentInv
  <2>2. SP!Offset' \in 0 .. Width - 1 /\ call'.copied \in 0 .. call'.n
    BY <2>1, SourceNumbersAfter DEF SourceNumbers
  <2>. QED  BY <1>3, <2>2, GoodNumbers
<1>8. call.start + call.n <= SP!Size
  BY <1>3 DEF Good
<1>9. ec' => SP!Offset' >= SP!Size'
  BY <1>4, <1>7 DEF Good
<1>10. ASSUME source_pc' = "idle", call.op = "fetch"
      PROVE  SP!Offset' = call.start + call.n
  <2>1. SP!Offset' = call.start + call'.copied
    <3>1. SP!Offset' = SP!WAdd(call'.start, call'.copied)
      BY <1>1, <1>3, <1>10 DEF SP!ContentInv, SP!SourceInv, SP!FetchAccounting
    <3>2. SP!Size < Width
      BY GoodNumbers
    <3>. QED  BY <1>3, <1>7, <1>8, <3>1, <3>2 DEF SP!WAdd
  <2>2. CASE call'.copied < call.n
    <3>1. SP!Offset' >= SP!Size'
      BY <1>1, <1>3, <1>4, <1>9, <1>10, <2>2 DEF SP!ContentInv, SP!ShortOnlyAtEnd
    <3>. QED  BY <1>4, <1>7, <1>8, <2>1, <2>2, <3>1
  <2>. QED  BY <1>7, <2>1, <2>2
<1>11. source_pc' = "idle" => SP!Offset' = call'.start + call'.n
  BY <1>3, <1>4, <1>10
<1>. QED  BY <1>1, <1>3, <1>4, <1>5, <1>6, <1>8, <1>9, <1>11 DEF Good

\* Where a round of a skip that has left its window starts from.
LEMMA LeftNumbers ==
  ASSUME Left, NoWrap
  PROVE  /\ Width \in Nat \ {0} /\ PageSize \in Nat \ {0}
         /\ bloff \in Nat /\ blsize \in Nat /\ cur \in Nat /\ block \in Nat \ {0}
         /\ size \in 0 .. Width - 1 /\ call.n \in Nat \ {0} /\ call.start \in Nat
         /\ call.start + call.n <= size /\ SP!Size = size /\ file \in 0 .. Width - 1
         /\ SP!Offset = bloff + cur /\ SP!Offset >= call.start
         /\ bloff + cur + call.n < Width
         /\ SP!WAdd(cur, call.n) = cur + call.n
         /\ SP!WAdd(bloff, cur + call.n) = bloff + cur + call.n
         /\ kind = "mmap" => /\ blsize = 0 => bloff = size /\ data = SP!Null
                             /\ SP!Offset = call.start => blsize # 0
<1>1. /\ SP!SourceInv /\ ~SP!Broken /\ kind \in {"istream", "mmap"} /\ source_pc = "advance"
      /\ call.n > 0 /\ call.start + call.n <= SP!Size
  BY DEF Left, SkipOver
<1>2. /\ Width \in Nat \ {0} /\ PageSize \in Nat \ {0}
      /\ bloff \in Nat /\ blsize \in Nat /\ cur \in Nat /\ block \in Nat \ {0}
      /\ size \in 0 .. Width - 1 /\ call.n \in Nat \ {0} /\ call.start \in Nat
      /\ file \in 0 .. Width - 1 /\ data \in {-1, -2} \cup (0 .. Width - 1)
  BY <1>1, SP!Numbers, SameSourceAssumption DEF Left, SkipOver
<1>3. SP!Size = size
  BY <1>1 DEF SP!Size
<1>4. /\ SP!Offset = bloff + cur /\ SP!Offset >= call.start
      /\ kind = "mmap" => /\ blsize = 0 => bloff = size /\ data = SP!Null
                          /\ SP!Offset = call.start => blsize # 0
  <2>1. CASE FirstRound
    <3>1. /\ SP!Offset = call.start /\ SP!StreamInv /\ ~SP!Overlong
      BY <2>1 DEF FirstRound
    <3>2. SP!Offset = bloff + cur
      BY <1>1, <1>2, <3>1, NotAdrift, SP!WindowInStream, SameSourceAssumption
    <3>3. kind = "mmap" => blsize # 0
      <4>1. kind = "mmap" /\ blsize = 0 => bloff = size /\ cur = 0
        BY <1>1, <1>2, <3>1, NotAdrift DEF SP!StreamInv, SP!MmapWindow
      <4>. QED  BY <1>1, <1>2, <1>3, <3>1, <3>2, <4>1
    <3>. QED  BY <1>2, <3>1, <3>2, <3>3
  <2>2. CASE LaterRound
    <3>1. SP!Offset = bloff + cur
      BY <1>2, <2>2 DEF LaterRound, SP!Offset, SP!WAdd
    <3>. QED  BY <1>2, <2>2, <3>1 DEF LaterRound
  <2>. QED  BY <2>1, <2>2 DEF Left
<1>5. bloff + cur + call.n < Width
  BY <1>1, <1>2, <1>4, SamePlace DEF NoWrap
<1>. QED  BY <1>1, <1>2, <1>3, <1>4, <1>5 DEF SP!WAdd

\* It leaves this window as well, or ends, and not where it was asked to: but
\* for the skip to the end of a mapped file, which finds the place by failing.
LEMMA LeftStep ==
  ASSUME Left, NoWrap, SP!AdvanceStep
  PROVE  Left' \/ Gone' \/ Good'
<1>. DEFINE c == SP!WAdd(cur, call.n)
<1>1. /\ SP!SourceInv /\ ~SP!Broken /\ kind \in {"istream", "mmap"} /\ source_pc = "advance"
      /\ kind = "mmap" => fd /\ size \in {0, file} /\ block % PageSize = 0
      /\ call.op = "advance" /\ ~ec
  BY DEF Left, SkipOver
<1>2. /\ Width \in Nat \ {0} /\ PageSize \in Nat \ {0}
      /\ bloff \in Nat /\ blsize \in Nat /\ cur \in Nat /\ block \in Nat \ {0}
      /\ size \in 0 .. Width - 1 /\ call.n \in Nat \ {0} /\ call.start \in Nat
      /\ call.start + call.n <= size /\ SP!Size = size /\ file \in 0 .. Width - 1
      /\ SP!Offset = bloff + cur /\ SP!Offset >= call.start
      /\ bloff + cur + call.n < Width
      /\ c = cur + call.n
      /\ SP!WAdd(bloff, c) = bloff + cur + call.n
      /\ kind = "mmap" => /\ blsize = 0 => bloff = size /\ data = SP!Null
                          /\ SP!Offset = call.start => blsize # 0
  BY LeftNumbers
<1>3. SP!SourceInv'
  BY <1>1, SP!StepInv, SameSourceAssumption DEF SP!Next, SP!Step
<1>4. UNCHANGED <<kind, file, size, block, fd, call, dest>> /\ SP!Size' = SP!Size
  BY RoundFrame DEF SP!Step, SP!AdvanceStep
<1>5. SP!Size' = size /\ c \in 0 .. Width - 1
  BY <1>2, <1>4
<1>. HIDE DEF c
<1>6. ASSUME ~SP!Broken' PROVE SkipOver'
  BY <1>1, <1>2, <1>3, <1>4, <1>5, <1>6 DEF SkipOver
<1>7. CASE SP!InWindow(c)
  <2>1. UNCHANGED <<bloff, blsize, data, ec>> /\ cur' = c /\ source_pc' = "idle"
    BY <1>7 DEF SP!AdvanceStep, c
  <2>2. SP!Offset' = bloff + cur + call.n
    BY <1>2, <2>1 DEF SP!Offset
  <2>3. ~SP!Broken'
    BY <1>1, <2>1 DEF SP!Broken
  <2>4. SP!Offset # call.start
    <3>. SUFFICES ASSUME SP!Offset = call.start PROVE FALSE
      OBVIOUS
    <3>1. FirstRound
      BY <1>2 DEF Left, LaterRound
    <3>. QED  BY <1>2, <1>7, <3>1 DEF FirstRound, SP!InWindow
  <2>5. SP!Offset' # call'.start + call'.n
    BY <1>2, <1>4, <2>2, <2>4
  <2>. QED  BY <1>6, <2>1, <2>3, <2>5 DEF Gone
<1>8. CASE ~SP!InWindow(c)
  <2>1. SP!MakeAvailable(c) /\ source_pc' = IF ec' THEN "idle" ELSE "advance"
    BY <1>8 DEF SP!AdvanceStep, c
  <2>2. ~SP!Broken'
    BY <1>1, <1>5, <2>1, NothingFails
  <2>3. SkipOver'
    BY <1>6, <2>2
  <2>4. CASE kind = "istream"
    <3>1. bloff' = bloff + cur + call.n /\ cur' = 0 /\ UNCHANGED ec
      BY <1>2, <2>1, <2>4 DEF SP!MakeAvailable, SP!IstreamMakeAvailable
    <3>2. SP!Offset' = bloff + cur + call.n /\ bloff' + cur' < Width
      BY <1>2, <3>1 DEF SP!Offset, SP!WAdd
    <3>3. SP!Offset' >= call'.start + call'.n
      BY <1>2, <1>4, <3>2
    <3>4. LaterRound'
      BY <1>4, <2>4, <3>2, <3>3 DEF LaterRound
    <3>. QED  BY <1>1, <2>1, <2>3, <3>1, <3>4 DEF Left
  <2>5. CASE kind = "mmap"
    <3>1. PICK o, base, will \in Nat :
           /\ base + o = SP!WAdd(bloff, c) /\ base + o < Width
           /\ o < PageSize /\ base % PageSize = 0
           /\ will = SP!Smaller(SP!WSub(size, base), block)
           /\ cur' = o /\ UNCHANGED <<kind, file, size, block, stream, fd>>
           /\ \/ base = bloff /\ UNCHANGED <<bloff, blsize, data, ec>>
              \/ base # bloff /\ blsize = 0 /\ ec' = TRUE /\ UNCHANGED <<bloff, blsize, data>>
              \/ /\ base # bloff /\ blsize # 0 /\ bloff' = base /\ UNCHANGED ec
                 /\ \/ will = 0 /\ blsize' = 0 /\ data' = SP!Null
                    \/ will # 0 /\ blsize' = will /\ data' = base
      BY <1>1, <1>5, <2>1, <2>5, PagesMapped
    <3>2. base + o = bloff + cur + call.n
      BY <1>2, <3>1
    <3>3. CASE bloff' = base /\ UNCHANGED ec
      <4>1. SP!Offset' = base + o /\ bloff' + cur' < Width
        <5>1. bloff' = base /\ cur' = o
          BY <3>1, <3>3
        <5>2. bloff' + cur' = base + o /\ base + o \in Nat /\ base + o < Width
          BY <3>1, <5>1
        <5>3. ~(base + o >= Width)
          BY <1>2, <5>2
        <5>. QED  BY <5>1, <5>2, <5>3 DEF SP!Offset, SP!WAdd
      <4>2. SP!Offset' >= call'.start + call'.n
        BY <1>2, <1>4, <3>2, <4>1
      <4>3. will = 0 => base = size
        BY <1>2, <3>1 DEF SP!Smaller, SP!WSub
      <4>4. blsize' = 0 => bloff' = size' /\ data' = SP!Null
        BY <1>2, <1>4, <2>5, <3>1, <3>3, <4>3
      <4>5. LaterRound'
        BY <4>1, <4>2, <4>4 DEF LaterRound
      <4>. QED  BY <1>1, <2>1, <2>3, <3>3, <4>5 DEF Left
    <3>4. CASE base # bloff /\ blsize = 0 /\ ec' = TRUE /\ UNCHANGED <<bloff, blsize, data>>
      <4>1. bloff' = size /\ data' = SP!Null /\ blsize' = 0 /\ cur' = o /\ source_pc' = "idle"
        BY <1>2, <2>1, <2>5, <3>1, <3>4
      <4>2. CASE SP!Offset' # call'.start + call'.n
        BY <2>3, <4>1, <4>2 DEF Gone
      <4>3. CASE SP!Offset' = call'.start + call'.n
        <5>1. o < Width - size /\ SP!Offset' = size + o
          <6>1. size + PageSize <= Width
            BY <1>1, <1>2, <2>5, <3>4, SP!MmapAligned, SameSourceAssumption
          <6>. QED  BY <1>2, <3>1, <4>1, <6>1 DEF SP!Offset, SP!WAdd
        <5>2. o = 0 /\ SP!Offset' = size
          BY <1>2, <1>4, <3>1, <4>3, <5>1
        <5>3. SP!FromObjects'
          <6>1. [kind |-> kind, file |-> file, block |-> block] \in
                  [kind : {"buffer", "istream", "mmap"}, file : 0 .. Width - 1, block : 0 .. Width - 1]
            BY <1>1, <1>2, SP!Numbers, SameSourceAssumption
          <6>. QED  BY <1>4, <6>1 DEF SP!FromObjects
        <5>4. ~SP!Adrift' /\ Fits'
          BY <1>2, <1>4, <2>2, NotAdrift DEF Fits
        <5>5. SP!StreamInv'
          <6>1. kind' = "mmap" /\ fd' /\ block' % PageSize = 0 /\ block' # 0
            BY <1>1, <1>2, <1>4, <2>5
          <6>2. cur' = 0 /\ blsize' = 0 /\ bloff' = size' /\ data' = -1 /\ size' \in {0, file'}
            BY <1>1, <1>2, <1>4, <2>5, <4>1, <5>2 DEF SP!Null
          <6>3. ~SP!Broken'
            BY <2>2
          <6>. QED  BY <5>3, <5>4, <6>1, <6>2, <6>3
                    DEF SP!StreamInv, SP!BufferWindow, SP!IstreamWindow, SP!MmapWindow
        <5>6. SP!ContentInv'
          BY <1>1, <1>3, <1>4, <2>2, <3>4, <4>1, <5>5
          DEF SP!ContentInv, SP!CursorInv, SP!DeliveryInv, SP!NoFault, SP!ShortOnlyAtEnd, SP!SkipsExactly
        <5>7. ~SP!Overlong'
          BY <1>2, <1>4, <4>1 DEF SP!Overlong
        <5>8. SP!Offset' >= SP!Size' /\ call'.start + call'.n <= SP!Size'
          BY <1>2, <1>4, <1>5, <5>2
        <5>. QED  BY <2>2, <4>1, <4>3, <5>4, <5>6, <5>7, <5>8 DEF Good
      <4>. QED  BY <4>2, <4>3
    <3>. QED  BY <3>1, <3>3, <3>4
  <2>. QED  BY <1>1, <2>4, <2>5
<1>. QED  BY <1>7, <1>8

-----------------------------------------------------------------------------
(* Windows and alignment.                                                  *)

\* Blocks end where a primitive may, or with the file.
BlocksFit == block % MaxPrimitive = 0 \/ (kind = "istream" /\ block = file)

\* A multiple of a multiple is a multiple.
LEMMA MultipleOfMultiple ==
  ASSUME NEW a \in Nat, NEW b \in Nat \ {0}, NEW c \in Nat \ {0}, a % b = 0, b % c = 0
  PROVE  a % c = 0
<1>. DEFINE k == a \div b
            j == b \div c
<1>1. k \in Nat /\ a = b * k /\ j \in Nat /\ b = c * j
  BY SP!MultipleFactor, SameSourceAssumption
<1>. HIDE DEF k, j
<1>2. a = c * (j * k) /\ j * k \in Nat
  BY <1>1
<1>3. \A m \in Nat : (c * m) % c = 0
  OBVIOUS
<1>. QED  BY <1>2, <1>3

\* What a multiple is added to keeps its remainder.
LEMMA MultipleShift ==
  ASSUME NEW a \in Nat, NEW c \in Nat, NEW b \in Nat \ {0}, a % b = 0
  PROVE  (a + c) % b = c % b
<1>. DEFINE j == c - (c % b)
<1>1. c % b \in 0 .. b - 1 /\ j \in Nat /\ j % b = 0
  <2>1. c % b \in 0 .. c /\ c % b < b /\ (c - (c % b)) % b = 0
    BY SP!PageSplit, SameSourceAssumption
  <2>. QED  BY <2>1
<1>2. (a + j) % b = 0 /\ a + j \in Nat
  BY <1>1, SP!MultipleSum, SameSourceAssumption
<1>3. a + c = (a + j) + (c % b)
  BY <1>1
<1>. HIDE DEF j
<1>4. ((a + j) + (c % b)) % b = c % b
  BY <1>1, <1>2, SP!PageJoin, SameSourceAssumption
<1>. QED  BY <1>3, <1>4

\* What is a multiple of the largest primitive is one of every primitive.
LEMMA PrimitiveSizes ==
  ASSUME NEW al \in Nat \ {0}, MaxPrimitive % al = 0
  PROVE  /\ \A n \in Nat : n % MaxPrimitive = 0 => n % al = 0
         /\ PageSize % al = 0 /\ \A n \in Nat : n % PageSize = 0 => n % al = 0
<1>1. MaxPrimitive \in Nat \ {0}
  BY DEF MaxPrimitive
<1>2. \A n \in Nat : n % MaxPrimitive = 0 => n % al = 0
  BY <1>1, MultipleOfMultiple
<1>3. PageSize \in Nat \ {0} /\ PageSize % al = 0
  BY <1>2, ReaderAssumption DEF ReaderAssumption
<1>. QED  BY <1>2, <1>3, MultipleOfMultiple

\* In front of the end of the stream, a window begins where a primitive may,
\* and ends there or with the stream.
LEMMA WindowEnds ==
  ASSUME Good, BlocksFit, SP!Offset < SP!Size, NEW al \in Nat \ {0}, MaxPrimitive % al = 0
  PROVE  /\ bloff % al = 0
         /\ (bloff + blsize) % al = 0 \/ bloff + blsize = SP!Size
<1>1. /\ SP!StreamInv /\ PageSize \in Nat \ {0}
      /\ bloff \in Nat /\ blsize \in Nat /\ cur \in Nat /\ cur <= blsize
      /\ SP!Offset = bloff + cur /\ SP!Size \in Nat /\ bloff + blsize <= SP!Size
      /\ kind \in {"buffer", "istream", "mmap"} /\ file \in Nat /\ size \in Nat /\ block \in Nat
      /\ ~SP!Adrift /\ SP!SourceInv
  BY GoodNumbers, NotAdrift DEF Good
<1>2. 0 % al = 0
  OBVIOUS
<1>3. CASE kind = "buffer"
  BY <1>1, <1>2, <1>3 DEF SP!Size, SP!StreamInv, SP!BufferWindow
<1>4. CASE kind = "istream"
  <2>1. /\ SP!Size = file /\ block # 0 /\ bloff % block = 0 /\ bloff # file
        /\ blsize = block \/ bloff + blsize = file \/ (blsize = 0 /\ bloff = 0)
    BY <1>1, <1>4 DEF SP!Size, SP!StreamInv, SP!IstreamWindow, SP!WindowEnd
  <2>2. CASE block % MaxPrimitive = 0
    <3>1. block % al = 0
      BY <1>1, <2>2, PrimitiveSizes
    <3>2. bloff % al = 0
      BY <1>1, <2>1, <3>1, MultipleOfMultiple
    <3>3. (bloff + block) % al = 0
      BY <1>1, <3>1, <3>2, SP!MultipleSum, SameSourceAssumption
    <3>. QED  BY <1>1, <1>2, <2>1, <3>2, <3>3
  <2>3. CASE block = file
    <3>1. bloff = 0
      BY <1>1, <2>1, <2>3, SP!MultipleAtLeast, SameSourceAssumption
    <3>. QED  BY <1>1, <1>2, <2>1, <2>3, <3>1
  <2>. QED  BY <2>2, <2>3 DEF BlocksFit
<1>5. CASE kind = "mmap"
  <2>1. bloff % al = 0
    BY <1>1, <1>5, PrimitiveSizes, SP!MmapAligned, SameSourceAssumption
  <2>2. SP!Size = size /\ blsize # 0 /\ bloff < size
    BY <1>1, <1>5 DEF SP!Size, SP!StreamInv, SP!MmapWindow
  <2>3. CASE block = 0
    BY <1>1, <1>5, <2>1, <2>2, <2>3 DEF SP!StreamInv, SP!MmapWindow
  <2>4. CASE block # 0
    <3>1. (bloff + blsize) % PageSize = 0 \/ bloff + blsize = size
      BY <1>1, <1>5, <2>2, <2>4 DEF SP!StreamInv, SP!MmapWindow, SP!BlockWindow, SP!WindowEnd
    <3>2. (bloff + blsize) % PageSize = 0 => (bloff + blsize) % al = 0
      <4>1. bloff + blsize \in Nat
        BY <1>1
      <4>. QED  BY <4>1, PrimitiveSizes
    <3>. QED  BY <2>1, <2>2, <3>1, <3>2
  <2>. QED  BY <2>3, <2>4
<1>. QED  BY <1>1, <1>3, <1>4, <1>5

\* Primitives are aligned to powers of two, and aligning leads to the next multiple.
LEMMA PrimitivesAligned ==
  ASSUME NEW o \in 0 .. Width - 1, NEW p \in Ops
  PROVE  /\ p.align \in Nat \ {0} /\ MaxPrimitive % p.align = 0
         /\ L!Aligned(o, p.align) <=> o % p.align = 0
         /\ o % p.align # 0 => L!Align(o, p.align) = o + p.align - (o % p.align)
<1>. DEFINE al == p.align
<1>1. /\ al \in Nat \ {0} /\ 8 % al = 0 /\ OffsetBits \in Nat /\ 3 <= OffsetBits
      /\ Width \in Nat /\ Width <= 2^OffsetBits
  BY ReaderAssumption, SameLayoutAssumption DEF ReaderAssumption, LP!LayoutAssumption, MaxPrimitive
<1>. HIDE DEF al
<1>2. al \in {1, 2, 4, 8}
  <2>1. al <= 8
    BY <1>1
  <2>. QED  BY <1>1, <2>1
<1>3. al \in LP!PowersOfTwo
  <2>1. 2^0 = 1 /\ 2^1 = 2 /\ 2^2 = 4 /\ 2^3 = 8
    OBVIOUS
  <2>2. {0, 1, 2, 3} \subseteq 0 .. OffsetBits
    BY <1>1
  <2>. QED  BY <1>2, <2>1, <2>2 DEF LP!PowersOfTwo
<1>4. o \in Nat
  BY <1>1
<1>5. LP!Aligned(o, al) <=> o % al = 0
  BY <1>3, <1>4, LP!AlignedIs, SameLayoutAssumption
<1>6. ASSUME o % al # 0  PROVE LP!Align(o, al) = o + al - (o % al)
  <2>1. PICK c \in Nat, d \in 0 .. al - 1 : o = c * al + d /\ o % al = d
    BY <1>1, <1>4, LP!DivMod, SameLayoutAssumption
  <2>2. PICK t \in 0 .. al - 1 : d = t + 1
    <3>1. d - 1 \in 0 .. al - 1 /\ d = (d - 1) + 1
      BY <1>1, <1>6, <2>1
    <3>. QED  BY <3>1
  <2>3. PICK x \in Nat : x = c * al
    BY <1>1
  <2>4. PICK z \in Nat : z = 2^OffsetBits
    BY <1>3, LP!Powers, LP!PowerType, SameLayoutAssumption
  <2>5. c * al + t < 2^OffsetBits
    BY <1>1, <2>1, <2>2, <2>3, <2>4
  <2>6. LP!Align(c * al + t + 1, al) = c * al + al
    BY <1>3, <2>5, LP!AlignIs, SameLayoutAssumption
  <2>7. c * al + t + 1 = o /\ c * al + al = o + al - d
    BY <1>1, <2>1, <2>2, <2>3
  <2>. QED  BY <2>1, <2>6, <2>7
<1>. QED  BY <1>1, <1>5, <1>6, SameAligned, SameAlign DEF al, MaxPrimitive

\* The next place a value may begin at.
LEMMA TargetFacts ==
  ASSUME NEW o \in 0 .. Width - 1, NEW p \in Ops
  PROVE  /\ p.align \in Nat \ {0} /\ MaxPrimitive % p.align = 0
         /\ L!Aligned(o, p.align) <=> o % p.align = 0
         /\ L!Aligned(o, p.align) => L!Target(o, p.align) = o
         /\ ~L!Aligned(o, p.align) => /\ L!Target(o, p.align) = L!Align(o, p.align)
                                      /\ L!Target(o, p.align) \in Nat /\ L!Target(o, p.align) > o
         /\ L!Target(o, p.align) % p.align = 0
         /\ \A m \in Nat : m % p.align = 0 /\ o <= m => L!Target(o, p.align) <= m
<1>. DEFINE al == p.align
            base == o - (o % al)
<1>1. /\ al \in Nat \ {0} /\ MaxPrimitive % al = 0 /\ o \in Nat
      /\ L!Aligned(o, al) <=> o % al = 0
      /\ o % al # 0 => L!Align(o, al) = o + al - (o % al)
  BY PrimitivesAligned
<1>. HIDE DEF al
<1>2. CASE o % al = 0
  BY <1>1, <1>2 DEF L!Target, al
<1>3. CASE o % al # 0
  <2>1. o % al \in 0 .. al - 1 /\ base \in Nat /\ base % al = 0
    BY <1>1, SP!PageSplit, SameSourceAssumption
  <2>2. L!Target(o, al) = base + al /\ L!Target(o, al) = L!Align(o, al)
    BY <1>1, <1>3, <2>1 DEF L!Target
  <2>3. base < o /\ o < base + al
    BY <1>1, <1>3, <2>1
  <2>. HIDE DEF base
  <2>4. (base + al) % al = 0
    <3>1. al % al = 0
      BY <1>1
    <3>. QED  BY <1>1, <2>1, <3>1, SP!MultipleSum, SameSourceAssumption
  <2>5. ASSUME NEW m \in Nat, m % al = 0, o <= m PROVE base + al <= m
    <3>1. base < m
      BY <1>1, <2>1, <2>3, <2>5
    <3>. QED  BY <1>1, <2>1, <2>5, <3>1, SP!PageBelow, SameSourceAssumption
  <2>. QED  BY <1>1, <1>3, <2>1, <2>2, <2>3, <2>4, <2>5 DEF al
<1>. QED  BY <1>2, <1>3

\* The padding in front of a value does not leave the window.
LEMMA PaddingInWindow ==
  ASSUME Good, BlocksFit, NEW p \in Ops, ~L!Aligned(SP!Offset, p.align),
         L!Target(SP!Offset, p.align) <= SP!Size
  PROVE  L!Target(SP!Offset, p.align) - SP!Offset <= SP!Avail
<1>1. /\ bloff \in Nat /\ blsize \in Nat /\ cur \in Nat /\ cur <= blsize
      /\ SP!Avail = blsize - cur /\ SP!Offset = bloff + cur /\ SP!Offset \in 0 .. Width - 1
      /\ SP!Size \in Nat
  BY GoodNumbers
<1>2. /\ p.align \in Nat \ {0} /\ MaxPrimitive % p.align = 0
      /\ L!Target(SP!Offset, p.align) \in Nat /\ L!Target(SP!Offset, p.align) > SP!Offset
      /\ \A m \in Nat : m % p.align = 0 /\ SP!Offset <= m => L!Target(SP!Offset, p.align) <= m
  BY <1>1, TargetFacts
<1>3. SP!Offset < SP!Size
  BY <1>1, <1>2
<1>4. (bloff + blsize) % p.align = 0 \/ bloff + blsize = SP!Size
  BY <1>2, <1>3, WindowEnds
<1>5. SP!Offset <= bloff + blsize /\ bloff + blsize \in Nat
  BY <1>1
<1>6. L!Target(SP!Offset, p.align) <= bloff + blsize
  BY <1>2, <1>4, <1>5
<1>. QED  BY <1>1, <1>2, <1>6

\* Memory is aligned the way the stream is.
LEMMA CursorAligned ==
  ASSUME Good, BlocksFit, SP!Offset < SP!Size, NEW al \in Nat \ {0}, MaxPrimitive % al = 0
  PROVE  cur % al = SP!Offset % al
<1>1. bloff \in Nat /\ cur \in Nat /\ SP!Offset = bloff + cur
  BY GoodNumbers
<1>2. bloff % al = 0
  BY WindowEnds
<1>. QED  BY <1>1, <1>2, MultipleShift

\* A fetch of a primitive needs no second window.
LEMMA PrimitiveInBlock ==
  ASSUME NEW o \in Nat, NEW n \in Nat \ {0}, NEW b \in Nat \ {0},
         MaxPrimitive % n = 0, b % MaxPrimitive = 0, o % n = 0
  PROVE  (o % b) + n <= b
<1>1. b % n = 0
  BY PrimitiveSizes
<1>2. o % b \in Nat /\ o % b < b /\ o - (o % b) \in Nat /\ (o - (o % b)) % b = 0
  <2>1. o % b \in 0 .. o /\ o % b < b /\ (o - (o % b)) % b = 0
    BY SP!PageSplit, SameSourceAssumption
  <2>. QED  BY <2>1
<1>3. (o - (o % b)) % n = 0
  BY <1>1, <1>2, MultipleOfMultiple
<1>4. ((o - (o % b)) + (o % b)) % n = (o % b) % n
  BY <1>2, <1>3, MultipleShift
<1>5. (o % b) % n = 0
  BY <1>2, <1>4
<1>. QED  BY <1>1, <1>2, <1>5, SP!PageBelow, SameSourceAssumption

-----------------------------------------------------------------------------
(* The inductive invariant.                                                *)

\* Where the cursor is, or will be when the call going on returns.
Place == IF call.op = "none" THEN SP!Offset ELSE call.start + call.n

\* A source whose constructor has not run, or nothing else.
Fresh ==
  /\ bloff = 0 /\ cur = 0 /\ stream = [good |-> TRUE, pos |-> 0]
  /\ fd = FALSE /\ fds = 0 /\ maps = 0 /\ ec = FALSE
  /\ call = S!NoCall /\ dest = <<>> /\ source_pc = "idle"

Opening == {"none", "mmap", "istream"}

\* The source is one of a file that holds what the sink has kept.
OfFile == file <= off /\ file \in 0 .. Width - 1

\* An archive_whole has the stream in its window, and only skips.
WholeInWindow ==
  setup.reader = "whole" =>
    bloff = 0 /\ blsize = file /\ data = 0 /\ call.op # "fetch"

Opened ==
  /\ archive \in Opening => Fresh /\ reads = 0
  /\ archive # "none" => OfFile
  /\ archive = "mmap" =>
       kind = "mmap" /\ blsize = 0 /\ data = SP!Null /\ size = 0 /\ block = 0
  /\ archive = "istream" =>
       /\ kind = "istream" /\ data = 0 /\ blsize = 0 /\ size = file
       /\ block \in 0 .. Width - 1 /\ (file # 0 => block # 0)
       /\ setup.reader = "whole" => block = file
  /\ archive \notin {"none", "mmap"} => SP!Size = file /\ BlocksFit
  /\ archive \notin Opening => WholeInWindow

Control ==
  /\ archive \in Opening \cup {"open", "reading", "aborted", "astray"}
  /\ archive # "none" => pc \in {"read", "done"}
  /\ archive \in {"reading", "aborted", "astray"} => pc = "read" /\ reads < Len(items)

\* Nothing ends behind the stream.
ItemsInStream == \A i \in DOMAIN items : items[i].end <= off

AlignCall(it) == [c |-> "align", n |-> it.op.align]
ReadCall(it) == IF Primitive(it.op) THEN Basic(it.op.len) ELSE Data(it.op.len)

\* The way to the value, if there is one, is in the file.
Aligning == Item.head # pos => L!AdvanceAsserts(pos, Item.head - pos)

\* A value is aligned for, skipped to, read, or has been read.
AtAlign == todo = <<AlignCall(Item), ReadCall(Item)>> /\ Place = pos
AtPad   == todo = <<Skip(Item.head - pos), ReadCall(Item)>> /\ Place = pos /\ Item.head > pos
AtRead  == todo = <<ReadCall(Item)>> /\ Place = Item.head /\ Aligning
HasRead ==
  /\ todo = <<>> /\ Place = Item.end /\ Aligning /\ Item.end <= off
  /\ IF setup.reader = "whole" THEN out = [i \in 0 .. Item.op.len - 1 |-> Item.head + i]
     ELSE call.op = "fetch" /\ call.n = Item.op.len

\* An object's flags are read, its length, the rest of its prefix skipped.
FlagsRead == pos = Item.head /\ L!Aligned(pos, Word) /\ pos + Word <= off
AtFlags  == todo = Calls(Item) /\ Place = pos
AtLength ==
  BehindFlags(Item) # <<>> /\ todo = BehindFlags(Item) /\ Place = pos + Word /\ FlagsRead
AtSkip   ==
  BehindFlags(Item) # <<>> /\ todo = Tail(BehindFlags(Item)) /\ Place = pos + 2 * Word /\ FlagsRead
HasSkipped ==
  /\ todo = <<>> /\ Place = Item.end /\ FlagsRead
  /\ L!Skip(Item) > 0 => L!AdvanceAsserts(pos + 2 * Word, L!Skip(Item) - Word)

\* The words of a vu are read one by one, each at a multiple of its size.
Words(al, n) == [i \in 1 .. n \div al |-> Basic(al)]
WordRead ==
  /\ L!Aligned(pos, Item.op.align)
  /\ IF setup.reader = "whole"
     THEN out = [i \in 0 .. Item.op.align - 1 |-> Place - Item.op.align + i]
     ELSE call.op = "fetch" /\ call.n = Item.op.align
AtWord ==
  /\ todo = Words(Item.op.align, Item.end - Place)
  /\ Place \in pos .. Item.end /\ (Item.end - Place) % Item.op.align = 0
  /\ Place # pos => WordRead

ValueTodo  == AtAlign \/ AtPad \/ AtRead \/ HasRead
ObjectTodo == AtFlags \/ AtLength \/ AtSkip \/ HasSkipped
Todo == CASE Item.op.kind = "value"  -> ValueTodo
          [] Item.op.kind = "object" -> ObjectTodo
          [] Item.op.kind = "vu"     -> AtWord

\* A skip over an object's name or garbage is the last thing read of it.
SkipsPrefix ==
  /\ todo = <<>> /\ setup.reader = "chunked"
  /\ Item.op.kind = "object" /\ Item.end - Item.head > Word

DestInv == call.op = "fetch" => dest = [i \in 0 .. call.n - 1 |-> dest[i]]

OpenInv == archive = "open" =>
  Good /\ source_pc = "idle" /\ SP!Offset = pos /\ ValuesDelivered /\ DestInv
ReadingInv == archive = "reading" =>
  /\ Good \/ ((Left \/ Gone) /\ SkipsPrefix)
  /\ Todo /\ DestInv
AstrayInv == archive = "astray" =>
  Gone /\ SkipsPrefix /\ Place = Item.end

ReaderInv ==
  /\ LP!LayoutInv /\ ItemsInStream
  /\ Control /\ Opened /\ OpenInv /\ ReadingInv /\ AstrayInv
  /\ LossNoticed /\ RefusedForACause

-----------------------------------------------------------------------------
(* The items, and what is done for them.                                   *)

\* Lists of one, two and three calls.
LEMMA OneCall ==
  ASSUME NEW a  PROVE <<a>> \o <<>> = <<a>> /\ Head(<<a>>) = a /\ Tail(<<a>>) = <<>> /\ <<a>> # <<>>
<1>1. <<a>> \in Seq({a})
  OBVIOUS
<1>2. <<a>> \o <<>> = <<a>>
  BY <1>1, ConcatEmptySeq
<1>. QED  BY <1>2

LEMMA TwoCalls ==
  ASSUME NEW a, NEW b
  PROVE  /\ <<a>> \o <<b>> = <<a, b>> /\ Head(<<a, b>>) = a /\ Tail(<<a, b>>) = <<b>>
         /\ <<a, b>> # <<>>
<1>. DEFINE T == {a, b}
<1>1. <<a>> \in Seq(T) /\ <<b>> \in Seq(T) /\ <<a, b>> \in Seq(T)
  OBVIOUS
<1>2. <<a>> \o <<b>> \in Seq(T) /\ Len(<<a>> \o <<b>>) = 2 /\ Len(<<a, b>>) = 2
  BY <1>1
<1>3. \A i \in 1 .. 2 : (<<a>> \o <<b>>)[i] = <<a, b>>[i]
  BY <1>1
<1>4. <<a>> \o <<b>> = <<a, b>>
  BY <1>1, <1>2, <1>3, SeqEqual
<1>5. Head(<<a, b>>) = a /\ Tail(<<a, b>>) = <<b>> /\ <<a, b>> # <<>>
  OBVIOUS
<1>. QED  BY <1>4, <1>5

LEMMA ThreeCalls ==
  ASSUME NEW a, NEW b, NEW c
  PROVE  /\ <<a>> \o <<b, c>> = <<a, b, c>> /\ Head(<<a, b, c>>) = a
         /\ Tail(<<a, b, c>>) = <<b, c>> /\ <<a, b, c>> # <<>>
<1>. DEFINE T == {a, b, c}
<1>1. <<a>> \in Seq(T) /\ <<b, c>> \in Seq(T) /\ <<a, b, c>> \in Seq(T)
  OBVIOUS
<1>2. <<a>> \o <<b, c>> \in Seq(T) /\ Len(<<a>> \o <<b, c>>) = 3 /\ Len(<<a, b, c>>) = 3
  BY <1>1
<1>3. \A i \in 1 .. 3 : (<<a>> \o <<b, c>>)[i] = <<a, b, c>>[i]
  BY <1>1
<1>4. <<a>> \o <<b, c>> = <<a, b, c>>
  BY <1>1, <1>2, <1>3, SeqEqual
<1>5. Head(<<a, b, c>>) = a /\ Tail(<<a, b, c>>) = <<b, c>> /\ <<a, b, c>> # <<>>
  OBVIOUS
<1>. QED  BY <1>4, <1>5

\* A list of words is empty, or has a first one.
LEMMA WordList ==
  ASSUME NEW al \in Nat \ {0}, NEW n \in Nat, n % al = 0
  PROVE  /\ n = 0 => Words(al, n) = <<>>
         /\ n # 0 => /\ n >= al /\ (n - al) % al = 0
                     /\ Words(al, n) # <<>> /\ Head(Words(al, n)) = Basic(al)
                     /\ Tail(Words(al, n)) = Words(al, n - al)
<1>. DEFINE m == n \div al
<1>1. m \in Nat /\ n = al * m
  BY SP!MultipleFactor, SameSourceAssumption
<1>. HIDE DEF m
<1>2. CASE n = 0
  <2>1. n \div al = 0
    BY <1>2
  <2>. QED  BY <1>2, <2>1, EmptySeq DEF Words
<1>3. CASE n # 0
  <2>1. PICK k \in Nat : m = k + 1
    <3>1. m # 0
      BY <1>1, <1>3
    <3>. QED  BY <1>1, <3>1
  <2>2. al * m = al * k + al /\ al * k \in Nat
    BY <1>1, <2>1
  <2>3. n - al = al * k /\ n >= al
    BY <1>1, <2>2
  <2>4. (al * k) % al = 0 /\ (al * k) \div al = k
    OBVIOUS
  <2>5. n \div al = k + 1
    BY <2>1 DEF m
  <2>. DEFINE c == Basic(al)
  <2>6. Words(al, n) = [i \in 1 .. k + 1 |-> c] /\ Words(al, n - al) = [i \in 1 .. k |-> c]
    BY <2>3, <2>4, <2>5 DEF Words
  <2>. HIDE DEF c
  <2>7. /\ [i \in 1 .. k + 1 |-> c] # <<>> /\ Head([i \in 1 .. k + 1 |-> c]) = c
        /\ Tail([i \in 1 .. k + 1 |-> c]) = [i \in 1 .. k |-> c]
    OBVIOUS
  <2>. QED  BY <1>3, <2>3, <2>4, <2>6, <2>7 DEF c
<1>. QED  BY <1>2, <1>3

\* The item of the reader is the item of the layout.
LEMMA SameItem ==
  /\ L!Item = Item /\ LP!Item = Item
  /\ \A it : LP!Skip(it) = L!Skip(it)
BY DEF L!Item, LP!Item, Item, L!Skip, LP!Skip, L!Padded, LP!Padded, L!Named, LP!Named, L!Word, LP!Word

\* The archives the reader stands for.
LEMMA SetupFacts ==
  ASSUME LP!LayoutInv  PROVE setup.reader \in {"chunked", "whole"} /\ setup.asserts = TRUE
BY ReaderAssumption DEF ReaderAssumption, LP!LayoutInv, LP!TypeOK

\* The item being read.
LEMMA ItemFacts ==
  ASSUME LP!LayoutInv, pc = "read", reads < Len(items)
  PROVE  /\ reads \in Nat /\ reads + 1 \in 1 .. Len(items) /\ Item.op \in Ops
         /\ pos \in Nat /\ off \in Nat /\ Item.start = pos
         /\ Item.head \in Nat /\ Item.end \in Nat /\ Item.garbage \in Nat /\ Item.name \in Nat
         /\ Item.op.kind \in {"value", "vu", "object"}
         /\ Item.op.kind # "vu" => Item.head = L!Target(pos, Item.op.align)
         /\ Item.op.kind # "object" => Item.end = Item.head + Item.op.len
         /\ Item.op.kind = "vu" => /\ Item.head = pos /\ Item.op.len # 0
                                   /\ Item.op.len % Item.op.align = 0
         /\ Item.op.kind = "object" => /\ Item.op.align = Word
                                       /\ Item.end = Item.head + (Word + L!Skip(Item))
         /\ Item.op.align \in Nat \ {0} /\ Item.op.len \in Nat
<1>1. /\ LP!ItemInStep(reads + 1) /\ pos = LP!Boundary(reads) /\ reads \in Nat
      /\ items \in Seq(LP!ItemType) /\ Len(items) \in Nat /\ pos \in Nat /\ off \in Nat
      /\ reads + 1 \in 1 .. Len(items)
  <2>1. LP!TypeOK /\ LP!ItemsInv /\ pos = LP!Boundary(reads)
    BY DEF LP!LayoutInv, LP!ReadInv
  <2>2. reads \in Nat /\ items \in Seq(LP!ItemType) /\ pos \in Nat /\ off \in Nat
    BY <2>1 DEF LP!TypeOK, LP!ItemType
  <2>3. Len(items) \in Nat /\ reads + 1 \in 1 .. Len(items)
    BY <2>2
  <2>4. LP!ItemInStep(reads + 1)
    BY <2>1, <2>3 DEF LP!ItemsInv
  <2>. QED  BY <2>1, <2>2, <2>3, <2>4
<1>2. Item \in LP!ItemType
  BY <1>1 DEF Item
<1>3. /\ Item.op \in Ops /\ Item.head \in Nat /\ Item.end \in Nat
      /\ Item.garbage \in Nat /\ Item.name \in Nat
  BY <1>2 DEF LP!ItemType
<1>4. /\ Item.op.kind \in {"value", "vu", "object"}
      /\ Item.op.align \in Nat \ {0} /\ Item.op.len \in Nat
      /\ Item.op.kind = "object" => Item.op.align = Word
      /\ Item.op.kind = "vu" => Item.op.len # 0 /\ Item.op.len % Item.op.align = 0
  BY <1>3, SameLayoutAssumption DEF LP!LayoutAssumption, LP!Word, Word
<1>5. /\ Item.start = LP!Boundary((reads + 1) - 1)
      /\ Item.head = IF Item.op.kind = "vu" THEN Item.start
                                            ELSE LP!Target(Item.start, Item.op.align)
      /\ Item.end = Item.head + IF Item.op.kind # "object" THEN Item.op.len
                                ELSE LP!Word + LP!Skip(Item)
  BY <1>1 DEF LP!ItemInStep, LP!Begins, LP!Extent, Item
<1>6. (reads + 1) - 1 = reads
  BY <1>1
<1>7. Item.start = pos
  BY <1>1, <1>5, <1>6
<1>8. Item.head = IF Item.op.kind = "vu" THEN pos ELSE L!Target(pos, Item.op.align)
  BY <1>5, <1>7, SameTarget
<1>. QED  BY <1>1, <1>3, <1>4, <1>5, <1>7, <1>8, SameItem DEF LP!Word, Word

\* What is skipped behind the flags.
LEMMA SkipFacts ==
  ASSUME NEW it, it.garbage \in Nat, it.name \in Nat
  PROVE  \/ /\ BehindFlags(it) = <<>> /\ L!Skip(it) = 0
         \/ \E n \in Nat : /\ BehindFlags(it) = <<Basic(Word), Skip(n)>>
                           /\ L!Skip(it) = Word + n
<1>1. CASE L!Padded
  <2>1. BehindFlags(it) = <<Basic(Word), Skip(it.garbage)>> /\ L!Skip(it) = Word + it.garbage
    BY <1>1 DEF BehindFlags, L!Skip, L!Word, Word
  <2>. QED  BY <2>1
<1>2. CASE ~L!Padded /\ L!Named
  <2>1. BehindFlags(it) = <<Basic(Word), Skip(it.name)>> /\ L!Skip(it) = Word + it.name
    BY <1>2 DEF BehindFlags, L!Skip, L!Word, Word
  <2>. QED  BY <2>1
<1>3. CASE ~L!Padded /\ ~L!Named
  BY <1>3 DEF BehindFlags, L!Skip
<1>. QED  BY <1>1, <1>2, <1>3

-----------------------------------------------------------------------------
(* Writing and opening.                                                    *)

\* The invariant holds before anything is written.
LEMMA ReaderStarts == Init => ReaderInv
<1>. SUFFICES ASSUME Init PROVE ReaderInv
  OBVIOUS
<1>1. LP!LayoutInv
  <2>1. LP!Init
    BY DEF Init, L!Init, LP!Init, L!NoOp, LP!NoOp
  <2>. QED  BY <2>1, LP!InitInv, SameLayoutAssumption
<1>2. /\ archive = "none" /\ items = <<>> /\ reads = 0 /\ Fresh
  BY DEF Init, L!Init, Fresh
<1>. QED  BY <1>1, <1>2 DEF ReaderInv, ItemsInStream, Control, Opened, Opening, OpenInv, ReadingInv,
  AstrayInv, LossNoticed, RefusedForACause

\* Nothing is opened while the stream is written.
LEMMA NotOpenInv ==
  ASSUME LP!LayoutInv', ItemsInStream', archive' \in Opening, archive' # "none" => pc' \in {"read", "done"},
         Opened', reads' = 0
  PROVE  ReaderInv'
BY DEF ReaderInv, Control, OpenInv, ReadingInv, AstrayInv, LossNoticed, RefusedForACause, Opening

\* The writer moves on, and adds items in front of it.
LEMMA WriterMoves ==
  ASSUME LP!LayoutInv, ItemsInStream, Writing
  PROVE  ItemsInStream' /\ reads' = reads
<1>1. /\ items \in Seq(LP!ItemType) /\ off \in Nat /\ DOMAIN items = 1 .. Len(items)
      /\ Len(items) \in Nat /\ \A i \in 1 .. Len(items) : items[i].end \in Nat
  <2>1. items \in Seq(LP!ItemType) /\ off \in Nat
    BY DEF LP!LayoutInv, LP!TypeOK, LP!ItemType
  <2>2. \A i \in 1 .. Len(items) : items[i].end \in Nat
    <3>1. \A i \in 1 .. Len(items) : items[i] \in LP!ItemType
      BY <2>1
    <3>. QED  BY <3>1 DEF LP!ItemType
  <2>3. DOMAIN items = 1 .. Len(items) /\ Len(items) \in Nat
    BY <2>1
  <2>. QED  BY <2>1, <2>2, <2>3
<1>2. CASE UNCHANGED <<items, reads>> /\ off' \in Nat /\ off <= off'
  BY <1>1, <1>2 DEF ItemsInStream
<1>3. ASSUME NEW it, items' = Append(items, it), it.end = off', off' \in Nat, off <= off'
      PROVE  ItemsInStream'
  <2>1. DOMAIN items' = 1 .. Len(items) + 1
    BY <1>1, <1>3
  <2>2. ASSUME NEW i \in 1 .. Len(items) + 1 PROVE items'[i].end <= off'
    <3>1. CASE i = Len(items) + 1
      BY <1>1, <1>3, <3>1
    <3>2. CASE i \in 1 .. Len(items)
      <4>1. items'[i] = items[i]
        BY <1>1, <1>3, <3>2
      <4>2. items[i].end <= off /\ items[i].end \in Nat
        BY <1>1, <3>2 DEF ItemsInStream
      <4>. QED  BY <1>1, <1>3, <4>1, <4>2
    <3>. QED  BY <1>1, <3>1, <3>2
  <2>. QED  BY <2>1, <2>2 DEF ItemsInStream
<1>4. ASSUME NEW o \in Ops, L!Write(o) PROVE ItemsInStream' /\ reads' = reads
  BY <1>1, <1>2, <1>4 DEF L!Write
<1>5. CASE L!Pad
  <2>1. pc = "align" /\ ~LP!Aligned(off, op.align) /\ off <= MaxOffset
        /\ (off' = off \/ off' = off + LP!Padding(off, op.align)) /\ UNCHANGED <<items, reads>>
    BY <1>5, SameAligned, SameTarget DEF L!Pad, L!Aligning
  <2>2. op \in Ops
    BY <2>1 DEF LP!LayoutInv, LP!WriteInv
  <2>3. off \in 0 .. MaxOffset
    BY <1>1, <2>1, SameLayoutAssumption DEF LP!LayoutAssumption
  <2>4. LP!Align(off, op.align) \in Nat /\ off <= LP!Align(off, op.align)
    BY <2>1, <2>2, <2>3, LP!Alignment, SameLayoutAssumption
  <2>5. LP!Padding(off, op.align) \in Nat
    BY <1>1, <2>4 DEF LP!Padding, LP!Smaller, LP!PadMax
  <2>. QED  BY <1>1, <1>2, <2>1, <2>5
<1>6. CASE L!WriteValue
  <2>1. pc = "align" /\ off' = off + op.len /\ reads' = reads
        /\ \E it : items' = Append(items, it) /\ it.end = off'
    BY <1>6 DEF L!WriteValue
  <2>2. op.len \in Nat
    BY <2>1, SameLayoutAssumption DEF LP!LayoutInv, LP!WriteInv, LP!LayoutAssumption
  <2>. QED  BY <1>1, <1>3, <2>1, <2>2
<1>7. CASE L!WriteObject
  <2>. DEFINE name   == IF LP!Named THEN LP!Smaller(op.len, MaxName) ELSE 0
              base   == off + LP!Word
              prefix == (IF LP!Named THEN LP!Word + name ELSE 0) + (IF LP!Padded THEN LP!Word ELSE 0)
              objs   == LP!ObjectStart(base, prefix)
  <2>1. /\ pc = "align" /\ off' = objs /\ reads' = reads /\ base + prefix <= MaxOffset
        /\ \E it : items' = Append(items, it) /\ it.end = objs
    BY <1>7, SameWriter DEF LP!WriteObject
  <2>2. op.len \in Nat /\ MaxName \in Nat /\ MaxOffset \in Nat
    BY <2>1, SameLayoutAssumption DEF LP!LayoutInv, LP!WriteInv, LP!LayoutAssumption
  <2>3. name \in Nat
    BY <2>2 DEF LP!Smaller
  <2>4. base + prefix \in 1 .. MaxOffset /\ off <= base + prefix
    <3>. DEFINE extra == (IF LP!Named THEN 4 + name ELSE 0) + (IF LP!Padded THEN 4 ELSE 0)
    <3>1. off \in Nat /\ extra \in Nat
      BY <1>1, <2>3
    <3>2. off + 4 + extra <= MaxOffset
      BY <2>1 DEF LP!Word
    <3>. HIDE DEF extra
    <3>3. off + 4 + extra \in 1 .. MaxOffset /\ off <= off + 4 + extra
      BY <2>2, <3>1, <3>2
    <3>. QED  BY <3>3 DEF extra, LP!Word
  <2>5. /\ LP!Align(base + prefix, ForcedAlign) \in Nat
        /\ base + prefix <= LP!Align(base + prefix, ForcedAlign)
    <3>1. PICK b \in 1 .. 2^OffsetBits : b = base + prefix
      BY <2>4, LP!ForcedRoom, SameLayoutAssumption
    <3>2. ForcedAlign \in LP!PowersOfTwo
      BY LP!ForcedRoom, SameLayoutAssumption
    <3>3. LP!Align(b, ForcedAlign) \in Nat /\ b <= LP!Align(b, ForcedAlign)
      BY <3>2, LP!FirstBehind, SameLayoutAssumption
    <3>. QED  BY <3>1, <3>3
  <2>6. objs \in Nat /\ off <= objs
    BY <1>1, <2>4, <2>5 DEF LP!ObjectStart
  <2>. QED  BY <1>1, <1>3, <2>1, <2>6
<1>8. CASE L!Finish
  BY <1>1, <1>2, <1>8 DEF L!Finish
<1>. QED  BY <1>4, <1>5, <1>6, <1>7, <1>8 DEF Writing, L!Step

\* The writer, its sink and its padding keep the invariant.
LEMMA WritingStep ==
  ASSUME ReaderInv, Writing  PROVE ReaderInv'
<1>1. LP!LayoutInv /\ ItemsInStream /\ Control /\ Opened
  BY DEF ReaderInv
<1>2. pc \in {"choose", "align"}
  BY DEF Writing, L!Write, L!Step, L!Pad, L!WriteValue, L!WriteObject, L!Finish
<1>3. archive = "none" /\ UNCHANGED <<source, reader>>
  BY <1>1, <1>2 DEF Control, Writing
<1>4. ItemsInStream' /\ reads' = reads
  BY <1>1, WriterMoves
<1>5. LP!LayoutInv'
  BY <1>1, SameWriter, SameLayoutAssumption, LP!WriteStep, LP!PadStep, LP!WriteValueStep,
     LP!WriteObjectStep, LP!FinishStep
  DEF Writing, L!Step
<1>6. archive' = "none" /\ Opened' /\ reads' = 0
  BY <1>1, <1>3, <1>4 DEF Opened, Opening, Fresh, source, reader
<1>. QED  BY <1>4, <1>5, <1>6, NotOpenInv DEF Opening

\* What a step that leaves the layout alone leaves of it.
LEMMA LayoutStays ==
  ASSUME ReaderInv, UNCHANGED layout
  PROVE  LP!LayoutInv' /\ ItemsInStream' /\ UNCHANGED <<setup, items, op, start, off, pc, reads, pos>>
<1>1. UNCHANGED <<setup, items, op, start, off, pc, reads, pos>>
  BY DEF layout
<1>2. LP!LayoutInv'
  BY <1>1, SameLayoutAssumption, LP!StutterStep DEF ReaderInv, LP!vars
<1>. QED  BY <1>1, <1>2 DEF ReaderInv, ItemsInStream

\* Sources that have just been built, or mapped.
NoCallYet == call = S!NoCall /\ dest = <<>> /\ source_pc = "idle" /\ ec = FALSE
AtStart == bloff = 0 /\ cur = 0 /\ stream = [good |-> TRUE, pos |-> 0] /\ file \in 0 .. Width - 1

Built ==
  /\ NoCallYet /\ AtStart /\ fd = FALSE /\ fds = 0 /\ maps = 0 /\ size = file /\ data = 0
  /\ \/ kind = "buffer" /\ blsize = file /\ block = 0
     \/ kind = "istream" /\ blsize = 0 /\ block \in 0 .. Width - 1 /\ (file # 0 => block # 0)

Mapped ==
  /\ NoCallYet /\ AtStart /\ fd = TRUE /\ fds = 1 /\ maps = 1 /\ size = file /\ data = 0
  /\ kind = "mmap" /\ block \in 0 .. file /\ block % PageSize = 0
  /\ blsize = IF block = 0 THEN file ELSE block
  /\ blsize # 0
  /\ block = 0 => file <= PageSize \/ file % PageSize = 0

\* A source that has been constructed is in order, at the stream's beginning.
LEMMA BuiltGood == Built => Good /\ SP!Offset = 0 /\ SP!Size = file
<1>. SUFFICES ASSUME Built PROVE Good /\ SP!Offset = 0 /\ SP!Size = file
  OBVIOUS
<1>1. /\ Width \in Nat \ {0} /\ file \in 0 .. Width - 1 /\ block \in 0 .. Width - 1
      /\ kind \in {"buffer", "istream"}
  BY SameSourceAssumption DEF SP!SourceAssumption, Built, AtStart
<1>2. SP!Init
  <2>. DEFINE o == [kind |-> kind, file |-> file, block |-> block]
  <2>1. o \in [kind : {"buffer", "istream", "mmap"}, file : 0 .. Width - 1, block : 0 .. Width - 1]
    BY <1>1
  <2>2. CASE kind = "buffer"
    BY <1>1, <2>1, <2>2 DEF Built, NoCallYet, AtStart, SP!Init, S!NoCall, SP!NoCall
  <2>3. CASE kind = "istream"
    BY <1>1, <2>1, <2>3 DEF Built, NoCallYet, AtStart, SP!Init, S!NoCall, SP!NoCall
  <2>. QED  BY <1>1, <2>2, <2>3
<1>3. SP!ContentInv
  BY <1>2, SP!InitContent, SameSourceAssumption
<1>4. SP!Offset = 0 /\ SP!Size = file
  BY <1>1 DEF Built, AtStart, SP!Offset, SP!WAdd, SP!Size
<1>5. Fits /\ ~SP!Broken /\ ~SP!Overlong /\ call.op = "none" /\ source_pc = "idle" /\ ec = FALSE
  BY <1>1 DEF Built, NoCallYet, Fits, SP!Broken, SP!MapFailed, SP!Overlong, S!NoCall
<1>. QED  BY <1>3, <1>4, <1>5 DEF Good

\* So is one that has mapped its file.
LEMMA MappedGood == Mapped => Good /\ SP!Offset = 0 /\ SP!Size = file
<1>. SUFFICES ASSUME Mapped PROVE Good /\ SP!Offset = 0 /\ SP!Size = file
  OBVIOUS
<1>1. /\ Width \in Nat \ {0} /\ PageSize \in Nat \ {0}
      /\ file \in 0 .. Width - 1 /\ file \in Nat /\ block \in 0 .. Width - 1 /\ block <= file
      /\ blsize \in 1 .. Width - 1 /\ blsize <= file
      /\ bloff = 0 /\ cur = 0 /\ kind = "mmap" /\ size = file /\ data = 0
      /\ call = S!NoCall /\ dest = <<>> /\ source_pc = "idle" /\ ec = FALSE
      /\ fd = TRUE /\ fds = 1 /\ maps = 1 /\ stream = [good |-> TRUE, pos |-> 0]
  BY SameSourceAssumption DEF SP!SourceAssumption, Mapped, NoCallYet, AtStart
<1>2. SP!Offset = 0 /\ SP!Size = file
  BY <1>1 DEF SP!Offset, SP!WAdd, SP!Size
<1>3. 0 % PageSize = 0 /\ (block # 0 => 0 % block = 0)
  BY <1>1
<1>4. SP!SourceInv
  <2>1. SP!TypeOK
    <3>1. call \in [op : {"none", "fetch", "advance"}, n : 0 .. Width - 1,
                    start : 0 .. Width - 1, copied : 0 .. Width - 1]
          /\ call.op = "none"
      BY <1>1 DEF S!NoCall
    <3>2. stream \in [good : BOOLEAN, pos : 0 .. Width - 1]
      BY <1>1
    <3>3. /\ blsize \in 0 .. Width - 1 /\ bloff \in 0 .. Width - 1 /\ cur \in 0 .. Width - 1
          /\ data \in 0 .. Width - 1 /\ size \in 0 .. Width - 1
      BY <1>1
    <3>4. /\ kind \in {"buffer", "istream", "mmap"} /\ file \in 0 .. Width - 1
          /\ fds \in 0 .. 1 /\ maps \in 0 .. 1
          /\ source_pc \in {"idle", "top", "copy", "refill", "advance", "fault", "abort"}
      BY <1>1
    <3>5. fd \in BOOLEAN /\ ec \in BOOLEAN
      BY <1>1
    <3>. QED  BY <1>1, <3>1, <3>2, <3>3, <3>4, <3>5 DEF SP!TypeOK
  <2>2. SP!WindowMapped /\ SP!WindowAligned /\ SP!NothingLeaked
    BY <1>1, <1>3 DEF SP!WindowMapped, SP!WindowAligned, SP!NothingLeaked
  <2>3. SP!CallBounded /\ SP!FetchAccounting
    BY <1>1 DEF SP!CallBounded, SP!FetchAccounting, S!NoCall
  <2>. QED  BY <2>1, <2>2, <2>3 DEF SP!SourceInv
<1>5. Fits /\ ~SP!Adrift /\ ~SP!Broken /\ ~SP!Overlong
  <2>1. ~SP!Broken /\ ~SP!Overlong
    BY <1>1 DEF SP!Broken, SP!MapFailed, SP!Overlong
  <2>2. Fits
    BY <1>1 DEF Mapped, Fits
  <2>. QED  BY <2>1, <2>2, NotAdrift
<1>6. SP!StreamInv
  <2>1. SP!FromObjects
    <3>1. [kind |-> kind, file |-> file, block |-> block] \in
            [kind : {"buffer", "istream", "mmap"}, file : 0 .. Width - 1, block : 0 .. Width - 1]
      BY <1>1
    <3>. QED  BY <3>1 DEF SP!FromObjects
  <2>2. block # 0 => SP!BlockWindow
    <3>. SUFFICES ASSUME block # 0 PROVE SP!BlockWindow
      OBVIOUS
    <3>1. blsize = block /\ block % PageSize = 0
      BY DEF Mapped
    <3>2. SP!WindowEnd = block
      BY <1>1, <3>1 DEF SP!WindowEnd
    <3>. QED  BY <1>1, <1>3, <3>1, <3>2 DEF SP!BlockWindow
  <2>3. SP!MmapWindow
    BY <1>1, <1>3, <1>5, <2>2 DEF SP!MmapWindow, Mapped
  <2>. QED  BY <1>1, <2>1, <2>3 DEF SP!StreamInv, SP!BufferWindow, SP!IstreamWindow
<1>7. SP!ContentInv
  BY <1>1, <1>4, <1>6
  DEF SP!ContentInv, SP!CursorInv, SP!DeliveryInv, SP!NoFault, SP!ShortOnlyAtEnd, SP!SkipsExactly, S!NoCall
<1>. QED  BY <1>1, <1>2, <1>5, <1>7 DEF Good, S!NoCall

GoodAtStart == Good /\ SP!Offset = 0 /\ SP!Size = file

LEMMA StartsGood == Built' \/ Mapped' => GoodAtStart'
<1>1. Built \/ Mapped => GoodAtStart
  BY BuiltGood, MappedGood DEF GoodAtStart
<1>. QED  BY <1>1, PTL

\* An archive that has been opened stands at the first item.
LEMMA OpensInv ==
  ASSUME ReaderInv, archive \in Opening, pc \in {"read", "done"}, UNCHANGED layout,
         archive' = "open", source_pc' = "idle", call'.op = "none",
         Good', SP!Offset' = 0, Opened'
  PROVE  ReaderInv'
<1>1. /\ LP!LayoutInv' /\ ItemsInStream' /\ UNCHANGED <<setup, items, op, start, off, pc, reads, pos>>
  BY LayoutStays
<1>2. reads = 0
  BY DEF ReaderInv, Opened
<1>3. pos = 0
  BY <1>2 DEF ReaderInv, LP!LayoutInv, LP!ReadInv, LP!Boundary
<1>4. ValuesDelivered' /\ LossNoticed'
  BY <1>1, <1>2 DEF ValuesDelivered, LossNoticed
<1>5. OpenInv'
  BY <1>1, <1>3, <1>4 DEF OpenInv, DestInv
<1>6. Control' /\ ReadingInv' /\ AstrayInv' /\ RefusedForACause'
  BY <1>1 DEF Control, ReadingInv, AstrayInv, RefusedForACause
<1>. QED  BY <1>1, <1>4, <1>5, <1>6 DEF ReaderInv

\* How a file may be opened.
LEMMA FileFacts ==
  ASSUME NEW f \in Files
  PROVE  /\ f.kind \in {"buffer", "istream", "mmap"} /\ f.block \in 0 .. Width - 1
         /\ f.block % MaxPrimitive = 0 /\ (f.kind = "mmap" => f.block % PageSize = 0)
         /\ Width \in Nat \ {0} /\ PageSize \in Nat \ {0}
BY ReaderAssumption, SameSourceAssumption DEF ReaderAssumption, SP!SourceAssumption

\* A constructor.
LEMMA OpenStep ==
  ASSUME ReaderInv, NEW f \in Files, NEW lost \in Losses, Open(f, lost)
  PROVE  ReaderInv'
<1>1. /\ pc = "read" /\ archive = "none" /\ UNCHANGED layout
      /\ archive' = IF f.kind = "buffer" THEN "open" ELSE f.kind
      /\ kind' = f.kind /\ file' = off - lost
      /\ blsize' = (IF f.kind = "buffer" THEN file' ELSE 0)
      /\ data' = (IF f.kind = "mmap" THEN SP!Null ELSE 0)
      /\ size' = (IF f.kind = "mmap" THEN 0 ELSE file')
      /\ UNCHANGED <<bloff, cur, stream, fd, fds, maps, ec, source_pc, call, dest>>
      /\ lost <= off /\ Suits(f, off - lost)
  BY DEF Open, S!Null, SP!Null
<1>2. LP!LayoutInv' /\ ItemsInStream' /\ UNCHANGED <<setup, items, op, start, off, pc, reads, pos>>
  BY <1>1, LayoutStays
<1>3. Fresh /\ Fresh' /\ reads = 0
  BY <1>1 DEF ReaderInv, Opened, Opening, Fresh
<1>4. lost \in Nat /\ off \in Nat
  BY ReaderAssumption DEF ReaderInv, LP!LayoutInv, LP!TypeOK, ReaderAssumption
<1>5. off - lost \in 0 .. Width - 1 /\ off - lost <= off
  BY <1>1, <1>4, FileFacts DEF Suits
<1>6. OfFile'
  BY <1>1, <1>2, <1>5 DEF OfFile
<1>7. setup.reader = "whole" => f.block = 0
  BY <1>1 DEF Suits
<1>8. CASE f.kind = "buffer"
  <2>1. block' = 0
    BY <1>8 DEF Open
  <2>2. Built'
    BY <1>1, <1>3, <1>6, <1>8, <2>1 DEF Built, NoCallYet, AtStart, Fresh, OfFile
  <2>3. Good' /\ SP!Offset' = 0 /\ SP!Size' = file'
    BY <2>2, StartsGood DEF GoodAtStart
  <2>4. archive' = "open" /\ source_pc' = "idle" /\ call'.op = "none"
    BY <1>1, <1>3, <1>8 DEF Fresh, S!NoCall
  <2>5. BlocksFit'
    BY <2>1 DEF BlocksFit, MaxPrimitive
  <2>6. WholeInWindow'
    BY <1>1, <1>3, <1>8, <2>4 DEF WholeInWindow, Fresh
  <2>7. Opened'
    BY <1>6, <2>3, <2>4, <2>5, <2>6 DEF Opened, Opening
  <2>. QED  BY <1>1, <2>3, <2>4, <2>7, OpensInv DEF Opening
<1>9. CASE f.kind = "istream"
  <2>1. block' = IF f.block = 0 THEN file' ELSE f.block
    BY <1>9 DEF Open
  <2>2. archive' = "istream" /\ kind' = "istream" /\ size' = file' /\ blsize' = 0 /\ data' = 0
    BY <1>1, <1>9
  <2>3. SP!Size' = file'
    BY <2>2 DEF SP!Size
  <2>4. BlocksFit'
    BY <2>1, <2>2, FileFacts DEF BlocksFit
  <2>5. Opened'
    <3>1. block' \in 0 .. Width - 1 /\ (file' # 0 => block' # 0)
      BY <1>6, <2>1, FileFacts DEF OfFile
    <3>2. setup'.reader = "whole" => block' = file'
      BY <1>2, <1>7, <2>1
    <3>. QED  BY <1>2, <1>3, <1>6, <2>2, <2>3, <2>4, <3>1, <3>2 DEF Opened, Opening
  <2>. QED  BY <1>1, <1>2, <1>3, <2>2, <2>5, NotOpenInv DEF Opening
<1>10. CASE f.kind = "mmap"
  <2>1. block' = 0
    BY <1>10 DEF Open
  <2>2. archive' = "mmap" /\ kind' = "mmap" /\ size' = 0 /\ blsize' = 0 /\ data' = SP!Null
    BY <1>1, <1>10
  <2>3. Opened'
    BY <1>2, <1>3, <1>6, <2>1, <2>2 DEF Opened, Opening
  <2>. QED  BY <1>1, <1>2, <1>3, <2>2, <2>3, NotOpenInv DEF Opening
<1>. QED  BY <1>8, <1>9, <1>10, FileFacts

\* A file is mapped.
LEMMA OpenMmapStep ==
  ASSUME ReaderInv, NEW f \in Files, OpenMmap(f)
  PROVE  ReaderInv'
<1>1. /\ archive = "mmap" /\ archive' = "open" /\ f.kind = "mmap" /\ Suits(f, file) /\ UNCHANGED layout
      /\ S!Map([off |-> 0, block |-> f.block])
  BY DEF OpenMmap
<1>2. /\ Fresh /\ OfFile /\ kind = "mmap" /\ pc \in {"read", "done"}
  BY <1>1 DEF ReaderInv, Opened, Opening, Control
<1>3. /\ f.block \in 0 .. Width - 1 /\ f.block % MaxPrimitive = 0 /\ f.block % PageSize = 0
      /\ Width \in Nat \ {0} /\ PageSize \in Nat \ {0} /\ 0 % PageSize = 0
  BY <1>1, FileFacts
<1>4. /\ IF f.block = 0 THEN file > 0 /\ (file <= PageSize \/ file % PageSize = 0)
                         ELSE file >= f.block
      /\ setup.reader = "whole" => f.block = 0
  BY <1>1 DEF Suits
<1>. DEFINE len == IF f.block = 0 THEN file ELSE f.block
<1>5. len # 0 /\ len \in 0 .. Width - 1
  BY <1>2, <1>3, <1>4 DEF OfFile
<1>6. /\ call' = S!NoCall /\ dest' = <<>> /\ UNCHANGED <<kind, file, stream, source_pc, cur, ec>>
      /\ fd' = TRUE /\ fds' = fds + 1 /\ maps' = maps + 1
      /\ size' = file /\ block' = f.block /\ bloff' = 0 /\ blsize' = len /\ data' = 0
  BY <1>1, <1>3, <1>5 DEF S!Map
<1>7. Mapped'
  <2>1. NoCallYet' /\ AtStart'
    BY <1>2, <1>6 DEF Fresh, NoCallYet, AtStart, OfFile
  <2>2. f.block \in 0 .. file
    BY <1>2, <1>3, <1>4 DEF OfFile
  <2>3. fds' = 1 /\ maps' = 1
    BY <1>2, <1>6 DEF Fresh
  <2>. QED  BY <1>2, <1>3, <1>4, <1>5, <1>6, <2>1, <2>2, <2>3 DEF Mapped
<1>8. Good' /\ SP!Offset' = 0 /\ SP!Size' = file'
  BY <1>7, StartsGood DEF GoodAtStart
<1>9. source_pc' = "idle" /\ call'.op = "none"
  BY <1>2, <1>6 DEF Fresh, S!NoCall
<1>10. BlocksFit'
  BY <1>3, <1>6 DEF BlocksFit
<1>11. LP!LayoutInv' /\ UNCHANGED <<setup, off>>
  BY <1>1, LayoutStays
<1>12. WholeInWindow'
  BY <1>4, <1>6, <1>9, <1>11 DEF WholeInWindow
<1>13. Opened'
  BY <1>1, <1>2, <1>6, <1>8, <1>10, <1>11, <1>12 DEF Opened, Opening, OfFile
<1>. QED  BY <1>1, <1>2, <1>8, <1>9, <1>13, OpensInv DEF Opening

\* A stream is read ahead, or not.
LEMMA OpenIstreamStep ==
  ASSUME ReaderInv, OpenIstream
  PROVE  ReaderInv'
<1>1. /\ archive = "istream" /\ archive' = "open" /\ UNCHANGED layout
      /\ SP!Prefetch \/ (setup.reader = "chunked" /\ UNCHANGED source)
  BY SameUse DEF OpenIstream
<1>2. /\ Fresh /\ OfFile /\ pc \in {"read", "done"} /\ BlocksFit
      /\ kind = "istream" /\ data = 0 /\ blsize = 0 /\ size = file /\ (file # 0 => block # 0)
      /\ block \in 0 .. Width - 1
      /\ setup.reader = "whole" => block = file
  BY <1>1 DEF ReaderInv, Opened, Opening, Control
<1>3. LP!LayoutInv' /\ UNCHANGED <<setup, off>>
  BY <1>1, LayoutStays
<1>4. Built
  BY <1>2 DEF Built, NoCallYet, AtStart, Fresh, OfFile
<1>5. Good /\ SP!Offset = 0 /\ SP!Size = file
  BY <1>4, BuiltGood
<1>6. setup.reader \in {"chunked", "whole"} /\ Width \in Nat \ {0}
  BY SetupFacts, SameSourceAssumption DEF ReaderInv, SP!SourceAssumption
<1>7. CASE SP!Prefetch
  <2>1. /\ UNCHANGED <<kind, file, size, block, fd, ec, source_pc>>
        /\ cur' = 0 /\ bloff' = 0 /\ data' = 0 /\ call' = S!NoCall /\ dest' = <<>>
        /\ blsize' = IF 0 < file THEN SP!Smaller(block, file - 0) ELSE 0
    <3>1. stream.pos = 0 /\ stream.good = TRUE /\ bloff = 0
      BY <1>2 DEF Fresh
    <3>2. SP!WAdd(0, 0) = 0
      BY <1>6 DEF SP!WAdd
    <3>3. SP!GCount(0) = IF 0 < file THEN SP!Smaller(block, file - 0) ELSE 0
      BY <3>1 DEF SP!GCount
    <3>4. /\ UNCHANGED <<kind, file, size, block, fd, ec, source_pc>>
          /\ cur' = 0 /\ bloff' = SP!WAdd(bloff, blsize) /\ data' = stream.pos
          /\ blsize' = SP!GCount(stream.pos) /\ call' = SP!NoCall /\ dest' = <<>>
      BY <1>7 DEF SP!Prefetch, SP!resources
    <3>5. SP!NoCall = S!NoCall
      BY DEF SP!NoCall, S!NoCall
    <3>. QED  BY <1>2, <3>1, <3>2, <3>3, <3>4, <3>5
  <2>2. SP!SourceInv'
    BY <1>5, <1>7, SP!StepInv, SameSourceAssumption DEF Good, SP!ContentInv, SP!Next
  <2>3. SP!ContentInv'
    BY <1>5, <1>7, <2>2, SP!PrefetchContent, SameSourceAssumption DEF Good
  <2>4. SP!Offset' = 0 /\ SP!Size' = file'
    BY <1>2, <1>6, <2>1 DEF SP!Offset, SP!WAdd, SP!Size
  <2>5. source_pc' = "idle" /\ ec' = FALSE /\ call'.op = "none"
    BY <1>2, <2>1 DEF Fresh, S!NoCall
  <2>6. Good'
    <3>1. ~SP!Broken' /\ ~SP!Overlong' /\ Fits'
      BY <1>2, <2>1 DEF SP!Broken, SP!MapFailed, SP!Overlong, Fits
    <3>. QED  BY <2>3, <2>5, <3>1 DEF Good
  <2>7. BlocksFit'
    BY <1>2, <2>1 DEF BlocksFit
  <2>8. WholeInWindow'
    <3>1. block = file => blsize' = file
      BY <1>2, <2>1 DEF SP!Smaller, OfFile
    <3>. QED  BY <1>2, <1>3, <2>1, <2>5, <3>1 DEF WholeInWindow
  <2>9. Opened'
    BY <1>1, <1>2, <1>3, <2>1, <2>4, <2>7, <2>8 DEF Opened, Opening, OfFile
  <2>. QED  BY <1>1, <1>2, <2>4, <2>5, <2>6, <2>9, OpensInv DEF Opening
<1>8. CASE setup.reader = "chunked" /\ UNCHANGED source
  <2>1. /\ UNCHANGED <<kind, file, bloff, blsize, cur, data, size, block, stream, fd, fds, maps,
                      ec, source_pc, call, dest>>
    BY <1>8 DEF source
  <2>2. Built'
    BY <1>4, <2>1 DEF Built, NoCallYet, AtStart
  <2>3. Good' /\ SP!Offset' = 0 /\ SP!Size' = file'
    BY <2>2, StartsGood DEF GoodAtStart
  <2>4. BlocksFit' /\ WholeInWindow'
    BY <1>2, <1>3, <1>8, <2>1 DEF BlocksFit, WholeInWindow
  <2>5. Opened'
    BY <1>1, <1>2, <1>3, <2>1, <2>3, <2>4 DEF Opened, Opening, OfFile
  <2>6. source_pc' = "idle" /\ call'.op = "none"
    BY <1>2, <2>1 DEF Fresh, S!NoCall
  <2>. QED  BY <1>1, <1>2, <2>3, <2>5, <2>6, OpensInv DEF Opening
<1>. QED  BY <1>1, <1>7, <1>8

-----------------------------------------------------------------------------
(* Reading.                                                                *)

\* The calls of an item, taken apart.
LEMMA CallNames ==
  ASSUME NEW it, NEW n
  PROVE  /\ AlignCall(it).c = "align" /\ AlignCall(it).n = it.op.align
         /\ ReadCall(it).c = "read" /\ ReadCall(it).n = it.op.len
         /\ ReadCall(it).basic <=> Primitive(it.op)
         /\ Basic(n).c = "read" /\ Basic(n).n = n /\ Basic(n).basic
         /\ Skip(n).c = "advance" /\ Skip(n).n = n
<1>1. /\ Basic(n).c = "read" /\ Basic(n).n = n /\ Basic(n).basic
      /\ Skip(n).c = "advance" /\ Skip(n).n = n
      /\ AlignCall(it).c = "align" /\ AlignCall(it).n = it.op.align
  BY DEF AlignCall, Basic, Skip
<1>2. CASE Primitive(it.op)
  BY <1>1, <1>2 DEF ReadCall, Basic
<1>3. CASE ~Primitive(it.op)
  BY <1>1, <1>3 DEF ReadCall, Data
<1>. QED  BY <1>1, <1>2, <1>3

\* What an item still asks for, and what it will then.
LEMMA TodoFacts ==
  ASSUME Item.garbage \in Nat, Item.name \in Nat
  PROVE  /\ AtAlign => todo # <<>> /\ Head(todo) = AlignCall(Item) /\ Tail(todo) = <<ReadCall(Item)>>
         /\ AtPad => todo # <<>> /\ Head(todo) = Skip(Item.head - pos) /\ Tail(todo) = <<ReadCall(Item)>>
         /\ AtRead => todo # <<>> /\ Head(todo) = ReadCall(Item) /\ Tail(todo) = <<>>
         /\ AtFlags /\ Item.op.kind = "object" =>
              todo # <<>> /\ Head(todo) = Basic(Word) /\ Tail(todo) = BehindFlags(Item)
         /\ AtLength => todo # <<>> /\ Head(todo) = Basic(Word) /\ Tail(todo) = Tail(BehindFlags(Item))
         /\ AtSkip => \E n \in Nat : /\ todo # <<>> /\ Head(todo) = Skip(n) /\ Tail(todo) = <<>>
                                         /\ L!Skip(Item) = Word + n
         /\ BehindFlags(Item) = <<>> => L!Skip(Item) = 0
<1>1. \/ /\ BehindFlags(Item) = <<>> /\ L!Skip(Item) = 0
      \/ \E n \in Nat : /\ BehindFlags(Item) = <<Basic(Word), Skip(n)>>
                        /\ L!Skip(Item) = Word + n
  BY SkipFacts
<1>2. AtAlign => todo # <<>> /\ Head(todo) = AlignCall(Item) /\ Tail(todo) = <<ReadCall(Item)>>
  BY TwoCalls DEF AtAlign
<1>3. AtPad => todo # <<>> /\ Head(todo) = Skip(Item.head - pos) /\ Tail(todo) = <<ReadCall(Item)>>
  BY TwoCalls DEF AtPad
<1>4. AtRead => todo # <<>> /\ Head(todo) = ReadCall(Item) /\ Tail(todo) = <<>>
  BY OneCall DEF AtRead
<1>5. CASE BehindFlags(Item) = <<>> /\ L!Skip(Item) = 0
  <2>1. AtFlags /\ Item.op.kind = "object" =>
              todo # <<>> /\ Head(todo) = Basic(Word) /\ Tail(todo) = BehindFlags(Item)
    BY <1>5, OneCall DEF AtFlags, Calls
  <2>. QED  BY <1>2, <1>3, <1>4, <1>5, <2>1 DEF AtLength, AtSkip
<1>6. ASSUME NEW n \in Nat, BehindFlags(Item) = <<Basic(Word), Skip(n)>>, L!Skip(Item) = Word + n
      PROVE  /\ AtFlags /\ Item.op.kind = "object" =>
                  todo # <<>> /\ Head(todo) = Basic(Word) /\ Tail(todo) = BehindFlags(Item)
             /\ AtLength => todo # <<>> /\ Head(todo) = Basic(Word) /\ Tail(todo) = Tail(BehindFlags(Item))
             /\ AtSkip => todo # <<>> /\ Head(todo) = Skip(n) /\ Tail(todo) = <<>>
             /\ BehindFlags(Item) # <<>>
  <2>1. AtFlags /\ Item.op.kind = "object" =>
              todo # <<>> /\ Head(todo) = Basic(Word) /\ Tail(todo) = BehindFlags(Item)
    <3>1. Item.op.kind = "object" => Calls(Item) = <<Basic(Word)>> \o <<Basic(Word), Skip(n)>>
      BY <1>6 DEF Calls
    <3>2. /\ <<Basic(Word)>> \o <<Basic(Word), Skip(n)>> = <<Basic(Word), Basic(Word), Skip(n)>>
          /\ <<Basic(Word), Basic(Word), Skip(n)>> # <<>>
          /\ Head(<<Basic(Word), Basic(Word), Skip(n)>>) = Basic(Word)
          /\ Tail(<<Basic(Word), Basic(Word), Skip(n)>>) = <<Basic(Word), Skip(n)>>
      BY ThreeCalls
    <3>. QED  BY <1>6, <3>1, <3>2 DEF AtFlags
  <2>2. AtLength => todo # <<>> /\ Head(todo) = Basic(Word) /\ Tail(todo) = Tail(BehindFlags(Item))
    BY <1>6, TwoCalls DEF AtLength
  <2>3. Tail(BehindFlags(Item)) = <<Skip(n)>> /\ BehindFlags(Item) # <<>>
    BY <1>6, TwoCalls
  <2>4. AtSkip => todo # <<>> /\ Head(todo) = Skip(n) /\ Tail(todo) = <<>>
    BY <2>3, OneCall DEF AtSkip
  <2>. QED  BY <2>1, <2>2, <2>3, <2>4
<1>. QED  BY <1>1, <1>2, <1>3, <1>4, <1>5, <1>6

\* An archive that is between two calls has its source in order.
LEMMA IdleFacts ==
  ASSUME ReaderInv, Idle
  PROVE  /\ Good /\ SP!Offset = Place /\ source_pc = "idle" /\ archive = "reading"
         /\ pc = "read" /\ reads < Len(items) /\ LP!LayoutInv /\ Todo
         /\ OfFile /\ SP!Size = file /\ BlocksFit /\ WholeInWindow
<1>1. /\ archive = "reading" /\ source_pc = "idle" /\ ~Missed
  BY DEF Idle
<1>2. /\ pc = "read" /\ reads < Len(items) /\ LP!LayoutInv /\ Todo
      /\ Good \/ Left \/ Gone
      /\ OfFile /\ SP!Size = file /\ BlocksFit /\ WholeInWindow
  BY <1>1 DEF ReaderInv, Control, ReadingInv, Opened, Opening
<1>3. ~Left
  BY <1>1 DEF Left
<1>4. ~Gone
  <2>. SUFFICES ASSUME Gone PROVE FALSE
    OBVIOUS
  <2>1. /\ call.op = "advance" /\ call.start + call.n <= SP!Size /\ SP!Offset # call.start + call.n
        /\ SP!SourceInv
    BY DEF Gone, SkipOver
  <2>2. call.start \in Nat /\ call.n \in Nat /\ Width \in Nat /\ SP!Size \in 0 .. Width - 1
    <3>1. call.start \in 0 .. Width - 1 /\ call.n \in 0 .. Width - 1 /\ Width \in Nat \ {0}
      BY <2>1, SP!Numbers, SameSourceAssumption
    <3>. QED  BY <1>2, <3>1 DEF OfFile
  <2>3. S!WAdd(call.start, call.n) = call.start + call.n
    BY <2>1, <2>2 DEF S!WAdd
  <2>. QED  BY <1>1, <2>1, <2>3, SamePlace DEF Missed
<1>5. SP!Offset = Place
  BY <1>1, <1>2, <1>3, <1>4 DEF Place, Good
<1>. QED  BY <1>1, <1>2, <1>3, <1>4, <1>5

\* Which call is due says where in the item the reader is.
LEMMA DueFacts ==
  ASSUME ReaderInv
  PROVE  /\ Due("align") => Item.op.kind = "value" /\ AtAlign
         /\ Due("advance") => \/ Item.op.kind = "value" /\ AtPad
                              \/ Item.op.kind = "object" /\ AtSkip
         /\ Due("read") => \/ Item.op.kind = "value" /\ AtRead
                           \/ Item.op.kind = "object" /\ AtFlags
                           \/ Item.op.kind = "object" /\ AtLength
                           \/ Item.op.kind = "vu" /\ AtWord
         /\ Idle /\ todo = <<>> => \/ Item.op.kind = "value" /\ HasRead
                                   \/ Item.op.kind = "object" /\ HasSkipped
                                   \/ Item.op.kind = "vu" /\ AtWord
<1>. SUFFICES ASSUME Idle
              PROVE  /\ todo # <<>> /\ Head(todo).c = "align" => Item.op.kind = "value" /\ AtAlign
                     /\ todo # <<>> /\ Head(todo).c = "advance" =>
                                    \/ Item.op.kind = "value" /\ AtPad
                                    \/ Item.op.kind = "object" /\ AtSkip
                     /\ todo # <<>> /\ Head(todo).c = "read" =>
                                   \/ Item.op.kind = "value" /\ AtRead
                                   \/ Item.op.kind = "object" /\ AtFlags
                                   \/ Item.op.kind = "object" /\ AtLength
                                   \/ Item.op.kind = "vu" /\ AtWord
                     /\ todo = <<>> => \/ Item.op.kind = "value" /\ HasRead
                                       \/ Item.op.kind = "object" /\ HasSkipped
                                       \/ Item.op.kind = "vu" /\ AtWord
  BY DEF Due
<1>1. /\ Todo /\ Item.garbage \in Nat /\ Item.name \in Nat
      /\ Item.op.kind \in {"value", "vu", "object"}
  BY IdleFacts, ItemFacts
<1>2. CASE Item.op.kind = "value"
  <2>. DEFINE c == Head(todo).c
  <2>1. AtAlign => todo # <<>> /\ c = "align"
    BY <1>1, TodoFacts, CallNames
  <2>2. AtPad => todo # <<>> /\ c = "advance"
    BY <1>1, TodoFacts, CallNames
  <2>3. AtRead => todo # <<>> /\ c = "read"
    <3>1. ReadCall(Item).c = "read"
      BY CallNames
    <3>. QED  BY <1>1, <3>1, TodoFacts
  <2>4. HasRead => todo = <<>>
    BY DEF HasRead
  <2>5. AtAlign \/ AtPad \/ AtRead \/ HasRead
    BY <1>1, <1>2 DEF Todo, ValueTodo
  <2>. HIDE DEF c
  <2>6. /\ todo # <<>> /\ c = "align" => AtAlign
        /\ todo # <<>> /\ c = "advance" => AtPad
        /\ todo # <<>> /\ c = "read" => AtRead
        /\ todo = <<>> => HasRead
    BY <2>1, <2>2, <2>3, <2>4, <2>5
  <2>7. /\ todo # <<>> /\ Head(todo).c = "align" => AtAlign
        /\ todo # <<>> /\ Head(todo).c = "advance" => AtPad
        /\ todo # <<>> /\ Head(todo).c = "read" => AtRead
        /\ todo = <<>> => HasRead
    BY <2>6 DEF c
  <2>. QED  BY <1>2, <2>7
<1>3. CASE Item.op.kind = "object"
  <2>1. AtFlags \/ AtLength => todo # <<>> /\ Head(todo).c = "read"
    BY <1>1, <1>3, TodoFacts, CallNames
  <2>2. AtSkip => todo # <<>> /\ Head(todo).c = "advance"
    BY <1>1, TodoFacts, CallNames
  <2>3. HasSkipped => todo = <<>>
    BY DEF HasSkipped
  <2>. QED  BY <1>1, <1>3, <2>1, <2>2, <2>3 DEF Todo, ObjectTodo
<1>4. CASE Item.op.kind = "vu"
  <2>1. AtWord
    BY <1>1, <1>4 DEF Todo
  <2>2. Item.op.align \in Nat \ {0} /\ Item.end \in Nat /\ pos \in Nat
    BY IdleFacts, ItemFacts
  <2>3. Item.end - Place \in Nat /\ (Item.end - Place) % Item.op.align = 0
    BY <2>1, <2>2 DEF AtWord
  <2>4. todo = <<>> \/ Head(todo) = Basic(Item.op.align)
    BY <2>1, <2>2, <2>3, WordList DEF AtWord
  <2>5. todo = <<>> \/ Head(todo).c = "read"
    BY <2>4, CallNames
  <2>. QED  BY <1>4, <2>1, <2>5
<1>. QED  BY <1>1, <1>2, <1>3, <1>4

\* A step inside an item.
LEMMA ReadingFrame ==
  ASSUME ReaderInv, archive = "reading", archive' = "reading", UNCHANGED <<layout, file>>,
         SP!Size' = SP!Size, BlocksFit', WholeInWindow', ReadingInv'
  PROVE  ReaderInv'
<1>1. LP!LayoutInv' /\ ItemsInStream' /\ UNCHANGED <<setup, items, op, start, off, pc, reads, pos>>
  BY LayoutStays
<1>2. Control'
  BY <1>1 DEF ReaderInv, Control
<1>3. Opened'
  BY <1>1 DEF ReaderInv, Opened, Opening, OfFile
<1>4. LossNoticed'
  BY <1>1 DEF ReaderInv, LossNoticed
<1>. QED  BY <1>1, <1>2, <1>3, <1>4 DEF ReaderInv, OpenInv, AstrayInv, RefusedForACause

\* What a step that leaves the source alone leaves of it.
LEMMA SourceStays ==
  ASSUME UNCHANGED source
  PROVE  /\ UNCHANGED <<kind, file, bloff, blsize, cur, data, size, block, stream, fd, fds, maps,
                      ec, source_pc, call, dest>>
         /\ Place' = Place /\ SP!Size' = SP!Size /\ SP!Offset' = SP!Offset
         /\ (DestInv => DestInv') /\ (BlocksFit => BlocksFit')
         /\ (Good => Good') /\ (Gone => Gone')
<1>1. UNCHANGED <<kind, file, bloff, blsize, cur, data, size, block, stream, fd, fds, maps,
                  ec, source_pc, call, dest>>
  BY DEF source
<1>2. Place' = Place /\ SP!Size' = SP!Size /\ SP!Offset' = SP!Offset
  BY <1>1 DEF Place, SP!Offset, SP!Size, SP!WAdd
<1>3. SP!Broken' = SP!Broken /\ SP!Overlong' = SP!Overlong /\ Fits' = Fits
  BY <1>1 DEF SP!Broken, SP!Overlong, Fits
<1>4. UNCHANGED SP!vars
  BY <1>1 DEF SP!vars, SP!window, SP!resources
<1>5. SP!ContentInv => SP!ContentInv'
  BY <1>4, SP!StepContent, SourceWellUsed, SameSourceAssumption
<1>6. SP!SourceInv => SP!SourceInv'
  BY <1>4, SP!StepInv, SameSourceAssumption
<1>7. Good => Good'
  BY <1>1, <1>2, <1>3, <1>5 DEF Good
<1>8. Gone => Gone'
  BY <1>1, <1>2, <1>3, <1>6 DEF Gone, SkipOver
<1>. QED  BY <1>1, <1>2, <1>7, <1>8 DEF DestInv, BlocksFit

\* An item is begun.
LEMMA StartItemStep ==
  ASSUME ReaderInv, StartItem
  PROVE  ReaderInv'
<1>1. /\ archive = "open" /\ reads < Len(items) /\ todo' = Calls(Item) /\ archive' = "reading"
      /\ UNCHANGED <<layout, source, out>>
  BY DEF StartItem
<1>2. LP!LayoutInv' /\ ItemsInStream' /\ UNCHANGED <<setup, items, op, start, off, pc, reads, pos>>
  BY <1>1, LayoutStays
<1>3. /\ Good /\ source_pc = "idle" /\ SP!Offset = pos /\ DestInv /\ LP!LayoutInv
      /\ pc \in {"read", "done"} /\ OfFile /\ Opened /\ LossNoticed /\ Control
  BY <1>1 DEF ReaderInv, OpenInv, Control, Opened, Opening
<1>4. pc = "read"
  <2>1. pc = "done" => reads = Len(items)
    BY <1>3 DEF LP!LayoutInv, LP!ReadInv
  <2>2. reads \in Nat /\ Len(items) \in Nat
    BY <1>3 DEF LP!LayoutInv, LP!TypeOK
  <2>. QED  BY <1>1, <1>3, <2>1, <2>2
<1>5. Place = pos
  BY <1>3 DEF Place, Good
<1>6. Item' = Item /\ Calls(Item)' = Calls(Item)
  BY <1>2 DEF Item, Calls, BehindFlags, L!Padded, L!Named
<1>7. /\ Place' = Place /\ SP!Size' = SP!Size /\ Good' /\ DestInv' /\ BlocksFit' /\ file' = file
      /\ UNCHANGED <<bloff, blsize, data, call>>
  BY <1>1, <1>3, SourceStays DEF Opened, Opening
<1>8. Todo'
  <2>1. /\ pos' = pos /\ Item' = Item /\ Place' = pos /\ todo' = Calls(Item)
    BY <1>1, <1>2, <1>5, <1>6, <1>7
  <2>2. CASE Item.op.kind = "value"
    <3>1. Calls(Item) = <<AlignCall(Item), ReadCall(Item)>>
      BY <2>2 DEF Calls, AlignCall, ReadCall
    <3>. QED  BY <2>1, <2>2, <3>1 DEF Todo, ValueTodo, AtAlign, AlignCall, ReadCall, Primitive
  <2>3. CASE Item.op.kind = "object"
    BY <1>6, <2>1, <2>3 DEF Todo, ObjectTodo, AtFlags
  <2>4. CASE Item.op.kind = "vu"
    <3>1. /\ Item.head = pos /\ Item.end = pos + Item.op.len /\ Item.op.len \in Nat /\ pos \in Nat
          /\ Item.op.len % Item.op.align = 0
      BY <1>1, <1>3, <1>4, <2>4, ItemFacts
    <3>2. Item.end - pos = Item.op.len /\ pos \in pos .. Item.end
      BY <3>1
    <3>3. Calls(Item) = Words(Item.op.align, Item.end - pos)
      BY <2>4, <3>2 DEF Calls, Words
    <3>4. AtWord'
      BY <2>1, <3>1, <3>2, <3>3 DEF AtWord, Words, Basic
    <3>. QED  BY <2>1, <2>4, <3>4 DEF Todo
  <2>. QED  BY <1>1, <1>3, <1>4, <2>2, <2>3, <2>4, ItemFacts
<1>9. ReadingInv'
  BY <1>7, <1>8 DEF ReadingInv
<1>10. Opened'
  BY <1>1, <1>2, <1>3, <1>7 DEF Opened, Opening, OfFile, WholeInWindow
<1>11. LossNoticed' /\ Control'
  BY <1>1, <1>2, <1>3, <1>4, <1>7 DEF LossNoticed, Control
<1>. QED  BY <1>1, <1>2, <1>9, <1>10, <1>11 DEF ReaderInv, OpenInv, AstrayInv, RefusedForACause

\* What a step inside an item finds.
LEMMA ReadingFacts ==
  ASSUME ReaderInv, Idle
  PROVE  /\ Item.op \in Ops /\ pos \in Nat /\ off \in Nat /\ file \in Nat /\ file <= off
         /\ Item.head \in Nat /\ Item.end \in Nat /\ Item.garbage \in Nat /\ Item.name \in Nat
         /\ Item.op.align \in Nat \ {0} /\ Item.op.len \in Nat /\ Item.end <= off
         /\ Item.op.kind = "value" => /\ Item.head = L!Target(pos, Item.op.align)
                                      /\ Item.end = Item.head + Item.op.len
         /\ Item.op.kind = "vu" => /\ Item.head = pos /\ Item.end = pos + Item.op.len
                                   /\ Item.op.len # 0 /\ Item.op.len % Item.op.align = 0
         /\ Item.op.kind = "object" => /\ Item.head = L!Target(pos, Item.op.align)
                                       /\ Item.op.align = Word
                                       /\ Item.end = Item.head + (Word + L!Skip(Item))
         /\ Place = S!Offset /\ Place \in 0 .. Width - 1 /\ Place <= file
         /\ S!Size = file /\ S!Avail = SP!Avail
         /\ setup.reader \in {"chunked", "whole"}
<1>1. /\ Good /\ SP!Offset = Place /\ LP!LayoutInv /\ OfFile /\ SP!Size = file
      /\ pc = "read" /\ reads < Len(items)
  BY IdleFacts
<1>2. /\ reads + 1 \in 1 .. Len(items) /\ Item.op \in Ops
      /\ pos \in Nat /\ off \in Nat /\ Item.start = pos
      /\ Item.head \in Nat /\ Item.end \in Nat /\ Item.garbage \in Nat /\ Item.name \in Nat
      /\ Item.op.kind # "vu" => Item.head = L!Target(pos, Item.op.align)
      /\ Item.op.kind # "object" => Item.end = Item.head + Item.op.len
      /\ Item.op.kind = "vu" => /\ Item.head = pos /\ Item.op.len # 0
                                /\ Item.op.len % Item.op.align = 0
      /\ Item.op.kind = "object" => /\ Item.op.align = Word
                                    /\ Item.end = Item.head + (Word + L!Skip(Item))
      /\ Item.op.align \in Nat \ {0} /\ Item.op.len \in Nat
  BY <1>1, ItemFacts
<1>3. Item.end <= off
  <2>1. DOMAIN items = 1 .. Len(items)
    BY <1>1 DEF LP!LayoutInv, LP!TypeOK
  <2>. QED  BY <1>2, <2>1 DEF ReaderInv, ItemsInStream, Item
<1>4. Place \in 0 .. Width - 1 /\ Place <= file
  <2>1. /\ bloff \in Nat /\ blsize \in Nat /\ cur \in Nat /\ cur <= blsize
        /\ bloff + blsize <= SP!Size /\ SP!Size \in Nat
        /\ SP!Offset = bloff + cur /\ SP!Offset \in 0 .. Width - 1
    BY <1>1, GoodNumbers
  <2>2. SP!Offset <= SP!Size
    BY <2>1
  <2>. QED  BY <1>1, <2>1, <2>2
<1>5. setup.reader \in {"chunked", "whole"}
  BY <1>1, SetupFacts
<1>6. /\ Item.op.kind = "object" => Item.op.kind # "vu"
      /\ Item.op.kind = "value" => Item.op.kind # "object" /\ Item.op.kind # "vu"
      /\ Item.op.kind = "vu" => Item.op.kind # "object"
  OBVIOUS
<1>. QED  BY <1>1, <1>2, <1>3, <1>4, <1>5, <1>6, SamePlace DEF OfFile

\* align_stream finds the place of a value, or the skip that leads there.
LEMMA AlignStreamStep ==
  ASSUME ReaderInv, AlignStream
  PROVE  ReaderInv'
<1>1. /\ Due("align") /\ Idle /\ archive = "reading" /\ archive' = archive
      /\ UNCHANGED <<layout, source, archive, out>>
      /\ todo' = IF L!Aligned(S!Offset, N) THEN Tail(todo)
                 ELSE <<Skip(L!Align(S!Offset, N) - S!Offset)>> \o Tail(todo)
  BY DEF AlignStream, Due, Idle
<1>2. Item.op.kind = "value" /\ AtAlign
  BY <1>1, DueFacts
<1>3. /\ Item.op \in Ops /\ Item.garbage \in Nat /\ Item.name \in Nat
      /\ Item.head = L!Target(pos, Item.op.align) /\ pos \in 0 .. Width - 1
      /\ S!Offset = pos
  BY <1>1, <1>2, ReadingFacts DEF AtAlign
<1>4. Head(todo) = AlignCall(Item) /\ Tail(todo) = <<ReadCall(Item)>>
  BY <1>2, <1>3, TodoFacts
<1>5. N = Item.op.align
  BY <1>4 DEF N, AlignCall
<1>6. /\ LP!LayoutInv' /\ ItemsInStream' /\ UNCHANGED <<setup, items, op, start, off, pc, reads, pos>>
  BY <1>1, LayoutStays
<1>7. Item' = Item
  BY <1>6 DEF Item
<1>8. /\ Good /\ Place = pos /\ BlocksFit /\ WholeInWindow /\ DestInv
  BY <1>1, <1>2, IdleFacts DEF AtAlign, ReaderInv, ReadingInv
<1>9. /\ Place' = pos /\ SP!Size' = SP!Size /\ Good' /\ DestInv' /\ BlocksFit' /\ file' = file
      /\ UNCHANGED <<bloff, blsize, data, call>>
  BY <1>1, <1>8, SourceStays
<1>10. ReadCall(Item)' = ReadCall(Item) /\ Item.op.kind' = Item.op.kind
  BY <1>7 DEF ReadCall, Primitive
<1>11. ASSUME L!Aligned(pos, Item.op.align) PROVE Todo'
  <2>1. Item.head = pos
    BY <1>3, <1>11, TargetFacts
  <2>2. todo' = <<ReadCall(Item)>>
    BY <1>1, <1>3, <1>4, <1>5, <1>11
  <2>3. AtRead'
    BY <1>6, <1>7, <1>9, <1>10, <2>1, <2>2 DEF AtRead, Aligning
  <2>. QED  BY <1>2, <1>10, <2>3 DEF Todo, ValueTodo
<1>12. ASSUME ~L!Aligned(pos, Item.op.align) PROVE Todo'
  <2>1. L!Align(pos, Item.op.align) = Item.head /\ Item.head > pos
    BY <1>3, <1>12, TargetFacts
  <2>2. todo' = <<Skip(Item.head - pos)>> \o <<ReadCall(Item)>>
    BY <1>1, <1>3, <1>4, <1>5, <1>12, <2>1
  <2>3. todo' = <<Skip(Item.head - pos), ReadCall(Item)>>
    BY <2>2, TwoCalls
  <2>4. AtPad'
    BY <1>6, <1>7, <1>9, <1>10, <2>1, <2>3 DEF AtPad, Skip
  <2>. QED  BY <1>2, <1>10, <2>4 DEF Todo, ValueTodo
<1>13. ReadingInv'
  BY <1>9, <1>11, <1>12 DEF ReadingInv
<1>14. WholeInWindow'
  BY <1>6, <1>8, <1>9 DEF WholeInWindow
<1>. QED  BY <1>1, <1>9, <1>13, <1>14, ReadingFrame

\* What a call on the source does when it is made.
LEMMA CallFrame ==
  ASSUME ReaderInv, Idle, UNCHANGED layout, NEW n \in Nat, Place + n <= file,
         (setup.reader = "chunked" /\ S!Fetch(n)) \/ S!Advance(n)
  PROVE  /\ Place' = Place + n /\ DestInv' /\ SP!Size' = SP!Size /\ BlocksFit' /\ WholeInWindow'
         /\ UNCHANGED <<kind, file, block, bloff, blsize, cur, data>>
         /\ call'.n = n /\ (S!Fetch(n) => call'.op = "fetch")
         /\ n \in 0 .. Width - 1 /\ SP!Offset + n <= SP!Size
<1>1. /\ Good /\ SP!Offset = Place /\ OfFile /\ SP!Size = file /\ BlocksFit /\ WholeInWindow
  BY IdleFacts
<1>2. Place \in Nat /\ S!Offset = Place /\ setup' = setup
  BY ReadingFacts, LayoutStays
<1>3. /\ UNCHANGED <<kind, file, block, bloff, blsize, cur, data, size>>
      /\ call' = S!Called("fetch", n) \/ call' = S!Called("advance", n)
      /\ call' = S!Called("fetch", n) => dest' = [i \in 0 .. n - 1 |-> S!Unwritten]
      /\ S!Fetch(n) => call' = S!Called("fetch", n)
      /\ setup.reader = "whole" => call' = S!Called("advance", n)
  <2>1. CASE S!Fetch(n) /\ setup.reader = "chunked"
    BY <2>1 DEF S!Fetch, S!window, S!resources
  <2>2. CASE S!Advance(n)
    <3>1. call' = S!Called("advance", n) /\ S!Called("advance", n) # S!Called("fetch", n)
      BY <2>2 DEF S!Advance, S!Called
    <3>2. UNCHANGED <<kind, file, block, bloff, blsize, cur, data, size>>
      BY <2>2 DEF S!Advance, S!window, S!resources
    <3>3. ~S!Fetch(n)
      BY <3>1 DEF S!Fetch
    <3>. QED  BY <3>1, <3>2, <3>3
  <2>. QED  BY <2>1, <2>2
<1>4. call'.n = n /\ call'.start = Place /\ call'.op \in {"fetch", "advance"}
      /\ (call' = S!Called("fetch", n) <=> call'.op = "fetch")
      /\ (setup.reader = "whole" => call'.op = "advance")
  BY <1>2, <1>3 DEF S!Called
<1>5. Place' = Place + n
  BY <1>4 DEF Place
<1>6. DestInv'
  BY <1>3, <1>4 DEF DestInv
<1>7. SP!Size' = SP!Size /\ BlocksFit'
  BY <1>1, <1>3 DEF SP!Size, BlocksFit
<1>8. WholeInWindow'
  BY <1>1, <1>2, <1>3, <1>4 DEF WholeInWindow
<1>9. n \in 0 .. Width - 1
  <2>1. file \in Nat /\ Width \in Nat /\ file <= Width - 1
    BY <1>1, SameSourceAssumption DEF OfFile, SP!SourceAssumption
  <2>. QED  BY <1>2, <2>1
<1>. QED  BY <1>1, <1>3, <1>4, <1>5, <1>6, <1>7, <1>8, <1>9

\* A read, or a skip that stays in the window, leaves the source in order.
LEMMA CallGood ==
  ASSUME ReaderInv, Idle, UNCHANGED layout, NEW n \in Nat, Place + n <= file,
         \/ setup.reader = "chunked" /\ S!Fetch(n)
         \/ S!Advance(n) /\ n <= S!Avail
  PROVE  Good'
<1>1. n \in 0 .. Width - 1 /\ SP!Offset + n <= SP!Size
  BY CallFrame
<1>2. SP!Fetch(n) \/ SP!Advance(n)
  <2>1. S!Offset + n <= S!Size
    BY <1>1, SamePlace
  <2>. QED  BY <2>1, SameUse
<1>3. Good
  BY IdleFacts
<1>. QED  BY <1>1, <1>2, <1>3, GoodCall

\* What is asserted of a skip of a file is true of the stream.
LEMMA SkipAsserted ==
  ASSUME ReaderInv, Idle, N \in Nat, AdvanceAsserts
  PROVE  /\ Place + N <= file /\ L!AdvanceAsserts(Place, N)
         /\ setup.reader = "whole" => N <= S!Avail
<1>1. /\ Place = S!Offset /\ Place \in Nat /\ S!Size = file /\ S!Avail = SP!Avail
      /\ file \in Nat /\ off \in Nat /\ file <= off
      /\ setup.reader \in {"chunked", "whole"}
  BY ReadingFacts
<1>2. CASE setup.reader = "chunked"
  <2>1. Place + N <= file
    BY <1>1, <1>2 DEF AdvanceAsserts
  <2>2. Place + N <= off
    BY <1>1, <2>1
  <2>3. setup.reader \notin L!Unchecked
    BY <1>2 DEF L!Unchecked
  <2>. QED  BY <1>2, <2>1, <2>2, <2>3 DEF L!AdvanceAsserts
<1>3. CASE setup.reader = "whole"
  <2>1. bloff = 0 /\ blsize = file /\ SP!Offset = Place /\ Good
    BY <1>3, IdleFacts DEF WholeInWindow
  <2>2. S!Avail = file - Place
    BY <1>1, <2>1, GoodNumbers
  <2>3. Place + N <= file - Place
    BY <1>1, <1>3, <2>2 DEF AdvanceAsserts
  <2>4. Place + N <= off - Place /\ Place + N <= file /\ N <= S!Avail
    BY <1>1, <2>2, <2>3
  <2>5. setup.reader \notin L!Unchecked
    BY <1>3 DEF L!Unchecked
  <2>. QED  BY <1>3, <2>4, <2>5 DEF L!AdvanceAsserts
<1>. QED  BY <1>1, <1>2, <1>3

\* The item being read stays the same one.
LEMMA ItemStays ==
  ASSUME ReaderInv, UNCHANGED layout
  PROVE  /\ UNCHANGED <<setup, items, reads, off, pos>> /\ Item' = Item
         /\ BehindFlags(Item)' = BehindFlags(Item) /\ L!Skip(Item)' = L!Skip(Item)
         /\ ReadCall(Item)' = ReadCall(Item)
         /\ FlagsRead' = FlagsRead /\ Aligning' = Aligning
<1>1. UNCHANGED <<setup, items, op, start, off, pc, reads, pos>>
  BY LayoutStays
<1>2. Item' = Item
  BY <1>1 DEF Item
<1>. QED  BY <1>1, <1>2 DEF BehindFlags, L!Padded, L!Named, L!Skip, ReadCall, Primitive, FlagsRead,
  Aligning, L!AdvanceAsserts

\* A skip is called for: over padding, inside the window; over a prefix, anywhere.
LEMMA SkipStep ==
  ASSUME ReaderInv, Advance
  PROVE  ReaderInv'
<1>1. /\ Due("advance") /\ Idle /\ AdvanceAsserts /\ S!Advance(N) /\ todo' = Tail(todo)
      /\ archive = "reading" /\ archive' = archive /\ UNCHANGED layout
  BY DEF Advance, Due, Idle
<1>2. \/ Item.op.kind = "value" /\ AtPad
      \/ Item.op.kind = "object" /\ AtSkip
  BY <1>1, DueFacts
<1>3. /\ UNCHANGED <<setup, items, reads, off, pos>> /\ Item' = Item
      /\ BehindFlags(Item)' = BehindFlags(Item) /\ L!Skip(Item)' = L!Skip(Item)
      /\ ReadCall(Item)' = ReadCall(Item)
      /\ FlagsRead' = FlagsRead /\ Aligning' = Aligning
  BY <1>1, ItemStays
<1>4. Item.op.kind' = Item.op.kind
  BY <1>3
<1>5. ASSUME N \in Nat
      PROVE  /\ Place + N <= file /\ L!AdvanceAsserts(Place, N)
             /\ setup.reader = "whole" => N <= S!Avail
             /\ Place' = Place + N /\ DestInv' /\ SP!Size' = SP!Size /\ BlocksFit' /\ WholeInWindow'
             /\ file' = file
             /\ N <= S!Avail => Good'
  <2>1. /\ Place + N <= file /\ L!AdvanceAsserts(Place, N)
        /\ setup.reader = "whole" => N <= S!Avail
    BY <1>1, <1>5, SkipAsserted
  <2>2. /\ Place' = Place + N /\ DestInv' /\ SP!Size' = SP!Size /\ BlocksFit' /\ WholeInWindow'
        /\ file' = file
    BY <1>1, <1>5, <2>1, CallFrame
  <2>3. N <= S!Avail => Good'
    BY <1>1, <1>5, <2>1, CallGood
  <2>. QED  BY <2>1, <2>2, <2>3
<1>6. CASE Item.op.kind = "value" /\ AtPad
  <2>1. /\ Head(todo) = Skip(Item.head - pos) /\ Tail(todo) = <<ReadCall(Item)>>
        /\ Place = pos /\ Item.head > pos
    BY <1>1, <1>6, ReadingFacts, TodoFacts DEF AtPad
  <2>2. /\ pos \in 0 .. Width - 1 /\ Item.head \in Nat /\ Item.op \in Ops
        /\ Item.head = L!Target(pos, Item.op.align) /\ SP!Offset = pos /\ Good /\ BlocksFit
        /\ SP!Size = file /\ S!Avail = SP!Avail /\ setup.reader \in {"chunked", "whole"}
    BY <1>1, <1>6, <2>1, ReadingFacts, IdleFacts
  <2>3. N = Item.head - pos /\ N \in Nat /\ pos + N = Item.head
    <3>1. N = Item.head - pos
      BY <2>1 DEF N, Skip
    <3>. QED  BY <2>1, <2>2, <3>1
  <2>4. N <= S!Avail
    <3>1. CASE setup.reader = "whole"
      BY <1>5, <2>3, <3>1
    <3>2. CASE setup.reader = "chunked"
      <4>1. ~L!Aligned(pos, Item.op.align)
        BY <2>1, <2>2, TargetFacts
      <4>2. Item.head <= SP!Size
        BY <1>5, <2>1, <2>2, <2>3
      <4>3. L!Target(SP!Offset, Item.op.align) - SP!Offset <= SP!Avail
        BY <2>2, <4>1, <4>2, PaddingInWindow
      <4>. QED  BY <2>2, <2>3, <4>3
    <3>. QED  BY <2>2, <3>1, <3>2
  <2>5. Aligning
    BY <1>5, <2>1, <2>3 DEF Aligning
  <2>6. AtRead'
    <3>1. todo' = <<ReadCall(Item)>> /\ Place' = Item.head
      BY <1>1, <1>5, <2>1, <2>3
    <3>. QED  BY <1>3, <2>5, <3>1 DEF AtRead
  <2>7. Good' /\ Todo' /\ DestInv'
    BY <1>4, <1>5, <1>6, <2>3, <2>4, <2>6 DEF Todo, ValueTodo
  <2>8. ReadingInv'
    BY <2>7 DEF ReadingInv
  <2>. QED  BY <1>1, <1>5, <2>3, <2>8, ReadingFrame
<1>7. CASE Item.op.kind = "object" /\ AtSkip
  <2>1. PICK n \in Nat : /\ Head(todo) = Skip(n) /\ Tail(todo) = <<>> /\ L!Skip(Item) = Word + n
    BY <1>1, <1>7, ReadingFacts, TodoFacts
  <2>2. N = n
    BY <2>1 DEF N, Skip
  <2>3. /\ pos \in Nat /\ Item.head \in Nat /\ Item.end = Item.head + (Word + L!Skip(Item))
        /\ Place = pos + 2 * Word /\ FlagsRead /\ pos = Item.head
        /\ setup.reader \in {"chunked", "whole"}
    BY <1>1, <1>7, ReadingFacts DEF AtSkip, FlagsRead
  <2>4. Place' = Item.end
    <3>1. Place' = Place + n
      BY <1>5, <2>2
    <3>. QED  BY <2>1, <2>3, <3>1 DEF Word
  <2>5. L!AdvanceAsserts(pos + 2 * Word, L!Skip(Item) - Word)
    <3>1. L!Skip(Item) - Word = n
      BY <2>1 DEF Word
    <3>. QED  BY <1>5, <2>2, <2>3, <3>1
  <2>6. HasSkipped'
    <3>1. L!AdvanceAsserts(pos + 2 * Word, L!Skip(Item) - Word)'
      BY <1>3, <2>5 DEF L!AdvanceAsserts
    <3>2. todo' = <<>>
      BY <1>1, <2>1
    <3>. QED  BY <1>3, <2>3, <2>4, <3>1, <3>2 DEF HasSkipped
  <2>7. Good' \/ (Left' /\ SkipsPrefix')
    <3>1. CASE n <= S!Avail
      BY <1>5, <2>2, <3>1
    <3>2. CASE ~(n <= S!Avail)
      <4>1. n \in 0 .. Width - 1 /\ SP!Offset + n <= SP!Size /\ S!Advance(n) /\ Good
        BY <1>1, <1>5, <2>2, CallFrame, IdleFacts
      <4>2. Left'
        <5>1. ~(n <= SP!Avail)
          BY <3>2, SamePlace
        <5>. QED  BY <4>1, <5>1, SkipLeaves
      <4>3. setup.reader = "chunked"
        BY <1>5, <2>2, <2>3, <3>2
      <4>4. Item.end - Item.head > Word
        BY <2>1, <2>3 DEF Word
      <4>5. SkipsPrefix'
        BY <1>1, <1>3, <1>7, <2>1, <4>3, <4>4 DEF SkipsPrefix
      <4>. QED  BY <4>2, <4>5
    <3>. QED  BY <3>1, <3>2
  <2>8. Todo' /\ DestInv'
    BY <1>4, <1>5, <1>7, <2>2, <2>6 DEF Todo, ObjectTodo
  <2>9. ReadingInv'
    BY <2>7, <2>8 DEF ReadingInv
  <2>. QED  BY <1>1, <1>5, <2>2, <2>9, ReadingFrame
<1>. QED  BY <1>2, <1>6, <1>7

\* What a read does, whichever archive makes it.
LEMMA ReadMade ==
  ASSUME ReaderInv, ReadChunked \/ ReadWhole, N \in Nat
  PROVE  /\ Place + N <= file /\ Place' = Place + N /\ Good' /\ DestInv'
         /\ SP!Size' = SP!Size /\ BlocksFit' /\ WholeInWindow' /\ file' = file
         /\ Head(todo).basic => cur % N = 0
         /\ setup.reader = "chunked" => call'.op = "fetch" /\ call'.n = N
         /\ setup.reader = "whole" => out' = [i \in 0 .. N - 1 |-> Place + i]
<1>1. /\ Idle /\ ReadAsserts /\ UNCHANGED layout
      /\ \/ setup.reader = "chunked" /\ S!Fetch(N)
         \/ /\ setup.reader = "whole" /\ S!Advance(N)
            /\ out' = [i \in 0 .. N - 1 |-> S!Byte(cur + i)]
  BY DEF ReadChunked, ReadWhole, Due
<1>2. /\ Place = S!Offset /\ Place \in Nat /\ S!Size = file /\ S!Avail = SP!Avail
      /\ file \in Nat /\ setup.reader \in {"chunked", "whole"}
  BY <1>1, ReadingFacts
<1>3. Good /\ SP!Offset = Place /\ WholeInWindow
  BY <1>1, IdleFacts
<1>4. cur \in Nat /\ bloff \in Nat /\ SP!Offset = bloff + cur /\ SP!Avail = blsize - cur
  BY <1>3, GoodNumbers
<1>5. setup.reader = "whole" => /\ cur = Place /\ data = 0 /\ N <= S!Avail /\ Place + N <= file
  <2>. SUFFICES ASSUME setup.reader = "whole"
                PROVE  cur = Place /\ data = 0 /\ N <= S!Avail /\ Place + N <= file
    OBVIOUS
  <2>1. bloff = 0 /\ blsize = file /\ data = 0
    BY <1>3 DEF WholeInWindow
  <2>2. cur = Place
    BY <1>3, <1>4, <2>1
  <2>3. N <= S!Avail /\ S!Avail = file - Place
    BY <1>1, <1>2, <1>4, <2>1, <2>2 DEF ReadAsserts
  <2>. QED  BY <1>2, <2>1, <2>2, <2>3
<1>6. setup.reader = "chunked" => Place + N <= file
  BY <1>1, <1>2 DEF ReadAsserts
<1>7. Place + N <= file
  BY <1>2, <1>5, <1>6
<1>8. (setup.reader = "chunked" /\ S!Fetch(N)) \/ S!Advance(N)
  BY <1>1
<1>9. /\ Place' = Place + N /\ DestInv' /\ SP!Size' = SP!Size /\ BlocksFit' /\ WholeInWindow'
      /\ file' = file /\ call'.n = N /\ (S!Fetch(N) => call'.op = "fetch")
  BY <1>1, <1>7, <1>8, CallFrame
<1>10. Good'
  <2>1. \/ setup.reader = "chunked" /\ S!Fetch(N)
        \/ S!Advance(N) /\ N <= S!Avail
    BY <1>1, <1>5
  <2>. QED  BY <1>1, <1>7, <2>1, CallGood
<1>11. setup.reader = "chunked" => call'.op = "fetch" /\ call'.n = N
  BY <1>1, <1>9
<1>12. setup.reader = "whole" => out' = [i \in 0 .. N - 1 |-> Place + i]
  <2>. SUFFICES ASSUME setup.reader = "whole" PROVE out' = [i \in 0 .. N - 1 |-> Place + i]
    OBVIOUS
  <2>1. ASSUME NEW i \in 0 .. N - 1 PROVE S!Byte(cur + i) = Place + i
    <3>1. data = 0 /\ cur = Place /\ Place \in Nat /\ file \in Nat /\ Place + N <= file
      BY <1>2, <1>5
    <3>2. data + (cur + i) = Place + i /\ data + (cur + i) < file
      BY <3>1
    <3>. QED  BY <3>2 DEF S!Byte
  <2>. QED  BY <1>1, <2>1
<1>13. Head(todo).basic => cur % N = 0
  BY <1>1 DEF ReadAsserts
<1>. QED  BY <1>7, <1>9, <1>10, <1>11, <1>12, <1>13

\* The words of a vu begin where it does, a multiple of their size further on.
LEMMA WordPlace ==
  ASSUME ReaderInv, Idle, Item.op.kind = "vu", AtWord
  PROVE  Place % Item.op.align = pos % Item.op.align
<1>. DEFINE al == Item.op.align
            done == Place - pos
            left == Item.end - Place
<1>1. /\ al \in Nat \ {0} /\ MaxPrimitive % al = 0 /\ Item.end \in Nat /\ pos \in Nat
      /\ Item.end = pos + Item.op.len /\ Item.op.len \in Nat /\ Item.op.len % al = 0
      /\ Place \in pos .. Item.end /\ left % al = 0
  <2>1. Item.op \in Ops
    BY ReadingFacts
  <2>. QED  BY <2>1, ReadingFacts, ReaderAssumption DEF AtWord, ReaderAssumption
<1>2. done \in Nat /\ left \in Nat /\ left + done = Item.op.len /\ Place = done + pos
  BY <1>1
<1>. HIDE DEF al, done, left
<1>3. (left + done) % al = done % al
  BY <1>1, <1>2, MultipleShift
<1>4. done % al = 0
  BY <1>1, <1>2, <1>3
<1>5. (done + pos) % al = pos % al
  BY <1>1, <1>2, <1>4, MultipleShift
<1>. QED  BY <1>2, <1>5 DEF al

\* A read is called for.
LEMMA ReadStep ==
  ASSUME ReaderInv, ReadChunked \/ ReadWhole
  PROVE  ReaderInv'
<1>1. /\ Due("read") /\ Idle /\ todo' = Tail(todo)
      /\ archive = "reading" /\ archive' = archive /\ UNCHANGED layout
  BY DEF ReadChunked, ReadWhole, Due, Idle
<1>2. \/ Item.op.kind = "value" /\ AtRead
      \/ Item.op.kind = "object" /\ AtFlags
      \/ Item.op.kind = "object" /\ AtLength
      \/ Item.op.kind = "vu" /\ AtWord
  BY <1>1, DueFacts
<1>3. /\ UNCHANGED <<setup, items, reads, off, pos>> /\ Item' = Item
      /\ BehindFlags(Item)' = BehindFlags(Item) /\ L!Skip(Item)' = L!Skip(Item)
      /\ FlagsRead' = FlagsRead /\ Aligning' = Aligning
  BY <1>1, ItemStays
<1>4. Item.op.kind' = Item.op.kind
  BY <1>3
<1>5. /\ Item.op \in Ops /\ pos \in Nat /\ off \in Nat /\ file \in Nat /\ file <= off
      /\ Item.head \in Nat /\ Item.end \in Nat /\ Item.garbage \in Nat /\ Item.name \in Nat
      /\ Item.op.len \in Nat /\ Item.end <= off
      /\ Item.op.kind = "value" => Item.end = Item.head + Item.op.len
      /\ Item.op.kind = "object" => /\ Item.head = L!Target(pos, Item.op.align)
                                    /\ Item.op.align = Word
                                    /\ Item.end = Item.head + (Word + L!Skip(Item))
      /\ setup.reader \in {"chunked", "whole"}
      /\ Place = S!Offset /\ Place \in 0 .. Width - 1
  BY <1>1, ReadingFacts
<1>6. CASE Item.op.kind = "value" /\ AtRead
  <2>1. Head(todo) = ReadCall(Item) /\ Tail(todo) = <<>> /\ Place = Item.head /\ Aligning
    BY <1>5, <1>6, TodoFacts DEF AtRead
  <2>2. N = Item.op.len /\ N \in Nat
    <3>1. ReadCall(Item).n = Item.op.len
      BY CallNames
    <3>. QED  BY <1>5, <2>1, <3>1 DEF N
  <2>3. /\ Place' = Place + N /\ Good' /\ DestInv'
        /\ SP!Size' = SP!Size /\ BlocksFit' /\ WholeInWindow' /\ file' = file
        /\ setup.reader = "chunked" => call'.op = "fetch" /\ call'.n = N
        /\ setup.reader = "whole" => out' = [i \in 0 .. N - 1 |-> Place + i]
    BY <2>2, ReadMade
  <2>4. HasRead'
    <3>1. todo' = <<>> /\ Place' = Item.end
      BY <1>1, <1>5, <1>6, <2>1, <2>2, <2>3
    <3>2. IF setup.reader = "whole" THEN out' = [i \in 0 .. Item.op.len - 1 |-> Item.head + i]
                                    ELSE call'.op = "fetch" /\ call'.n = Item.op.len
      BY <1>5, <2>1, <2>2, <2>3
    <3>. QED  BY <1>3, <1>5, <2>1, <3>1, <3>2 DEF HasRead
  <2>5. Todo'
    BY <1>4, <1>6, <2>4 DEF Todo, ValueTodo
  <2>6. ReadingInv'
    BY <2>3, <2>5 DEF ReadingInv
  <2>. QED  BY <1>1, <2>3, <2>6, ReadingFrame
<1>7. CASE Item.op.kind = "object" /\ AtFlags
  <2>1. Head(todo) = Basic(Word) /\ Tail(todo) = BehindFlags(Item) /\ Place = pos
    BY <1>5, <1>7, TodoFacts DEF AtFlags
  <2>2. N = Word /\ N \in Nat /\ Head(todo).basic
    <3>1. Basic(Word).n = Word /\ Basic(Word).basic
      BY CallNames
    <3>. QED  BY <2>1, <3>1 DEF N, Word
  <2>3. /\ Place + N <= file /\ Place' = Place + N /\ Good' /\ DestInv'
        /\ SP!Size' = SP!Size /\ BlocksFit' /\ WholeInWindow' /\ file' = file
        /\ cur % N = 0
    BY <2>2, ReadMade
  <2>4. FlagsRead
    <3>1. SP!Offset = pos /\ SP!Size = file /\ Good /\ BlocksFit
      BY <1>1, <2>1, IdleFacts
    <3>2. SP!Offset < SP!Size /\ pos + Word <= off
      BY <1>5, <2>1, <2>2, <2>3, <3>1 DEF Word
    <3>3. MaxPrimitive % Word = 0 /\ Word \in Nat \ {0}
      BY DEF MaxPrimitive, Word
    <3>4. cur % Word = SP!Offset % Word
      BY <3>1, <3>2, <3>3, CursorAligned
    <3>5. pos % Word = 0
      BY <2>2, <2>3, <3>1, <3>4
    <3>6. pos \in 0 .. Width - 1 /\ Item.op.align = Word
      BY <1>5, <1>7, <2>1
    <3>7. L!Aligned(pos, Word) /\ L!Target(pos, Word) = pos
      BY <1>5, <3>5, <3>6, TargetFacts
    <3>. QED  BY <1>5, <1>7, <3>2, <3>6, <3>7 DEF FlagsRead
  <2>5. Place' = pos + Word
    BY <2>1, <2>2, <2>3
  <2>6. Todo'
    <3>1. CASE BehindFlags(Item) = <<>>
      <4>1. L!Skip(Item) = 0
        BY <1>5, <3>1, TodoFacts
      <4>2. todo' = <<>> /\ Place' = Item.end
        BY <1>1, <1>5, <1>7, <2>1, <2>4, <2>5, <3>1, <4>1 DEF FlagsRead, Word
      <4>3. L!Skip(Item)' = 0
        BY <1>3, <4>1
      <4>4. HasSkipped'
        BY <1>3, <2>4, <4>2, <4>3 DEF HasSkipped
      <4>. QED  BY <1>4, <1>7, <4>4 DEF Todo, ObjectTodo
    <3>2. CASE BehindFlags(Item) # <<>>
      <4>1. AtLength'
        BY <1>1, <1>3, <2>1, <2>4, <2>5, <3>2 DEF AtLength
      <4>. QED  BY <1>4, <1>7, <4>1 DEF Todo, ObjectTodo
    <3>. QED  BY <3>1, <3>2
  <2>7. ReadingInv'
    BY <2>3, <2>6 DEF ReadingInv
  <2>. QED  BY <1>1, <2>3, <2>7, ReadingFrame
<1>8. CASE Item.op.kind = "object" /\ AtLength
  <2>1. /\ Head(todo) = Basic(Word) /\ Tail(todo) = Tail(BehindFlags(Item))
        /\ BehindFlags(Item) # <<>> /\ Place = pos + Word /\ FlagsRead
    BY <1>5, <1>8, TodoFacts DEF AtLength
  <2>2. N = Word /\ N \in Nat
    <3>1. Basic(Word).n = Word
      BY CallNames
    <3>. QED  BY <2>1, <3>1 DEF N, Word
  <2>3. /\ Place' = Place + N /\ Good' /\ DestInv'
        /\ SP!Size' = SP!Size /\ BlocksFit' /\ WholeInWindow' /\ file' = file
    BY <2>2, ReadMade
  <2>4. Place' = pos + 2 * Word
    BY <1>5, <2>1, <2>2, <2>3 DEF Word
  <2>5. AtSkip'
    BY <1>1, <1>3, <2>1, <2>4 DEF AtSkip
  <2>6. Todo'
    BY <1>4, <1>8, <2>5 DEF Todo, ObjectTodo
  <2>7. ReadingInv'
    BY <2>3, <2>6 DEF ReadingInv
  <2>. QED  BY <1>1, <2>3, <2>7, ReadingFrame
<1>9. CASE Item.op.kind = "vu" /\ AtWord
  <2>. DEFINE al == Item.op.align
  <2>1. /\ al \in Nat \ {0} /\ Item.end \in Nat /\ pos \in Nat /\ Place \in pos .. Item.end
        /\ Item.end - Place \in Nat /\ (Item.end - Place) % al = 0
        /\ todo = Words(al, Item.end - Place) /\ todo # <<>>
    BY <1>1, <1>5, <1>9, ReadingFacts DEF AtWord, Due
  <2>2. /\ Head(todo) = Basic(al) /\ Tail(todo) = Words(al, Item.end - Place - al)
        /\ Item.end - Place >= al /\ (Item.end - Place - al) % al = 0
    BY <2>1, WordList
  <2>3. N = al /\ N \in Nat /\ Head(todo).basic
    <3>1. Basic(al).n = al /\ Basic(al).basic
      BY CallNames
    <3>. QED  BY <2>1, <2>2, <3>1 DEF N
  <2>4. /\ Place + N <= file /\ Place' = Place + N /\ Good' /\ DestInv'
        /\ SP!Size' = SP!Size /\ BlocksFit' /\ WholeInWindow' /\ file' = file
        /\ cur % N = 0
        /\ setup.reader = "chunked" => call'.op = "fetch" /\ call'.n = N
        /\ setup.reader = "whole" => out' = [i \in 0 .. N - 1 |-> Place + i]
    BY <2>3, ReadMade
  <2>5. L!Aligned(pos, al)
    <3>1. /\ Good /\ BlocksFit /\ SP!Offset = Place /\ SP!Size = file
      BY <1>1, IdleFacts
    <3>2. MaxPrimitive % al = 0 /\ pos \in 0 .. Width - 1
      <4>1. Place \in 0 .. Width - 1 /\ Item.op \in Ops
        BY <1>5
      <4>2. pos \in 0 .. Width - 1
        <5>1. /\ Item.end \in Nat /\ pos \in Nat /\ Place \in pos .. Item.end
              /\ Place \in 0 .. Width - 1 /\ Width \in Nat
          BY <2>1, <4>1, SameSourceAssumption DEF SP!SourceAssumption
        <5>. QED  BY ONLY <5>1
      <4>. QED  BY <4>1, <4>2, TargetFacts
    <3>3. Place < file
      BY <1>5, <2>1, <2>3, <2>4
    <3>4. Place % al = 0
      BY <2>1, <2>3, <2>4, <3>1, <3>2, <3>3, CursorAligned
    <3>5. pos % al = 0
      BY <1>1, <1>9, <2>1, <3>4, WordPlace
    <3>. QED  BY <1>5, <3>2, <3>5, TargetFacts
  <2>6. AtWord'
    <3>. DEFINE e == Item.end
    <3>1. /\ al \in Nat \ {0} /\ e \in Nat /\ pos \in Nat /\ Place \in pos .. e
          /\ e - Place >= al /\ Place' = Place + al
      BY <2>1, <2>2, <2>3, <2>4
    <3>2. e - Place' = e - Place - al /\ Place' # pos /\ Place' \in pos .. e
      <4>. HIDE DEF al, e
      <4>. QED  BY ONLY <3>1
    <3>3. todo' = Words(al, Item.end - Place') /\ Place' # pos
      BY <1>1, <2>2, <3>2
    <3>4. Place' \in pos .. Item.end /\ (Item.end - Place') % al = 0
      BY <2>2, <3>2
    <3>5. setup.reader = "whole" => out' = [i \in 0 .. al - 1 |-> Place' - al + i]
      <4>1. Place' - al = Place
        BY <2>1, <2>3, <2>4
      <4>. QED  BY <2>3, <2>4, <4>1
    <3>6. WordRead'
      BY <1>3, <1>5, <2>3, <2>4, <2>5, <3>5 DEF WordRead
    <3>. QED  BY <1>3, <3>3, <3>4, <3>6 DEF AtWord, Words, Basic
  <2>7. Todo'
    BY <1>4, <1>9, <2>6 DEF Todo
  <2>8. ReadingInv'
    BY <2>4, <2>7 DEF ReadingInv
  <2>. QED  BY <1>1, <2>4, <2>8, ReadingFrame
<1>. QED  BY <1>2, <1>6, <1>7, <1>8, <1>9

\* Items are read in the file.
LEMMA PosInFile ==
  ASSUME ReaderInv, archive # "none"
  PROVE  pos \in 0 .. Width - 1 /\ pos <= file
<1>1. /\ pos = IF reads = 0 THEN 0 ELSE items[reads].end
      /\ pos \in Nat /\ reads \in Nat /\ file \in 0 .. Width - 1 /\ Width \in Nat
  BY SameSourceAssumption
  DEF ReaderInv, Control, Opened, OfFile,
      LP!LayoutInv, LP!ReadInv, LP!Boundary, LP!TypeOK, SP!SourceAssumption
<1>2. reads > 0 => items[reads].end <= file
  BY DEF ReaderInv, LossNoticed
<1>. QED  BY <1>1, <1>2

\* In a complete stream, what an item reads is there.
LEMMA InCompleteStream ==
  ASSUME ReaderInv, Idle, file = off, N \in Nat, Place + N <= off
  PROVE  /\ setup.reader = "chunked" => AdvanceAsserts
         /\ (Head(todo).basic => cur % N = 0) => ReadAsserts
<1>1. /\ Place = S!Offset /\ Place \in Nat /\ S!Size = file /\ S!Avail = SP!Avail
      /\ file \in Nat /\ setup.reader \in {"chunked", "whole"}
  BY ReadingFacts
<1>2. Good /\ SP!Offset = Place /\ WholeInWindow
  BY IdleFacts
<1>3. cur \in Nat /\ bloff \in Nat /\ SP!Offset = bloff + cur /\ SP!Avail = blsize - cur
  BY <1>2, GoodNumbers
<1>4. setup.reader = "whole" => N <= S!Avail
  BY <1>1, <1>2, <1>3 DEF WholeInWindow
<1>5. setup.reader = "chunked" => S!Offset + N <= S!Size
  BY <1>1
<1>6. setup.reader = "chunked" => AdvanceAsserts
  BY <1>5 DEF AdvanceAsserts
<1>7. (Head(todo).basic => cur % N = 0) => ReadAsserts
  BY <1>1, <1>4, <1>5 DEF ReadAsserts
<1>. QED  BY <1>6, <1>7

Cause ==
  \/ Item.op.kind = "object" /\ ~L!Aligned(Item.start, Word)
  \/ Item.op.kind = "vu" /\ ~L!Aligned(Item.start, Item.op.align)
  \/ setup.reader = "whole" /\ Head(todo).c = "advance" /\ 2 * S!Offset + N > off

\* Why a skip of a complete stream is refused.
LEMMA SkipRefused ==
  ASSUME ReaderInv, Due("advance"), ~AdvanceAsserts, file = off
  PROVE  Cause
<1>1. Idle /\ Head(todo).c = "advance"
  BY DEF Due
<1>2. \/ Item.op.kind = "value" /\ AtPad
      \/ Item.op.kind = "object" /\ AtSkip
  BY DueFacts
<1>3. /\ Place = S!Offset /\ Place \in Nat /\ S!Avail = SP!Avail /\ file \in Nat /\ off \in Nat
      /\ setup.reader \in {"chunked", "whole"}
      /\ pos \in Nat /\ Item.head \in Nat /\ Item.end \in Nat /\ Item.op.len \in Nat
      /\ Item.end <= off
      /\ Item.op.kind = "value" => Item.end = Item.head + Item.op.len
      /\ Item.op.kind = "object" => Item.end = Item.head + (Word + L!Skip(Item))
      /\ Item.garbage \in Nat /\ Item.name \in Nat
  BY <1>1, ReadingFacts
<1>4. N \in Nat /\ Place + N <= off
  <2>1. CASE Item.op.kind = "value" /\ AtPad
    <3>1. Head(todo) = Skip(Item.head - pos) /\ Place = pos /\ Item.head > pos
      BY <1>3, <2>1, TodoFacts DEF AtPad
    <3>2. N = Item.head - pos
      BY <3>1 DEF N, Skip
    <3>. QED  BY <1>3, <2>1, <3>1, <3>2
  <2>2. CASE Item.op.kind = "object" /\ AtSkip
    <3>1. PICK n \in Nat : Head(todo) = Skip(n) /\ L!Skip(Item) = Word + n
      BY <1>3, <2>2, TodoFacts
    <3>2. N = n
      BY <3>1 DEF N, Skip
    <3>3. Place = pos + 2 * Word /\ pos = Item.head
      BY <2>2 DEF AtSkip, FlagsRead
    <3>. QED  BY <1>3, <2>2, <3>1, <3>2, <3>3 DEF Word
  <2>. QED  BY <1>2, <2>1, <2>2
<1>5. setup.reader = "whole"
  BY <1>1, <1>3, <1>4, InCompleteStream
<1>6. S!Avail = file - Place
  <2>1. Good /\ bloff = 0 /\ blsize = file /\ SP!Offset = Place
    BY <1>1, <1>5, IdleFacts DEF WholeInWindow
  <2>. QED  BY <1>3, <2>1, GoodNumbers
<1>7. ~(Place + N <= file - Place)
  BY <1>3, <1>5, <1>6 DEF AdvanceAsserts
<1>8. 2 * S!Offset + N > off
  BY <1>3, <1>4, <1>7
<1>. QED  BY <1>1, <1>5, <1>8 DEF Cause

\* Why a read of a complete stream is refused.
LEMMA ReadRefused ==
  ASSUME ReaderInv, Due("read"), ~ReadAsserts, file = off
  PROVE  Cause
<1>1. Idle /\ Good /\ BlocksFit /\ SP!Offset = Place /\ SP!Size = file
      /\ LP!LayoutInv /\ pc = "read" /\ reads < Len(items)
  BY IdleFacts DEF Due
<1>2. \/ Item.op.kind = "value" /\ AtRead
      \/ Item.op.kind = "object" /\ AtFlags
      \/ Item.op.kind = "object" /\ AtLength
      \/ Item.op.kind = "vu" /\ AtWord
  BY DueFacts
<1>3. /\ Place \in 0 .. Width - 1 /\ file \in Nat /\ off \in Nat /\ Item.op \in Ops
      /\ setup.reader \in {"chunked", "whole"}
      /\ pos \in Nat /\ Item.head \in Nat /\ Item.end \in Nat /\ Item.op.len \in Nat
      /\ Item.end <= off
      /\ Item.op.kind # "vu" => Item.head = L!Target(pos, Item.op.align)
      /\ Item.op.kind = "value" => Item.end = Item.head + Item.op.len
      /\ Item.op.kind = "object" => /\ Item.end = Item.head + (Word + L!Skip(Item))
                                    /\ Item.op.align = Word
      /\ Item.garbage \in Nat /\ Item.name \in Nat /\ Item.start = pos /\ Place \in Nat
      /\ pos \in 0 .. Width - 1
  <2>1. (Item.op.kind # "vu" => Item.head = L!Target(pos, Item.op.align)) /\ Item.start = pos
    BY <1>1, ItemFacts
  <2>2. pos \in 0 .. Width - 1
    BY <1>1, PosInFile, IdleFacts
  <2>. QED  BY <1>1, <2>1, <2>2, ReadingFacts
<1>4. ASSUME NEW al \in Nat \ {0}, MaxPrimitive % al = 0, Place < file  PROVE cur % al = Place % al
  BY <1>1, <1>4, CursorAligned
<1>5. MaxPrimitive % Word = 0 /\ Word \in Nat \ {0} /\ Word = 4
  BY DEF MaxPrimitive, Word
<1>6. L!Skip(Item) \in Nat
  BY <1>3, SkipFacts DEF Word
<1>7. CASE Item.op.kind = "value" /\ AtRead
  <2>1. Head(todo) = ReadCall(Item) /\ Place = Item.head
    BY <1>3, <1>7, TodoFacts DEF AtRead
  <2>2. N = Item.op.len /\ (Head(todo).basic <=> Primitive(Item.op))
    <3>1. ReadCall(Item).n = Item.op.len /\ (ReadCall(Item).basic <=> Primitive(Item.op))
      BY CallNames
    <3>. QED  BY <2>1, <3>1 DEF N
  <2>3. N \in Nat /\ Place + N <= off
    BY <1>3, <1>7, <2>1, <2>2
  <2>4. Primitive(Item.op) => cur % N = 0
    <3>. SUFFICES ASSUME Primitive(Item.op) PROVE cur % N = 0
      OBVIOUS
    <3>1. N = Item.op.align
      BY <2>2 DEF Primitive
    <3>2. N \in Nat \ {0} /\ MaxPrimitive % N = 0
      BY <1>3, <3>1, TargetFacts
    <3>3. Place < file
      BY <1>3, <2>3, <3>2
    <3>4. Item.head % N = 0
      <4>1. pos \in 0 .. Width - 1 /\ Item.op \in Ops /\ Item.head = L!Target(pos, Item.op.align)
        BY <1>3, <1>7
      <4>. QED  BY <3>1, <4>1, TargetFacts
    <3>. QED  BY <1>4, <2>1, <3>2, <3>3, <3>4
  <2>5. ReadAsserts
    BY <1>1, <2>2, <2>3, <2>4, InCompleteStream
  <2>. QED  BY <2>5
<1>8. CASE Item.op.kind = "object" /\ AtFlags
  <2>1. Head(todo) = Basic(Word) /\ Place = pos
    BY <1>3, <1>8, TodoFacts DEF AtFlags
  <2>2. N = Word
    <3>1. Basic(Word).n = Word
      BY CallNames
    <3>. QED  BY <2>1, <3>1 DEF N
  <2>3. pos <= Item.head
    <3>1. pos \in 0 .. Width - 1 /\ Item.op \in Ops /\ Item.head = L!Target(pos, Item.op.align)
      BY <1>3, <1>8
    <3>. QED  BY <1>3, <3>1, TargetFacts
  <2>4. Place + N <= off /\ Place < file
    BY <1>3, <1>5, <1>6, <1>8, <2>1, <2>2, <2>3
  <2>5. cur % Word # 0
    BY <1>1, <1>5, <2>2, <2>4, InCompleteStream
  <2>6. pos % Word # 0
    BY <1>4, <1>5, <2>1, <2>4, <2>5
  <2>7. ~L!Aligned(pos, Word)
    <3>1. pos \in 0 .. Width - 1 /\ Item.op \in Ops /\ Item.op.align = Word
      BY <1>3, <1>8, <2>1
    <3>. QED  BY <2>6, <3>1, TargetFacts
  <2>. QED  BY <1>3, <1>8, <2>7 DEF Cause
<1>9. CASE Item.op.kind = "object" /\ AtLength
  <2>1. Head(todo) = Basic(Word) /\ Place = pos + Word /\ pos = Item.head /\ L!Aligned(pos, Word)
        /\ BehindFlags(Item) # <<>>
    BY <1>3, <1>9, TodoFacts DEF AtLength, FlagsRead
  <2>2. N = Word
    <3>1. Basic(Word).n = Word
      BY CallNames
    <3>. QED  BY <2>1, <3>1 DEF N
  <2>3. L!Skip(Item) >= Word
    BY <1>3, <2>1, SkipFacts DEF Word
  <2>4. Place + N <= off /\ Place < file
    <3>1. Item.end = pos + (Word + L!Skip(Item))
      BY <1>3, <1>9, <2>1
    <3>2. Place + N <= Item.end /\ Place < Item.end
      <4>. DEFINE e == Item.end
                  skip == L!Skip(Item)
      <4>1. /\ pos \in Nat /\ skip \in Nat /\ skip >= Word /\ Word = 4
            /\ Place = pos + Word /\ N = Word /\ e = pos + (Word + skip)
        BY <1>3, <1>5, <1>6, <2>1, <2>2, <2>3, <3>1
      <4>2. Place + N <= e /\ Place < e
        <5>. HIDE DEF e, skip
        <5>. QED  BY ONLY <4>1
      <4>. QED  BY <4>2
    <3>3. Place + N \in Nat
      BY <1>3, <1>5, <2>2
    <3>4. Item.end <= off /\ file = off /\ Item.end \in Nat /\ off \in Nat /\ Place \in Nat
      BY <1>3
    <3>. QED  BY <3>2, <3>3, <3>4
  <2>5. pos % Word = 0
    <3>1. pos \in 0 .. Width - 1 /\ Item.op \in Ops /\ Item.op.align = Word
      BY <1>3, <1>5, <1>9, <2>1
    <3>. QED  BY <2>1, <3>1, TargetFacts
  <2>6. cur % Word = 0
    <3>1. cur % Word = Place % Word
      BY <1>4, <1>5, <2>4
    <3>2. (pos + 4) % 4 = pos % 4
      BY <1>3
    <3>. QED  BY <1>5, <2>1, <2>5, <3>1, <3>2
  <2>7. ReadAsserts
    BY <1>1, <1>5, <2>2, <2>4, <2>6, InCompleteStream
  <2>. QED  BY <2>7
<1>10. CASE Item.op.kind = "vu" /\ AtWord
  <2>. DEFINE al == Item.op.align
  <2>1. /\ al \in Nat \ {0} /\ MaxPrimitive % al = 0 /\ Place \in pos .. Item.end
        /\ Item.end - Place \in Nat /\ (Item.end - Place) % al = 0
        /\ todo = Words(al, Item.end - Place) /\ todo # <<>>
    BY <1>1, <1>3, <1>10, ReadingFacts, TargetFacts DEF AtWord, Due
  <2>2. Head(todo) = Basic(al) /\ Item.end - Place >= al
    BY <2>1, WordList
  <2>3. N = al
    <3>1. Basic(al).n = al
      BY CallNames
    <3>. QED  BY <2>2, <3>1 DEF N
  <2>4. N \in Nat /\ Place + N <= off /\ Place < file
    <3>. DEFINE e == Item.end
    <3>1. /\ al \in Nat \ {0} /\ e \in Nat /\ Place \in Nat /\ off \in Nat /\ e <= off
          /\ e - Place >= al
      BY <1>3, <2>1, <2>2
    <3>2. al \in Nat /\ Place + al <= off /\ Place < off
      <4>. HIDE DEF al, e
      <4>. QED  BY ONLY <3>1
    <3>3. file = off
      OBVIOUS
    <3>. QED  BY <2>3, <3>2, <3>3
  <2>5. cur % al # 0
    BY <1>1, <2>3, <2>4, InCompleteStream
  <2>6. pos % al # 0
    BY <1>1, <1>4, <1>10, <2>1, <2>4, <2>5, WordPlace
  <2>7. ~L!Aligned(pos, al)
    BY <1>3, <2>6, TargetFacts
  <2>. QED  BY <1>3, <1>10, <2>7 DEF Cause
<1>. QED  BY <1>2, <1>7, <1>8, <1>9, <1>10

\* An assert stops the program.
LEMMA AbortStep ==
  ASSUME ReaderInv, Abort
  PROVE  ReaderInv'
<1>1. /\ Idle /\ archive = "reading" /\ archive' = "aborted" /\ UNCHANGED <<layout, source, todo, out>>
      /\ \/ Due("advance") /\ ~AdvanceAsserts
         \/ Due("read") /\ ~ReadAsserts
  BY DEF Abort, Due, Idle
<1>2. /\ LP!LayoutInv' /\ ItemsInStream' /\ UNCHANGED <<setup, items, op, start, off, pc, reads, pos>>
  BY <1>1, LayoutStays
<1>3. file = off => Cause
  BY <1>1, SkipRefused, ReadRefused
<1>4. /\ UNCHANGED <<kind, file, bloff, blsize, data, block, call>>
      /\ SP!Size' = SP!Size /\ SP!Offset' = SP!Offset /\ (BlocksFit => BlocksFit')
  <2>1. UNCHANGED <<kind, file, bloff, blsize, data, block, call>>
    BY <1>1 DEF source
  <2>2. SP!Size' = SP!Size /\ SP!Offset' = SP!Offset /\ (BlocksFit => BlocksFit')
    BY <1>1, SourceStays
  <2>. QED  BY <2>1, <2>2
<1>5. Item' = Item /\ S!Offset' = S!Offset /\ N' = N
  BY <1>1, <1>2, <1>4, SamePlace DEF Item, N
<1>6. RefusedForACause'
  BY <1>1, <1>2, <1>3, <1>4, <1>5 DEF RefusedForACause, Cause
<1>7. Control'
  BY <1>1, <1>2 DEF ReaderInv, Control
<1>8. Opened'
  BY <1>1, <1>2, <1>4 DEF ReaderInv, Opened, Opening, OfFile, WholeInWindow
<1>9. LossNoticed'
  BY <1>1, <1>2, <1>4 DEF ReaderInv, LossNoticed
<1>. QED  BY <1>1, <1>2, <1>6, <1>7, <1>8, <1>9 DEF ReaderInv, OpenInv, ReadingInv, AstrayInv

\* A round of a call does not change what the call is for.
LEMMA TodoKept ==
  ASSUME ReaderInv, Todo, UNCHANGED layout, UNCHANGED <<todo, out, call.op, call.n>>, Place' = Place
  PROVE  Todo' /\ (SkipsPrefix => SkipsPrefix')
<1>1. /\ UNCHANGED <<setup, items, reads, off, pos>> /\ Item' = Item
      /\ BehindFlags(Item)' = BehindFlags(Item) /\ L!Skip(Item)' = L!Skip(Item)
      /\ ReadCall(Item)' = ReadCall(Item)
      /\ FlagsRead' = FlagsRead /\ Aligning' = Aligning
  BY ItemStays
<1>2. SkipsPrefix => SkipsPrefix'
  BY <1>1 DEF SkipsPrefix
<1>3. /\ AtAlign' = AtAlign /\ AtPad' = AtPad
  BY <1>1 DEF AtAlign, AtPad, AlignCall, Skip
<1>4. AtRead' = AtRead
  BY <1>1 DEF AtRead
<1>5. HasRead' = HasRead
  BY <1>1 DEF HasRead
<1>6. AtLength' = AtLength /\ AtSkip' = AtSkip
  BY <1>1 DEF AtLength, AtSkip
<1>7. AtFlags' = AtFlags
  BY <1>1 DEF AtFlags, Calls, AlignCall, ReadCall, BehindFlags, L!Padded, L!Named
<1>8. HasSkipped' = HasSkipped
  BY <1>1 DEF HasSkipped, L!AdvanceAsserts
<1>9. Item.op.kind' = Item.op.kind
  BY <1>1
<1>10. AtWord' = AtWord
  BY <1>1 DEF AtWord, WordRead, Words, Basic
<1>. QED  BY <1>2, <1>3, <1>4, <1>5, <1>6, <1>7, <1>8, <1>9, <1>10 DEF Todo, ValueTodo, ObjectTodo

\* A round of a call on the source.
LEMMA SourceRound ==
  ASSUME ReaderInv, SourceStep, NoWrap
  PROVE  ReaderInv'
<1>1. /\ archive = "reading" /\ archive' = archive /\ UNCHANGED layout /\ UNCHANGED <<todo, out>>
      /\ SP!Step
  BY SameFetch DEF SourceStep, reader, S!Step, SP!Step
<1>2. /\ Good \/ ((Left \/ Gone) /\ SkipsPrefix)
      /\ Todo /\ DestInv /\ SP!Size = file /\ BlocksFit /\ WholeInWindow
  BY <1>1 DEF ReaderInv, ReadingInv, Opened, Opening
<1>3. source_pc # "idle" /\ (source_pc = "advance" => SP!AdvanceStep)
  <2>1. SP!FetchTop => source_pc = "top"
    BY DEF SP!FetchTop
  <2>2. SP!FetchCopy \/ SP!FetchFault => source_pc = "copy"
    BY DEF SP!FetchCopy, SP!FetchFault
  <2>3. SP!FetchRefill => source_pc = "refill"
    BY DEF SP!FetchRefill
  <2>4. SP!AdvanceStep => source_pc = "advance"
    BY DEF SP!AdvanceStep
  <2>. QED  BY <1>1, <2>1, <2>2, <2>3, <2>4 DEF SP!Step
<1>4. ~Gone
  BY <1>3 DEF Gone
<1>5. SP!SourceInv
  BY <1>2, <1>4 DEF Good, SP!ContentInv, Left, SkipOver
<1>6. /\ UNCHANGED <<call.op, call.n, call.start>>
      /\ call.op = "fetch" \/ (call.op = "advance" /\ SP!AdvanceStep)
      /\ call.op = "advance" => UNCHANGED <<call, dest>>
  BY <1>1, <1>5, RoundCall
<1>7. Place' = Place
  BY <1>6 DEF Place
<1>8. Todo' /\ (SkipsPrefix => SkipsPrefix')
  BY <1>1, <1>2, <1>6, <1>7, TodoKept
<1>9. Good' \/ ((Left' \/ Gone') /\ SkipsPrefix')
  <2>1. CASE Good
    BY <1>1, <2>1, GoodStep
  <2>2. CASE Left /\ SkipsPrefix
    <3>1. SP!AdvanceStep
      BY <1>3, <2>2 DEF Left
    <3>2. Left' \/ Gone' \/ Good'
      BY <2>2, <3>1, LeftStep
    <3>. QED  BY <1>8, <2>2, <3>2
  <2>. QED  BY <1>2, <1>4, <2>1, <2>2
<1>10. DestInv'
  <2>. SUFFICES ASSUME call.op = "fetch" PROVE dest' = [i \in 0 .. call.n - 1 |-> dest'[i]]
    BY <1>6 DEF DestInv
  <2>1. dest = [i \in 0 .. call.n - 1 |-> dest[i]] /\ DOMAIN dest = 0 .. call.n - 1
    BY <1>2 DEF DestInv
  <2>2. dest' = dest \/ \E f : dest' = [i \in DOMAIN dest |-> f[i]]
    <3>1. CASE SP!FetchCopy
      <4>1. dest' = [i \in DOMAIN dest |-> IF i < SP!Capped THEN SP!Byte(cur + i) ELSE dest[i]]
        BY <3>1 DEF SP!FetchCopy, SP!Copied
      <4>2. dest' = [i \in DOMAIN dest |-> dest'[i]]
        BY <4>1
      <4>. QED  BY <4>2
    <3>2. CASE ~SP!FetchCopy
      BY <1>1, <3>2 DEF SP!Step, SP!FetchTop, SP!FetchFault, SP!FetchRefill, SP!AdvanceStep
    <3>. QED  BY <3>1, <3>2
  <2>. QED  BY <2>1, <2>2
<1>11. UNCHANGED <<kind, file, size, block>> /\ SP!Size' = SP!Size
  BY <1>1, RoundFrame
<1>12. BlocksFit'
  BY <1>2, <1>11 DEF BlocksFit
<1>13. setup' = setup
  BY <1>1, LayoutStays
<1>14. WholeInWindow'
  <2>. SUFFICES ASSUME setup.reader = "whole"
                PROVE  bloff' = 0 /\ blsize' = file /\ data' = 0 /\ call'.op # "fetch"
    BY <1>11, <1>13 DEF WholeInWindow
  <2>1. bloff = 0 /\ blsize = file /\ data = 0 /\ call.op # "fetch"
    BY <1>2 DEF WholeInWindow
  <2>2. SP!AdvanceStep /\ Good
    BY <1>2, <1>6, <2>1 DEF SkipsPrefix
  <2>3. UNCHANGED <<bloff, blsize, data>>
    BY <2>2, GoodSkip
  <2>. QED  BY <1>6, <2>1, <2>3
<1>15. ReadingInv'
  BY <1>8, <1>9, <1>10 DEF ReadingInv
<1>. QED  BY <1>1, <1>11, <1>12, <1>14, <1>15, ReadingFrame

\* A reader that misses its place has skipped over the prefix of an object.
LEMMA AstrayStep ==
  ASSUME ReaderInv, Astray
  PROVE  ReaderInv'
<1>1. /\ archive = "reading" /\ source_pc = "idle" /\ Missed /\ archive' = "astray"
      /\ UNCHANGED <<layout, source, todo, out>>
  BY DEF Astray
<1>2. /\ (Good \/ ((Left \/ Gone) /\ SkipsPrefix)) /\ Todo /\ SP!Size = file
      /\ OfFile /\ LP!LayoutInv /\ pc = "read" /\ reads < Len(items)
  <2>1. (Good \/ ((Left \/ Gone) /\ SkipsPrefix)) /\ Todo
    BY <1>1 DEF ReaderInv, ReadingInv
  <2>2. /\ SP!Size = file /\ OfFile /\ LP!LayoutInv /\ pc = "read" /\ reads < Len(items)
    BY <1>1 DEF ReaderInv, Control, Opened, Opening
  <2>. QED  BY <2>1, <2>2
<1>3. Width \in Nat /\ file \in 0 .. Width - 1
  BY <1>2, SameSourceAssumption DEF OfFile, SP!SourceAssumption
<1>4. call.op # "none" /\ SP!Offset # S!WAdd(call.start, call.n)
  BY <1>1, SamePlace DEF Missed
<1>5. ~Good
  <2>. SUFFICES ASSUME Good PROVE FALSE
    OBVIOUS
  <2>1. /\ SP!Offset = call.start + call.n /\ call.start + call.n <= SP!Size
    BY <1>1, <1>4 DEF Good
  <2>2. call.n \in Nat /\ call.start \in Nat
    BY GoodNumbers
  <2>3. S!WAdd(call.start, call.n) = call.start + call.n
    BY <1>2, <1>3, <2>1, <2>2 DEF S!WAdd
  <2>. QED  BY <1>4, <2>1, <2>3
<1>6. Gone /\ SkipsPrefix
  <2>1. ~Left
    BY <1>1 DEF Left
  <2>. QED  BY <1>1, <1>2, <1>5, <2>1 DEF ReaderInv, ReadingInv
<1>7. Place = call.start + call.n /\ Place <= file
  BY <1>2, <1>4, <1>6 DEF Place, Gone, SkipOver
<1>8. Place = Item.end
  <2>1. Item.garbage \in Nat /\ Item.name \in Nat /\ Item.op.kind = "object" /\ todo = <<>>
    BY <1>2, <1>6, ItemFacts DEF SkipsPrefix
  <2>2. ~AtFlags /\ ~AtLength /\ ~AtSkip
    BY <2>1, TodoFacts
  <2>3. HasSkipped
    BY <1>2, <2>1, <2>2 DEF Todo, ObjectTodo
  <2>. QED  BY <2>3 DEF HasSkipped
<1>9. /\ LP!LayoutInv' /\ ItemsInStream' /\ UNCHANGED <<setup, items, op, start, off, pc, reads, pos>>
  BY <1>1, LayoutStays
<1>10. Item' = Item
  BY <1>9 DEF Item
<1>11. UNCHANGED <<kind, file, bloff, blsize, data, block, call>>
  BY <1>1 DEF source
<1>12. SP!Size' = SP!Size /\ Place' = Place /\ (BlocksFit => BlocksFit') /\ Gone'
  BY <1>1, <1>6, SourceStays
<1>13. AstrayInv'
  BY <1>1, <1>6, <1>8, <1>9, <1>10, <1>12 DEF AstrayInv, SkipsPrefix
<1>14. LossNoticed'
  BY <1>1, <1>7, <1>8, <1>9, <1>10, <1>11 DEF ReaderInv, LossNoticed
<1>15. Control'
  BY <1>1, <1>9 DEF ReaderInv, Control
<1>16. Opened'
  BY <1>1, <1>9, <1>11, <1>12 DEF ReaderInv, Opened, Opening, OfFile, WholeInWindow
<1>. QED  BY <1>1, <1>9, <1>13, <1>14, <1>15, <1>16 DEF ReaderInv, OpenInv, ReadingInv, RefusedForACause

\* Everything has been read.
LEMMA DoneStep ==
  ASSUME ReaderInv, Done
  PROVE  ReaderInv'
<1>1. archive = "open" /\ LP!Done /\ UNCHANGED <<source, reader>>
  BY SameWriter DEF Done
<1>2. LP!LayoutInv'
  BY <1>1, SameLayoutAssumption, LP!DoneStep DEF ReaderInv
<1>3. pc' = "done" /\ UNCHANGED <<setup, items, op, start, off, reads, pos>>
  BY <1>1 DEF LP!Done
<1>4. UNCHANGED <<archive, todo, out>>
  BY <1>1 DEF reader
<1>5. UNCHANGED <<kind, file, bloff, blsize, data, block, call, dest, source_pc>>
  BY <1>1 DEF source
<1>6. /\ SP!Size' = SP!Size /\ SP!Offset' = SP!Offset /\ (BlocksFit => BlocksFit')
      /\ (Good => Good') /\ (DestInv => DestInv')
  BY <1>1, SourceStays
<1>7. ItemsInStream'
  BY <1>3 DEF ReaderInv, ItemsInStream
<1>8. Got' = Got /\ ValuesDelivered' = ValuesDelivered
  <2>1. Got' = Got
    BY <1>3, <1>4, <1>5 DEF Got
  <2>2. \A it : InBlock(it)' = InBlock(it)
    BY <1>3, <1>5 DEF InBlock
  <2>. QED  BY <1>3, <1>4, <1>5, <2>1 DEF ValuesDelivered, InBlock
<1>9. OpenInv'
  BY <1>1, <1>3, <1>4, <1>5, <1>6, <1>8 DEF ReaderInv, OpenInv
<1>10. Control'
  BY <1>1, <1>3, <1>4 DEF ReaderInv, Control
<1>11. Opened'
  BY <1>1, <1>3, <1>4, <1>5, <1>6 DEF ReaderInv, Opened, Opening, OfFile, WholeInWindow
<1>12. LossNoticed'
  BY <1>1, <1>3, <1>4, <1>5 DEF ReaderInv, LossNoticed
<1>. QED  BY <1>1, <1>2, <1>4, <1>7, <1>9, <1>10, <1>11, <1>12
          DEF ReaderInv, ReadingInv, AstrayInv, RefusedForACause

-----------------------------------------------------------------------------
(* The end of an item.                                                     *)

\* An item that is read is a read of the layout.
LEMMA EndReads ==
  ASSUME ReaderInv, EndItem
  PROVE  /\ L!ReadValue \/ L!ReadVu \/ L!ReadObject
         /\ Place = Item.end /\ pos' = Item.end /\ reads' = reads + 1
         /\ Item.op.kind = "value" => HasRead
         /\ Item.op.kind = "vu" => WordRead
<1>1. /\ Idle /\ todo = <<>> /\ reads' = reads + 1 /\ pos' = S!Offset
      /\ UNCHANGED <<setup, items, op, start, off, pc>>
  BY DEF EndItem
<1>2. \/ Item.op.kind = "value" /\ HasRead
      \/ Item.op.kind = "object" /\ HasSkipped
      \/ Item.op.kind = "vu" /\ AtWord
  BY <1>1, DueFacts
<1>3. /\ pc = "read" /\ reads < Len(items) /\ L!Item = Item
  BY <1>1, IdleFacts, SameItem
<1>4. /\ Place = S!Offset /\ pos \in Nat /\ Item.head \in Nat /\ Item.op.len \in Nat
      /\ Item.op.kind = "value" => Item.head = L!Target(pos, Item.op.align)
      /\ Item.op.kind = "value" => Item.end = Item.head + Item.op.len
      /\ Item.op.kind = "object" => Item.end = Item.head + (Word + L!Skip(Item))
      /\ Item.op.kind = "vu" => /\ Item.head = pos /\ Item.end = pos + Item.op.len
                                /\ Item.op.len # 0
      /\ Item.garbage \in Nat /\ Item.name \in Nat /\ Item.end <= off
      /\ Item.op.align \in Nat \ {0} /\ Item.end \in Nat
  BY <1>1, <1>2, ReadingFacts
<1>5. Item.op.kind = "vu" /\ AtWord => Place = Item.end
  <2>. SUFFICES ASSUME Item.op.kind = "vu", AtWord PROVE Place = Item.end
    OBVIOUS
  <2>1. Item.end - Place \in Nat /\ (Item.end - Place) % Item.op.align = 0 /\ Place \in Nat
    BY <1>4 DEF AtWord
  <2>2. Item.end - Place = 0
    BY <1>1, <1>4, <2>1, WordList DEF AtWord
  <2>. DEFINE e == Item.end
  <2>3. e \in Nat /\ Place \in Nat /\ e - Place = 0
    BY <1>4, <2>1, <2>2
  <2>4. Place = e
    <3>. HIDE DEF e
    <3>. QED  BY ONLY <2>3
  <2>. QED  BY <2>4
<1>6. Place = Item.end
  BY <1>2, <1>5 DEF HasRead, HasSkipped
<1>7. CASE Item.op.kind = "value" /\ HasRead
  <2>. DEFINE p  == L!Target(pos, L!Item.op.align)
              ok == /\ p # pos => L!AdvanceAsserts(pos, p - pos)
                    /\ L!ReadAsserts(p, L!Item.op.len)
  <2>1. p = Item.head /\ p + L!Item.op.len = Item.end
    BY <1>3, <1>4, <1>7
  <2>2. ok
    <3>1. p # pos => L!AdvanceAsserts(pos, p - pos)
      BY <1>7, <2>1 DEF HasRead, Aligning
    <3>2. L!ReadAsserts(p, L!Item.op.len)
      BY <1>7, <2>1 DEF HasRead, L!ReadAsserts
    <3>. QED  BY <3>1, <3>2
  <2>3. pos' = p + L!Item.op.len
    BY <1>1, <1>4, <1>6, <2>1
  <2>. HIDE DEF ok
  <2>4. L!Outcome(ok, p, p + L!Item.op.len)
    BY <1>1, <1>3, <2>1, <2>2, <2>3 DEF L!Outcome
  <2>5. L!ReadValue
    BY <1>1, <1>3, <1>7, <2>4 DEF L!ReadValue, ok
  <2>. QED  BY <1>1, <1>4, <1>6, <1>7, <2>5
<1>8. CASE Item.op.kind = "object" /\ HasSkipped
  <2>. DEFINE skip == L!Skip(L!Item)
              ok   == /\ L!ReadAsserts(pos, L!Word) /\ L!AlignAssert(pos, L!Word)
                      /\ skip > 0 => L!AdvanceAsserts(pos + 2 * L!Word, skip - L!Word)
  <2>1. /\ pos = Item.head /\ L!Aligned(pos, Word) /\ pos + Word <= off /\ L!Word = Word
        /\ skip > 0 => L!AdvanceAsserts(pos + 2 * L!Word, skip - L!Word)
    BY <1>3, <1>8 DEF HasSkipped, FlagsRead, L!Word, Word
  <2>2. ok
    BY <2>1 DEF L!ReadAsserts, L!AlignAssert
  <2>3. pos' = pos + L!Word + skip
    <3>1. skip \in Nat /\ Item.end = pos + (Word + skip)
      BY <1>3, <1>4, <1>8, <2>1, SkipFacts DEF Word
    <3>2. pos' = pos + (Word + skip) /\ L!Word = Word /\ Word = 4
      BY <1>1, <1>4, <1>6, <2>1, <3>1 DEF Word
    <3>. HIDE DEF skip
    <3>. QED  BY <1>4, <3>1, <3>2
  <2>. HIDE DEF ok, skip
  <2>4. L!Outcome(ok, pos, pos + L!Word + skip)
    BY <1>1, <1>3, <2>1, <2>2, <2>3 DEF L!Outcome
  <2>5. L!ReadObject
    BY <1>1, <1>3, <1>8, <2>4 DEF L!ReadObject, ok, skip
  <2>. QED  BY <1>1, <1>4, <1>6, <1>8, <2>5
<1>9. CASE Item.op.kind = "vu" /\ AtWord
  <2>. DEFINE ok == L!ReadAsserts(pos, L!Item.op.len) /\ L!AlignAssert(pos, L!Item.op.align)
  <2>1. WordRead
    BY <1>4, <1>6, <1>9 DEF AtWord
  <2>2. ok
    BY <1>3, <1>4, <1>9, <2>1 DEF WordRead, L!ReadAsserts, L!AlignAssert
  <2>3. pos' = pos + L!Item.op.len /\ pos = L!Item.head
    BY <1>1, <1>3, <1>4, <1>6, <1>9
  <2>. HIDE DEF ok
  <2>4. L!Outcome(ok, pos, pos + L!Item.op.len)
    BY <1>1, <1>3, <2>2, <2>3 DEF L!Outcome
  <2>5. L!ReadVu
    BY <1>1, <1>3, <1>9, <2>4 DEF L!ReadVu, ok
  <2>. QED  BY <1>1, <1>4, <1>6, <1>9, <2>1, <2>5
<1>. QED  BY <1>2, <1>7, <1>8, <1>9

\* What a fetch in one window has delivered.
LEMMA FetchedInWindow ==
  ASSUME Good, source_pc = "idle", call.op = "fetch", SP!OneWindow, DestInv
  PROVE  dest = [i \in 0 .. call.n - 1 |-> call.start + i]
<1>1. /\ SP!SourceInv /\ SP!DeliveryInv /\ SP!Offset = call.start + call.n
  BY DEF Good, SP!ContentInv
<1>2. /\ Width \in Nat \ {0} /\ call.n \in Nat /\ call.start \in Nat /\ call.copied \in 0 .. call.n
      /\ SP!Offset \in 0 .. Width - 1
  BY GoodNumbers
<1>3. SP!Offset = SP!WAdd(call.start, call.copied)
  BY <1>1 DEF SP!SourceInv, SP!FetchAccounting
<1>4. call.start + call.copied \in 0 .. Width - 1
  BY <1>1, <1>2
<1>5. call.copied = call.n
  BY <1>1, <1>2, <1>3, <1>4 DEF SP!WAdd
<1>6. SP!Delivered
  BY <1>1 DEF SP!DeliveryInv
<1>7. dest = [i \in 0 .. call.n - 1 |-> dest[i]]
  BY DEF DestInv
<1>8. \A i \in 0 .. call.n - 1 : dest[i] = call.start + i
  <2>1. DOMAIN dest = 0 .. call.n - 1
    BY <1>7
  <2>2. \A i \in 0 .. call.n - 1 : i < call.copied
    BY <1>2, <1>5
  <2>. QED  BY <1>6, <2>1, <2>2 DEF SP!Delivered
<1>. QED  BY <1>7, <1>8

\* A fetch that stays in a block is one of one window, and so is that of a
\* primitive, wherever the windows end.
LEMMA FetchInBlock ==
  ASSUME Good, BlocksFit, call.op = "fetch",
         \/ block = 0 \/ (call.start % block) + call.n <= block
         \/ call.n # 0 /\ MaxPrimitive % call.n = 0 /\ call.start % call.n = 0
  PROVE  SP!OneWindow
<1>1. /\ kind \in {"buffer", "istream", "mmap"} /\ call.start \in Nat /\ call.n \in Nat
      /\ block \in Nat /\ file \in Nat /\ ~SP!Overlong
  BY GoodNumbers DEF Good
<1>2. CASE SP!WholeSource
  BY <1>2 DEF SP!OneWindow
<1>3. CASE ~SP!WholeSource
  <2>1. block > 0
    <3>1. kind = "istream" => (block = 0 => file = 0)
      BY GoodNumbers DEF SP!StreamInv, SP!IstreamWindow
    <3>. QED  BY <1>1, <1>3, <3>1 DEF SP!WholeSource
  <2>2. block % MaxPrimitive = 0
    BY <1>1, <1>3 DEF BlocksFit, SP!WholeSource
  <2>3. (call.start % block) + call.n <= block
    BY <1>1, <2>1, <2>2, PrimitiveInBlock
  <2>. QED  BY <1>1, <2>1, <2>3 DEF SP!OneWindow
<1>. QED  BY <1>2, <1>3

\* What the last read has delivered, if it was of a primitive, or stays in a block.
LEMMA LastRead ==
  ASSUME ReaderInv, Idle, setup.reader = "chunked", call.op = "fetch",
         \/ block = 0 \/ (call.start % block) + call.n <= block
         \/ call.n # 0 /\ MaxPrimitive % call.n = 0 /\ call.start % call.n = 0
  PROVE  Got = [i \in 0 .. call.n - 1 |-> call.start + i]
<1>1. Good /\ BlocksFit /\ source_pc = "idle" /\ DestInv
  BY IdleFacts DEF ReaderInv, ReadingInv
<1>2. SP!OneWindow
  BY <1>1, FetchInBlock
<1>. QED  BY <1>1, <1>2, FetchedInWindow DEF Got

\* A value has been read, and so has the last word of a vu.
LEMMA ValueRead ==
  ASSUME ReaderInv, Idle, Item.op.kind = "value", HasRead, Primitive(Item.op) \/ InBlock(Item)
  PROVE  Got = [i \in 0 .. Item.op.len - 1 |-> Item.head + i]
<1>1. CASE setup.reader = "whole"
  BY <1>1 DEF HasRead, Got
<1>2. CASE setup.reader = "chunked"
  <2>1. /\ call.op = "fetch" /\ call.n = Item.op.len /\ Place = Item.end /\ setup.reader # "whole"
    BY <1>2 DEF HasRead
  <2>2. /\ Item.end = Item.head + Item.op.len /\ Item.head \in Nat /\ Item.op.len \in Nat
        /\ Item.op \in Ops /\ Item.head = L!Target(pos, Item.op.align) /\ Item.op.align \in Nat \ {0}
    BY ReadingFacts
  <2>3. call.start \in Nat /\ block \in Nat /\ archive # "none"
    BY IdleFacts, GoodNumbers
  <2>4. call.start = Item.head
    BY <2>1, <2>2, <2>3 DEF Place
  <2>5. Primitive(Item.op) =>
          call.n # 0 /\ MaxPrimitive % call.n = 0 /\ call.start % call.n = 0
    BY <2>1, <2>2, <2>3, <2>4, PosInFile, TargetFacts DEF Primitive
  <2>6. InBlock(Item) => block = 0 \/ (call.start % block) + call.n <= block
    BY <1>2, <2>1, <2>4 DEF InBlock
  <2>. QED  BY <1>2, <2>1, <2>4, <2>5, <2>6, LastRead
<1>. QED  BY <1>1, <1>2, ReadingFacts

LEMMA LastWordRead ==
  ASSUME ReaderInv, Idle, Item.op.kind = "vu", WordRead, Place = Item.end
  PROVE  Got = [i \in 0 .. Item.op.align - 1 |-> Item.end - Item.op.align + i]
<1>1. CASE setup.reader = "whole"
  BY <1>1 DEF WordRead, Got
<1>2. CASE setup.reader = "chunked"
  <2>. DEFINE al == Item.op.align
  <2>1. call.op = "fetch" /\ call.n = al /\ setup.reader # "whole" /\ L!Aligned(pos, al)
    BY <1>2 DEF WordRead
  <2>2. /\ Item.end = pos + Item.op.len /\ Item.op.len \in Nat /\ Item.op.len % al = 0
        /\ Item.op \in Ops /\ al \in Nat \ {0} /\ pos \in Nat /\ Item.end \in Nat
    BY ReadingFacts
  <2>3. call.start \in Nat /\ archive # "none"
    BY IdleFacts, GoodNumbers
  <2>4. call.start + al = Item.end
    BY <2>1, <2>3 DEF Place
  <2>5. call.start = Item.end - al
    BY <2>2, <2>3, <2>4
  <2>6. pos % al = 0 /\ MaxPrimitive % al = 0
    BY <2>1, <2>2, <2>3, PosInFile, TargetFacts
  <2>7. call.start % al = 0
    <3>1. (pos + Item.op.len) % al = 0
      BY <2>2, <2>6, SP!MultipleSum, SameSourceAssumption
    <3>2. al % al = 0
      BY <2>2
    <3>3. (al + call.start) % al = call.start % al
      BY <2>2, <2>3, <3>2, MultipleShift
    <3>. QED  BY <2>2, <2>3, <2>4, <3>1, <3>3
  <2>8. Got = [i \in 0 .. call.n - 1 |-> call.start + i]
    BY <1>2, <2>1, <2>2, <2>6, <2>7, LastRead
  <2>. QED  BY <2>1, <2>5, <2>8
<1>. QED  BY <1>1, <1>2, ReadingFacts

\* An item has been read, and leaves the reader where the writer was behind it.
LEMMA EndItemStep ==
  ASSUME ReaderInv, EndItem
  PROVE  ReaderInv'
<1>1. /\ Idle /\ todo = <<>> /\ archive' = "open" /\ pos' = S!Offset
      /\ UNCHANGED <<setup, items, op, start, off, pc, source, todo, out>>
  BY DEF EndItem
<1>2. /\ L!ReadValue \/ L!ReadVu \/ L!ReadObject
      /\ Place = Item.end /\ pos' = Item.end /\ reads' = reads + 1
      /\ Item.op.kind = "value" => HasRead
      /\ Item.op.kind = "vu" => WordRead
  BY EndReads
<1>3. /\ Good /\ SP!Offset = Place /\ source_pc = "idle" /\ archive = "reading"
      /\ pc = "read" /\ reads < Len(items) /\ LP!LayoutInv
      /\ OfFile /\ SP!Size = file /\ BlocksFit /\ WholeInWindow
  BY <1>1, IdleFacts
<1>4. LP!LayoutInv'
  BY <1>2, <1>3, SameReader, SameLayoutAssumption, LP!ReadValueStep, LP!ReadVuStep, LP!ReadObjectStep
<1>5. UNCHANGED <<kind, file, bloff, blsize, data, block, call, dest, source_pc>>
  BY <1>1 DEF source
<1>6. /\ SP!Size' = SP!Size /\ SP!Offset' = SP!Offset /\ BlocksFit' /\ Good'
      /\ (DestInv => DestInv')
  BY <1>1, <1>3, SourceStays
<1>7. DestInv'
  BY <1>3, <1>6 DEF ReaderInv, ReadingInv
<1>8. items'[reads'] = Item
  BY <1>1, <1>2 DEF Item
<1>9. Place <= file
  BY <1>1, ReadingFacts
<1>10. /\ Item.op.kind = "value" /\ (Primitive(Item.op) \/ InBlock(Item)) =>
            Got = [i \in 0 .. Item.op.len - 1 |-> Item.head + i]
       /\ Item.op.kind = "vu" =>
            Got = [i \in 0 .. Item.op.align - 1 |-> Item.end - Item.op.align + i]
  BY <1>1, <1>2, ValueRead, LastWordRead
<1>11. Got' = Got
  BY <1>1, <1>5 DEF Got
<1>12. ValuesDelivered'
  BY <1>1, <1>5, <1>8, <1>10, <1>11 DEF ValuesDelivered, InBlock
<1>13. OpenInv'
  BY <1>1, <1>2, <1>3, <1>5, <1>6, <1>7, <1>12, SamePlace DEF OpenInv
<1>14. LossNoticed'
  BY <1>1, <1>2, <1>5, <1>8, <1>9 DEF LossNoticed
<1>15. ItemsInStream'
  BY <1>1 DEF ReaderInv, ItemsInStream
<1>16. Control'
  BY <1>1, <1>3 DEF Control
<1>17. Opened'
  BY <1>1, <1>3, <1>5, <1>6 DEF Opened, Opening, OfFile, WholeInWindow
<1>. QED  BY <1>1, <1>4, <1>13, <1>14, <1>15, <1>16, <1>17
          DEF ReaderInv, ReadingInv, AstrayInv, RefusedForACause

-----------------------------------------------------------------------------
(* The theorems.                                                           *)

\* A skip that has left its window, when nothing happens.
LEMMA LeftStays ==
  ASSUME UNCHANGED source, Left  PROVE Left'
<1>1. /\ UNCHANGED <<kind, file, bloff, blsize, cur, data, size, block, stream, fds, maps,
                     source_pc, call, dest>>
  BY DEF source
<1>2. ec' = ec /\ fd' = fd
  BY DEF source
<1>3. SP!SourceInv'
  <2>1. UNCHANGED SP!vars
    BY <1>1, <1>2 DEF SP!vars, SP!window, SP!resources
  <2>. QED  BY <2>1, SP!StepInv, SameSourceAssumption DEF Left, SkipOver
<1>4. /\ SP!Offset' = SP!Offset /\ SP!Size' = SP!Size
      /\ SP!Broken' = SP!Broken /\ SP!Overlong' = SP!Overlong
  BY <1>1 DEF SP!Offset, SP!Size, SP!WAdd, SP!Broken, SP!Overlong
<1>5. SP!StreamInv => SP!StreamInv'
  <2>1. (ec' => ec \/ kind = "mmap") /\ UNCHANGED <<kind, file, SP!window, size, block, stream, fd>>
    BY <1>1, <1>2 DEF SP!window
  <2>. QED  BY <2>1, SP!StreamStays, SameSourceAssumption
<1>6. SkipOver'
  BY <1>1, <1>2, <1>3, <1>4 DEF Left, SkipOver
<1>7. (FirstRound => FirstRound') /\ (LaterRound => LaterRound')
  BY <1>1, <1>4, <1>5 DEF FirstRound, LaterRound
<1>. QED  BY <1>1, <1>2, <1>6, <1>7 DEF Left

\* Nothing happens.
LEMMA StutterStep ==
  ASSUME ReaderInv, UNCHANGED vars
  PROVE  ReaderInv'
<1>1. UNCHANGED layout /\ UNCHANGED source /\ UNCHANGED <<archive, todo, out>>
  BY DEF vars, reader
<1>2. /\ LP!LayoutInv' /\ ItemsInStream' /\ UNCHANGED <<setup, items, op, start, off, pc, reads, pos>>
  BY <1>1, LayoutStays
<1>3. UNCHANGED <<kind, file, bloff, blsize, cur, data, size, block, stream, fds, maps,
                  source_pc, call, dest>>
  BY <1>1 DEF source
<1>4. ec' = ec /\ fd' = fd
  BY <1>1 DEF source
<1>5. /\ Place' = Place /\ SP!Size' = SP!Size /\ SP!Offset' = SP!Offset
      /\ (DestInv => DestInv') /\ (BlocksFit => BlocksFit')
      /\ (Good => Good') /\ (Gone => Gone')
  BY <1>1, SourceStays
<1>6. Item' = Item
  BY <1>2 DEF Item
<1>7. Control'
  BY <1>1, <1>2 DEF ReaderInv, Control
<1>8. Opened'
  <2>1. Fresh => Fresh'
    BY <1>3, <1>4 DEF Fresh
  <2>2. OfFile' = OfFile /\ WholeInWindow' = WholeInWindow
    BY <1>2, <1>3 DEF OfFile, WholeInWindow
  <2>. QED  BY <1>1, <1>2, <1>3, <1>5, <2>1, <2>2 DEF ReaderInv, Opened
<1>9. ValuesDelivered' = ValuesDelivered /\ LossNoticed' = LossNoticed
  BY <1>1, <1>2, <1>3, <1>6 DEF ValuesDelivered, Got, InBlock, LossNoticed
<1>10. OpenInv'
  BY <1>1, <1>2, <1>3, <1>5, <1>9 DEF ReaderInv, OpenInv
<1>11. Todo => Todo' /\ (SkipsPrefix => SkipsPrefix')
  BY <1>1, <1>3, <1>5, TodoKept
<1>12. ReadingInv'
  BY <1>1, <1>5, <1>11, LeftStays DEF ReaderInv, ReadingInv
<1>13. AstrayInv'
  <2>1. SkipsPrefix' = SkipsPrefix
    BY <1>1, <1>2, <1>6 DEF SkipsPrefix
  <2>. QED  BY <1>1, <1>5, <1>6, <2>1 DEF ReaderInv, AstrayInv
<1>14. RefusedForACause'
  <2>1. S!Offset' = S!Offset /\ N' = N
    BY <1>1, <1>5, SamePlace DEF N
  <2>. QED  BY <1>1, <1>2, <1>3, <1>6, <2>1 DEF ReaderInv, RefusedForACause
<1>. QED  BY <1>2, <1>7, <1>8, <1>9, <1>10, <1>12, <1>13, <1>14 DEF ReaderInv

\* Every step keeps the invariant, as long as no skip goes round size_t.
LEMMA ReaderStepInv ==
  ASSUME ReaderInv, NoWrap, [Next]_vars
  PROVE  ReaderInv'
<1>1. CASE Writing
  BY <1>1, WritingStep
<1>2. ASSUME NEW f \in Files, OpenMmap(f) \/ \E lost \in Losses : Open(f, lost) PROVE ReaderInv'
  BY <1>2, OpenStep, OpenMmapStep
<1>3. CASE OpenIstream
  BY <1>3, OpenIstreamStep
<1>4. CASE Reading
  BY <1>4, StartItemStep, AlignStreamStep, SkipStep, ReadStep, AbortStep, SourceRound, AstrayStep,
     EndItemStep, DoneStep DEF Reading
<1>5. CASE UNCHANGED vars
  BY <1>5, StutterStep
<1>. QED  BY <1>1, <1>2, <1>3, <1>4, <1>5 DEF Next

\* As long as no skip goes round size_t, the reader's archive keeps the
\* invariant.
THEOREM ReaderInvariant == Spec /\ []NoWrap => []ReaderInv
<1>1. Init => ReaderInv
  BY ReaderStarts
<1>2. ReaderInv /\ NoWrap /\ [Next]_vars => ReaderInv'
  BY ReaderStepInv
<1>. QED  BY <1>1, <1>2, PTL DEF Spec

\* Values arrive byte by byte as they were written, however the source cuts
\* the stream into windows, whatever their sizes and the file's.
THEOREM ReaderValuesDelivered == Spec /\ []NoWrap => []ValuesDelivered
<1>1. ReaderInv => ValuesDelivered
  BY DEF ReaderInv, OpenInv, ValuesDelivered
<1>. QED  BY <1>1, ReaderInvariant, PTL

\* Of all that an archive skips, only the prefix of an object can take it
\* astray, and only in a source that has several windows.
THEOREM ReaderOnlyPrefixesLeadAstray == Spec /\ []NoWrap => []OnlyPrefixesLeadAstray
<1>1. ReaderInv => OnlyPrefixesLeadAstray
  <2>. SUFFICES ASSUME ReaderInv, archive = "astray" PROVE OnlyPrefixesLeadAstray
    BY DEF OnlyPrefixesLeadAstray
  <2>1. Gone /\ SkipsPrefix
    BY DEF ReaderInv, AstrayInv
  <2>2. block > 0
    <3>1. block \in 0 .. Width - 1
      BY <2>1, SP!Numbers, SameSourceAssumption DEF Gone, SkipOver
    <3>2. block # 0
      BY <2>1 DEF Gone, SkipOver
    <3>. QED  BY <3>1, <3>2, SameSourceAssumption DEF SP!SourceAssumption
  <2>. QED  BY <2>1, <2>2 DEF SkipsPrefix, OnlyPrefixesLeadAstray
<1>. QED  BY <1>1, ReaderInvariant, PTL

\* No item whose bytes the file has lost is taken for read.
THEOREM ReaderLossNoticed == Spec /\ []NoWrap => []LossNoticed
<1>1. ReaderInv => LossNoticed
  BY DEF ReaderInv
<1>. QED  BY <1>1, ReaderInvariant, PTL

\* The asserts stop the reading of a complete stream for three causes only: an
\* object written behind data that ends off a multiple of four, a vu whose words
\* lie off the multiples of their size, and a skip of archive_whole in the second
\* half of the stream.
THEOREM ReaderRefusedForACause == Spec /\ []NoWrap => []RefusedForACause
<1>1. ReaderInv => RefusedForACause
  BY DEF ReaderInv
<1>. QED  BY <1>1, ReaderInvariant, PTL

\* What an archive does over a source is what the layout says of a reader.
THEOREM ReaderImplementsLayout == Spec /\ []NoWrap => ImplementsLayout
<1>1. Init => L!Init
  BY DEF Init
<1>2. ReaderInv /\ [Next]_vars => [L!Next]_(L!vars)
  <2>. SUFFICES ASSUME ReaderInv, [Next]_vars PROVE L!Next \/ UNCHANGED L!vars
    OBVIOUS
  <2>1. UNCHANGED layout => UNCHANGED L!vars
    BY DEF layout, L!vars
  <2>2. CASE Writing
    BY <2>2 DEF Writing, L!Next
  <2>3. ASSUME NEW f \in Files, OpenMmap(f) \/ \E lost \in Losses : Open(f, lost)
        PROVE UNCHANGED layout
    BY <2>3 DEF OpenMmap, Open
  <2>4. OpenIstream => UNCHANGED layout
    BY DEF OpenIstream
  <2>5. CASE Reading
    <3>1. StartItem \/ AlignStream \/ Advance \/ ReadChunked \/ ReadWhole \/ Abort => UNCHANGED layout
      BY DEF StartItem, AlignStream, Advance, ReadChunked, ReadWhole, Abort
    <3>2. SourceStep \/ Astray => UNCHANGED layout
      BY DEF SourceStep, Astray
    <3>3. EndItem => L!Next
      BY EndReads DEF L!Next
    <3>4. Done => L!Next
      BY DEF Done, L!Next
    <3>. QED  BY <2>1, <2>5, <3>1, <3>2, <3>3, <3>4 DEF Reading
  <2>6. UNCHANGED vars => UNCHANGED layout
    BY DEF vars
  <2>. QED  BY <2>1, <2>2, <2>3, <2>4, <2>5, <2>6 DEF Next
<1>. QED  BY <1>1, <1>2, ReaderInvariant, PTL DEF Spec, ImplementsLayout, L!Spec
=============================================================================
