------------------------------- MODULE Source -------------------------------
(***************************************************************************)
(* The byte sources of pulmotor (stream.hpp, stream.cpp): a window of      *)
(* bytes [m_bloff, m_bloff + m_blsize) of a longer stream, a cursor m_cur  *)
(* in it, and advance() and fetch(), which move the cursor and ask the     *)
(* concrete source (memory buffer, std::istream with a cache, mmap-ed      *)
(* file) to make_available() the part of the stream the cursor has         *)
(* reached.  One action is one iteration of a loop of the code, split      *)
(* where the code calls make_available.                                    *)
(*                                                                         *)
(* A byte of the file is represented by its position, so that a copy to    *)
(* the wrong place or from the wrong place shows.                          *)
(*                                                                         *)
(* A definition marked "Slip" is not part of the model: it is a mistake    *)
(* that could be made in the definition after it, kept to test that the    *)
(* properties notice it.                                                   *)
(***************************************************************************)
EXTENDS Integers

CONSTANTS
  Objects,       \* how a source is built: records [kind, file, block]
  MapArgs,       \* arguments of source_mmap::map: records [off, block]
  SkipWithin,    \* "avail" if no skip leaves window or stream, or "unchecked"
  MaxRequest,    \* largest size passed to fetch and advance
  PageSize,      \* util::get_pagesize()
  Width,         \* size_t and fs_t are unsigned modulo Width
  SyscallsFail   \* which of "open", "fstat", "mmap" may fail

ASSUME SourceAssumption ==
  /\ SkipWithin \in {"avail", "unchecked"}
  /\ PageSize \in Nat \ {0} /\ Width \in Nat \ {0} /\ Width % PageSize = 0
  /\ MaxRequest \in 0 .. Width - 1
  /\ \A o \in Objects : /\ o.kind \in {"buffer", "istream", "mmap"}
                        /\ o.file \in 0 .. Width - 1
                        /\ o.block \in 0 .. Width - 1
  /\ \A m \in MapArgs : m.off \in 0 .. Width - 1 /\ m.block \in 0 .. Width - 1
  /\ SyscallsFail \subseteq {"open", "fstat", "mmap"}

VARIABLES
  kind, file,                  \* the concrete class; the real length of the file
  bloff, blsize, cur, data,    \* block_common; data: position of m_data[0]
  size, block,                 \* m_filesize / m_file_size, m_mmapblock / m_cache_size
  stream,                      \* m_stream of source_istream: [good, pos]
  fd, fds, maps,               \* m_fd # -1; descriptors and mappings really open
  ec,                          \* the caller's std::error_code is set
  pc, call,                    \* the call being executed, and its locals
  dest                         \* the caller's buffer

window    == <<bloff, blsize, cur, data>>
resources == <<fd, fds, maps>>
vars == <<kind, file, window, size, block, stream, resources, ec, pc, call, dest>>

Null      == -1    \* nullptr
MapFailed == -2    \* MAP_FAILED
Unwritten == -3    \* a byte of dest before fetch writes it
ZeroFill  == -4    \* what a mapping shows between the end of the file and its page

WAdd(a, b) == IF a + b >= Width THEN a + b - Width ELSE a + b
WSub(a, b) == IF a >= b THEN a - b ELSE a - b + Width
Smaller(a, b) == IF a < b THEN a ELSE b

Offset == WAdd(bloff, cur)
Avail  == WSub(blsize, cur)
Size   == IF kind = "buffer" THEN blsize ELSE size

-----------------------------------------------------------------------------
(* The byte m_data[i].  Memory that a mapping does not back faults; a      *)
(* mapping backs the file up to the end of its last page.                  *)
Pages(n) == n + PageSize - 1 - ((n + PageSize - 1) % PageSize)
Readable(i) == /\ data >= 0
               /\ CASE kind = "buffer"  -> i < file
                    [] kind = "istream" -> i < block
                    [] kind = "mmap"    -> i < Pages(blsize) /\ data + i < Pages(file)
Byte(i) == IF data + i < file THEN data + i ELSE ZeroFill

\* Slip: what gcount() says is not asked.
GCountIgnored(p) == block
\* How many bytes read(m_data, m_cache_size) delivers at position p.
GCount(p) == IF stream.good /\ p < file THEN Smaller(block, file - p) ELSE 0
\* A short read sets failbit, which no later seekg() clears.
StreamAfterRead(p) == [good |-> stream.good /\ GCount(p) = block, pos |-> p + GCount(p)]

-----------------------------------------------------------------------------
(* make_available(ec), entered with m_cur = c.                             *)

BufferMakeAvailable(c) ==
  cur' = c /\ UNCHANGED <<bloff, blsize, data, stream, resources, ec>>

\* Slip: m_cur is not reset for the new window.
IstreamKeepsCursor(c) ==
  LET foff == WAdd(bloff, c)
  IN  /\ bloff' = foff /\ cur' = c /\ data' = foff
      /\ blsize' = GCount(foff)
      /\ stream' = StreamAfterRead(foff)
      /\ UNCHANGED <<resources, ec>>

IstreamMakeAvailable(c) ==
  LET foff == WAdd(bloff, c)
  IN  /\ bloff' = foff /\ cur' = 0 /\ data' = foff
      /\ blsize' = GCount(foff)
      /\ stream' = StreamAfterRead(foff)
      /\ UNCHANGED <<resources, ec>>

MmapMakeAvailable(c) ==
  LET foff == WAdd(bloff, c)
      off  == foff % PageSize
      base == foff - off
      will == Smaller(WSub(size, base), block)
  IN  /\ cur' = off
      /\ UNCHANGED <<stream, fd, fds>>
      /\ \/ /\ base = bloff
            /\ UNCHANGED <<bloff, blsize, data, maps, ec>>
         \/ /\ base # bloff /\ blsize = 0           \* munmap(m_mmap, 0): EINVAL
            /\ ec' = TRUE
            /\ UNCHANGED <<bloff, blsize, data, maps>>
         \/ /\ base # bloff /\ blsize # 0 /\ bloff' = base
            /\ \/ /\ will = 0
                  /\ blsize' = 0 /\ data' = Null /\ maps' = maps - 1
                  /\ UNCHANGED ec
               \/ /\ will # 0
                  /\ blsize' = will /\ data' = base
                  /\ UNCHANGED <<maps, ec>>
               \/ /\ will # 0 /\ "mmap" \in SyscallsFail
                  /\ blsize' = 0 /\ data' = MapFailed /\ maps' = maps - 1
                  /\ ec' = TRUE

MakeAvailable(c) ==
  /\ UNCHANGED <<kind, file, size, block>>
  /\ \/ kind = "buffer"  /\ BufferMakeAvailable(c)
     \/ kind = "istream" /\ IstreamMakeAvailable(c)
     \/ kind = "mmap"    /\ MmapMakeAvailable(c)

-----------------------------------------------------------------------------
(* source::fetch(dest, n, ec).  call.copied is the local "copied"; the     *)
(* parameter sz, decremented once per block, is n - copied at the top.     *)

NoCall == [op |-> "none", n |-> 0, start |-> 0, copied |-> 0]
Called(op, n) == [op |-> op, n |-> n, start |-> Offset, copied |-> 0]

Fetch(n) ==
  /\ pc = "idle"
  /\ ec' \in {ec, FALSE}        \* callers pass a fresh code or the one they keep
  /\ call' = Called("fetch", n)
  /\ dest' = [i \in 0 .. n - 1 |-> Unwritten]
  /\ pc' = "top"
  /\ UNCHANGED <<kind, file, window, size, block, stream, resources>>

FetchTop ==
  /\ pc = "top"
  /\ UNCHANGED <<call, dest>>
  /\ \/ /\ Avail # 0
        /\ pc' = "copy"
        /\ UNCHANGED <<kind, file, window, size, block, stream, resources, ec>>
     \/ /\ Avail = 0
        /\ MakeAvailable(cur)
        /\ pc' = IF ec' \/ Offset' >= Size' THEN "idle" ELSE "copy"

\* Slip: a copy is not cut to the window.
CappedNever == call.n - call.copied
Capped == Smaller(call.n - call.copied, Avail)

\* Slip: m_cur is forgotten.
CopiedFromStart == [i \in DOMAIN dest |-> IF i < Capped THEN Byte(i) ELSE dest[i]]
\* memcpy(dest, m_data + m_cur, capped): dest itself is not advanced.
Copied == [i \in DOMAIN dest |-> IF i < Capped THEN Byte(cur + i) ELSE dest[i]]

FetchCopy ==
  /\ pc = "copy"
  /\ \A i \in 0 .. Capped - 1 : Readable(cur + i)
  /\ call' = [call EXCEPT !.copied = @ + Capped]
  /\ dest' = Copied
  /\ cur' = WAdd(cur, Capped)
  /\ pc' = IF cur' >= blsize THEN "refill"
           ELSE IF call'.copied = call.n THEN "idle" ELSE "top"
  /\ UNCHANGED <<kind, file, bloff, blsize, data, size, block, stream, resources, ec>>

\* The same memcpy when it reads memory that is not there.
FetchFault ==
  /\ pc = "copy"
  /\ \E i \in 0 .. Capped - 1 : ~Readable(cur + i)
  /\ pc' = "fault"
  /\ UNCHANGED <<kind, file, window, size, block, stream, resources, ec, call, dest>>

\* Slip: the comparison is the wrong way round.
FetchRefillSwapped ==
  /\ pc = "refill"
  /\ MakeAvailable(cur)
  /\ pc' = IF ec' \/ cur' <= blsize' \/ call.copied = call.n THEN "idle" ELSE "top"
  /\ UNCHANGED <<call, dest>>

FetchRefill ==
  /\ pc = "refill"
  /\ MakeAvailable(cur)
  /\ pc' = IF ec' \/ cur' >= blsize' \/ call.copied = call.n THEN "idle" ELSE "top"
  /\ UNCHANGED <<call, dest>>

-----------------------------------------------------------------------------
(* source::advance(n, ec).                                                 *)

\* Slip: the end of the window counts as outside.
InsideWindow(c) == c < blsize
InWindow(c) == c <= blsize

Advance(n) ==
  /\ pc = "idle"
  /\ SkipWithin = "avail" => n <= Avail /\ Offset + n <= Size
  /\ ec' \in {ec, FALSE}
  /\ call' = Called("advance", n) /\ dest' = <<>>
  /\ pc' = "advance"
  /\ UNCHANGED <<kind, file, window, size, block, stream, resources>>

AdvanceStep ==
  LET c == WAdd(cur, call.n) IN
  /\ pc = "advance"
  /\ UNCHANGED <<call, dest>>
  /\ \/ /\ InWindow(c)
        /\ cur' = c /\ pc' = "idle"
        /\ UNCHANGED <<kind, file, bloff, blsize, data, size, block, stream, resources, ec>>
     \/ /\ ~InWindow(c)
        /\ MakeAvailable(c)
        /\ pc' = IF ec' THEN "idle" ELSE "advance"

\* source_istream::prefetch(): reads where the stream stands, without a seek.
Prefetch ==
  /\ pc = "idle" /\ kind = "istream"
  /\ cur >= blsize
  /\ cur' = 0 /\ bloff' = WAdd(bloff, blsize) /\ data' = stream.pos
  /\ blsize' = GCount(stream.pos)
  /\ stream' = StreamAfterRead(stream.pos)
  /\ call' = NoCall /\ dest' = <<>>
  /\ UNCHANGED <<kind, file, size, block, resources, ec, pc>>

-----------------------------------------------------------------------------
(* source_mmap: map, unmap and the destructor.  A mapped source is not     *)
(* mapped again before it is unmapped.                                     *)

\* Slip: m_fd is not reset.
ResetKeepsDescriptor == /\ block' = 0 /\ size' = 0 /\ data' = Null
                        /\ bloff' = 0 /\ blsize' = 0 /\ cur' = 0 /\ fd' = fd
Reset == /\ fd' = FALSE /\ block' = 0 /\ size' = 0
         /\ data' = Null /\ bloff' = 0 /\ blsize' = 0 /\ cur' = 0

Map(m) ==
  LET len == IF m.block = 0 THEN file ELSE m.block IN
  /\ pc = "idle" /\ kind = "mmap" /\ ~fd
  /\ call' = NoCall /\ dest' = <<>>
  /\ UNCHANGED <<kind, file, stream, pc>>
  /\ \/ /\ \/ m.off % PageSize # 0 \/ m.block % PageSize # 0
           \/ "open" \in SyscallsFail
        /\ ec' = TRUE
        /\ UNCHANGED <<window, size, block, resources>>
     \/ /\ m.off % PageSize = 0 /\ m.block % PageSize = 0
        /\ \/ /\ "fstat" \in SyscallsFail
              /\ fd' = TRUE /\ fds' = fds + 1 /\ ec' = TRUE
              /\ UNCHANGED <<window, size, block, maps>>
           \/ /\ len = 0 \/ "mmap" \in SyscallsFail
              /\ Reset /\ ec' = TRUE
              /\ UNCHANGED <<fds, maps>>            \* opened and closed again
           \/ /\ len # 0
              /\ fd' = TRUE /\ fds' = fds + 1 /\ maps' = maps + 1
              /\ size' = file /\ block' = m.block
              /\ bloff' = m.off /\ blsize' = len /\ data' = m.off
              /\ UNCHANGED <<cur, ec>>

Unmap ==
  /\ pc = "idle" /\ kind = "mmap"
  /\ call' = NoCall /\ dest' = <<>>
  /\ UNCHANGED <<kind, file, stream, pc>>
  /\ \/ /\ fd
        /\ Reset
        /\ fds' = fds - 1
        /\ maps' = IF blsize = 0 THEN maps ELSE maps - 1
        /\ ec' = (ec \/ blsize = 0)                  \* munmap(p, 0): EINVAL
     \/ /\ ~fd /\ ec' = TRUE
        /\ UNCHANGED <<window, size, block, resources>>

\* ~source_mmap, after which the user constructs the next source_mmap.
Destroy ==
  /\ pc = "idle" /\ kind = "mmap"
  /\ call' = NoCall /\ dest' = <<>>
  /\ UNCHANGED <<kind, file, stream>>
  /\ \/ /\ data # Null /\ blsize = 0                 \* assert(!"... munmap normally should succeed")
        /\ pc' = "abort"
        /\ UNCHANGED <<window, size, block, resources, ec>>
     \/ /\ data = Null \/ blsize # 0
        /\ Reset
        /\ fds' = IF fd THEN fds - 1 ELSE fds
        /\ maps' = IF data = Null THEN maps ELSE maps - 1
        /\ ec' = FALSE
        /\ UNCHANGED pc

-----------------------------------------------------------------------------
Init ==
  \E o \in Objects :
    /\ kind = o.kind /\ file = o.file
    /\ bloff = 0 /\ cur = 0
    /\ blsize = IF o.kind = "buffer" THEN o.file ELSE 0
    /\ data = IF o.kind = "mmap" THEN Null ELSE 0
    /\ size = IF o.kind = "mmap" THEN 0 ELSE o.file
    /\ block = IF o.kind = "istream" /\ o.block = 0 THEN o.file
               ELSE IF o.kind = "istream" THEN o.block ELSE 0
    /\ stream = [good |-> TRUE, pos |-> 0]
    /\ fd = FALSE /\ fds = 0 /\ maps = 0
    /\ ec = FALSE /\ pc = "idle" /\ call = NoCall /\ dest = <<>>

Step == FetchTop \/ FetchCopy \/ FetchFault \/ FetchRefill \/ AdvanceStep

Next ==
  \/ \E n \in 0 .. MaxRequest : Fetch(n) \/ Advance(n)
  \/ Step
  \/ Prefetch
  \/ \E m \in MapArgs : Map(m)
  \/ Unmap
  \/ Destroy

Spec == Init /\ [][Next]_vars
\* A call runs on the caller's thread: once made, its loop keeps running.
FairSpec == Spec /\ WF_vars(Step)

-----------------------------------------------------------------------------
(* Properties.                                                             *)

\* How a source has to be used, which no line of it checks.  Skips stay in the
\* window.  A file is mapped from a multiple of its block that size_t can count
\* to the end of; one mapped whole is mapped from its beginning.
WellUsed ==
  /\ SkipWithin = "avail" /\ PageSize < Width
  /\ \A m \in MapArgs :
       m.off % PageSize = 0 /\ m.block % PageSize = 0 =>
         IF m.block = 0 THEN m.off = 0
                        ELSE m.off % m.block = 0 /\ m.off + m.block < Width

\* Every variable stays in its type; the counts of descriptors and mappings
\* never go below zero or above one, whatever fails.
TypeOK ==
  /\ kind \in {"buffer", "istream", "mmap"} /\ file \in 0 .. Width - 1
  /\ bloff \in 0 .. Width - 1 /\ blsize \in 0 .. Width - 1
  /\ cur \in 0 .. Width - 1 /\ data \in {Null, MapFailed} \cup (0 .. Width - 1)
  /\ size \in 0 .. Width - 1 /\ block \in 0 .. Width - 1
  /\ stream \in [good : BOOLEAN, pos : 0 .. Width - 1]
  /\ fd \in BOOLEAN /\ fds \in 0 .. 1 /\ maps \in 0 .. 1
  /\ ec \in BOOLEAN
  /\ pc \in {"idle", "top", "copy", "refill", "advance", "fault", "abort"}
  /\ call \in [op : {"none", "fetch", "advance"}, n : 0 .. MaxRequest,
                start : 0 .. Width - 1, copied : 0 .. MaxRequest]
  /\ call.op = "fetch" => DOMAIN dest = 0 .. call.n - 1

\* However many blocks a fetch crosses, whatever fails, and whichever source
\* it runs on, offset() is always the offset at the call plus the bytes the
\* call has copied: make_available rebuilds the window without moving it.
FetchAccounting == call.op = "fetch" => Offset = WAdd(call.start, call.copied)

\* A failed mmap in make_available leaves m_mmap at MAP_FAILED, and a cursor
\* behind the end of an empty window: a source that is used on after that
\* error has no stream under it, and reports no error.
Broken == data = MapFailed

\* A file mapped whole that ends inside a page other than its first, read to its
\* end: make_available has dropped the mapping for one of a block of no bytes,
\* and left the cursor in the page the file ends in, behind that empty window.
Spent ==
  /\ kind = "mmap" /\ block = 0 /\ blsize = 0 /\ Offset = size
  /\ size > PageSize /\ size % PageSize # 0

\* The cursor stands behind an empty window.
Adrift == Broken \/ Spent

\* A file mapped beyond its end, in a block longer than itself or from too far
\* on: the window counts bytes that the file does not have, and those behind
\* its last page are not even memory.
Overlong == kind = "mmap" /\ bloff + blsize > size

\* A fetch that returns fewer bytes than asked for, and no error, has reached
\* the end of the stream.
ShortOnlyAtEnd ==
  pc = "idle" /\ call.op = "fetch" /\ ~ec /\ call.copied < call.n =>
    Offset >= Size \/ Broken

\* fetch delivers the bytes of the stream from the offset at the call on, in
\* order, and leaves the rest of the caller's buffer alone.
FetchInOrder ==
  pc = "idle" /\ call.op = "fetch" =>
    \A i \in DOMAIN dest :
      dest[i] = IF i < call.copied THEN call.start + i ELSE Unwritten

\* The same for a fetch that stays inside one block of a chunked source, the
\* way the "chunk" tests of stream.tests.cpp read.
BlockFetchInOrder ==
  (/\ pc = "idle" /\ call.op = "fetch" /\ block > 0 /\ ~Overlong
   /\ (call.start % block) + call.n <= block)
  => \A i \in DOMAIN dest :
       dest[i] = IF i < call.copied THEN call.start + i ELSE Unwritten

\* Only three sources make fetch copy from memory that is not there: one whose
\* mapping failed, one whose block is longer than its file, and one of a file
\* mapped whole that ends inside a later page, once it is read to its end.
NoFault == pc = "fault" => Adrift \/ Overlong

\* Between calls, avail() bytes of the stream really follow the cursor, but in
\* those three sources: with a cursor behind its window avail() wraps, and a
\* block longer than the file counts bytes the file does not have.
AvailIsInStream == pc = "idle" /\ ~Adrift /\ ~Overlong => Avail + Offset <= Size

\* Descriptors and mappings the process holds are those the source still
\* knows of: no path, failing or not, leaks one or releases one twice.
NothingLeaked ==
  /\ fds = IF fd THEN 1 ELSE 0
  /\ maps = IF kind = "mmap" /\ data >= 0 THEN 1 ELSE 0

\* Every fetch and every advance returns, or faults, but with a cursor behind
\* its window, where advance comes round to the same comparison for ever.
CallsReturn ==
  pc \in {"top", "copy", "refill", "advance"} ~> pc \in {"idle", "fault"} \/ Adrift
=============================================================================
