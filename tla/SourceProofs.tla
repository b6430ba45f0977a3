---------------------------- MODULE SourceProofs ----------------------------
(***************************************************************************)
(* Proofs about Source, for every kind of source, every length of file and *)
(* of block, every page size and word width, and with any system call      *)
(* allowed to fail: the resources of a source, and, of one that is used as *)
(* WellUsed of Source says, what it has in its window and delivers.        *)
(***************************************************************************)
EXTENDS SourceRefinement, TLAPS

-----------------------------------------------------------------------------
(* Descriptors and mappings: the inductive invariant.                      *)

\* The window is empty exactly when nothing is mapped, and a source without
\* a descriptor has no mapping: what NothingLeaked needs to be inductive.
WindowMapped ==
  /\ kind = "mmap" => (data >= 0 <=> blsize # 0) /\ (~fd => data = Null)
  /\ kind # "mmap" => ~fd
\* A mapped block starts on a page, and an empty one holds no cursor beyond
\* its first page: then the munmap of an empty mapping, which fails after
\* m_cur was already rewritten, is never reached by a fetch.
WindowAligned ==
  kind = "mmap" => bloff % PageSize = 0 /\ (blsize = 0 => cur < PageSize)
\* A fetch copies no more than it was asked for, and only fetches copy.
CallBounded ==
  /\ call.copied <= call.n
  /\ pc \in {"top", "copy", "refill"} => call.op = "fetch"
  /\ pc = "advance" => call.op = "advance"

SourceInv ==
  TypeOK /\ WindowMapped /\ WindowAligned /\ NothingLeaked /\ CallBounded /\ FetchAccounting

\* Splitting a position into its page and the offset in the page.
LEMMA PageSplit ==
  ASSUME NEW a \in Nat, NEW b \in Nat \ {0}
  PROVE  a % b \in 0 .. a /\ a % b < b /\ (a - (a % b)) % b = 0
<1>1. a % b \in 0 .. b - 1
  OBVIOUS
<1>2. a % b <= a
  <2>1. a = (b * (a \div b)) + (a % b)
    OBVIOUS
  <2>2. a \div b \in Nat
    OBVIOUS
  <2>3. b * (a \div b) >= 0
    BY <2>2
  <2>. QED  BY <2>1, <2>2, <2>3, <1>1
<1>3. (a - (a % b)) % b = 0
  <2>1. a - (a % b) = b * (a \div b) /\ a \div b \in Nat
    OBVIOUS
  <2>2. \A k \in Nat : (b * k) % b = 0
    OBVIOUS
  <2>. QED  BY <2>1, <2>2
<1>. QED  BY <1>1, <1>2, <1>3

\* A position inside the page that starts at a splits back into both.
LEMMA PageJoin ==
  ASSUME NEW a \in Nat, NEW b \in Nat \ {0}, a % b = 0, NEW c \in 0 .. b - 1
  PROVE  (a + c) % b = c
<1>1. PICK k \in Nat : a = b * k
  <2>1. a = (b * (a \div b)) + (a % b) /\ a \div b \in Nat
    OBVIOUS
  <2>. QED  BY <2>1
<1>. DEFINE j == (a + c) \div b
<1>2. a + c = (b * j) + ((a + c) % b) /\ j \in Nat
  OBVIOUS
<1>3. (a + c) % b \in 0 .. b - 1
  OBVIOUS
<1>. HIDE DEF j
<1>4. (b * k) - (b * j) = b * (k - j)
  BY <1>1, <1>2
<1>5. k = j
  BY <1>1, <1>2, <1>3, <1>4
<1>. QED  BY <1>1, <1>2, <1>5

\* A page that starts below a multiple of the page size ends below it.
LEMMA PageBelow ==
  ASSUME NEW a \in Nat, NEW w \in Nat, NEW b \in Nat \ {0},
         a % b = 0, w % b = 0, a < w
  PROVE  a + b <= w
<1>. DEFINE k == a \div b
            j == w \div b
<1>1. a = (b * k) + (a % b) /\ k \in Nat
  OBVIOUS
<1>2. w = (b * j) + (w % b) /\ j \in Nat
  OBVIOUS
<1>. HIDE DEF k, j
<1>3. k < j
  BY <1>1, <1>2
<1>4. b * (k + 1) <= b * j /\ b * (k + 1) = (b * k) + b
  BY <1>1, <1>2, <1>3
<1>. QED  BY <1>1, <1>2, <1>4

\* size_t addition and subtraction stay in range, and addition associates.
LEMMA Wrap ==
  ASSUME NEW a \in 0 .. Width - 1, NEW b \in 0 .. Width - 1, NEW c \in 0 .. Width - 1
  PROVE  /\ WAdd(a, b) \in 0 .. Width - 1 /\ WSub(a, b) \in 0 .. Width - 1
         /\ WAdd(WAdd(a, b), c) = WAdd(a, WAdd(b, c))
         /\ WAdd(a, 0) = a /\ WAdd(0, a) = a
BY SourceAssumption DEF WAdd, WSub, SourceAssumption

-----------------------------------------------------------------------------
(* make_available, whichever source it runs on.                            *)

\* The part of TypeOK that make_available can disturb.
WindowTypeOK ==
  /\ kind \in {"buffer", "istream", "mmap"} /\ file \in 0 .. Width - 1
  /\ bloff \in 0 .. Width - 1 /\ blsize \in 0 .. Width - 1
  /\ cur \in 0 .. Width - 1 /\ data \in {Null, MapFailed} \cup (0 .. Width - 1)
  /\ size \in 0 .. Width - 1 /\ block \in 0 .. Width - 1
  /\ stream \in [good : BOOLEAN, pos : 0 .. Width - 1]
  /\ fd \in BOOLEAN /\ fds \in 0 .. 1 /\ maps \in 0 .. 1
  /\ ec \in BOOLEAN

WindowInv == WindowTypeOK /\ WindowMapped /\ WindowAligned /\ NothingLeaked

\* Reading the std::istream at any position gives a count and a stream state.
LEMMA ReadType ==
  ASSUME WindowTypeOK, NEW p \in 0 .. Width - 1
  PROVE  /\ GCount(p) \in 0 .. Width - 1
         /\ StreamAfterRead(p) \in [good : BOOLEAN, pos : 0 .. Width - 1]
<1>1. GCount(p) \in 0 .. Width - 1
  BY SourceAssumption DEF WindowTypeOK, GCount, Smaller, SourceAssumption
<1>2. p + GCount(p) \in 0 .. Width - 1
  BY SourceAssumption DEF WindowTypeOK, GCount, Smaller, SourceAssumption
<1>. QED  BY <1>1, <1>2 DEF WindowTypeOK, StreamAfterRead

\* make_available keeps the invariant of the window and does not move the
\* position it was entered with: it only decides which bytes are in memory.
\* The exception is a cursor advanced out of an empty mapping.
LEMMA MakeAvailableKeepsPosition ==
  ASSUME WindowInv, NEW c \in 0 .. Width - 1, MakeAvailable(c)
  PROVE  /\ WindowInv'
         /\ Offset' = WAdd(bloff, c) \/ (kind = "mmap" /\ blsize = 0 /\ c >= PageSize)
<1>. DEFINE foff == WAdd(bloff, c)
<1>1. /\ foff \in 0 .. Width - 1
      /\ Width \in Nat \ {0} /\ PageSize \in Nat \ {0} /\ Width % PageSize = 0
  BY Wrap, SourceAssumption DEF WindowInv, WindowTypeOK, SourceAssumption
<1>2. CASE kind = "buffer" /\ BufferMakeAvailable(c)
  <2>1. /\ cur' = c
        /\ UNCHANGED <<kind, file, size, block, bloff, blsize, data, stream, fd, fds, maps, ec>>
    BY <1>2 DEF MakeAvailable, BufferMakeAvailable, resources
  <2>. QED
    BY <1>2, <2>1
    DEF WindowInv, WindowTypeOK, WindowMapped, WindowAligned, NothingLeaked, Offset, WAdd
<1>3. CASE kind = "istream" /\ IstreamMakeAvailable(c)
  <2>1. /\ bloff' = foff /\ cur' = 0 /\ data' = foff
        /\ blsize' = GCount(foff) /\ stream' = StreamAfterRead(foff)
        /\ UNCHANGED <<kind, file, size, block, fd, fds, maps, ec>>
    BY <1>3 DEF MakeAvailable, IstreamMakeAvailable, resources
  <2>2. blsize' \in 0 .. Width - 1 /\ stream' \in [good : BOOLEAN, pos : 0 .. Width - 1]
    BY <2>1, <1>1, ReadType DEF WindowInv
  <2>3. Offset' = foff
    BY <2>1, <1>1 DEF Offset, WAdd
  <2>. QED
    BY <1>1, <1>3, <2>1, <2>2, <2>3
    DEF WindowInv, WindowTypeOK, WindowMapped, WindowAligned, NothingLeaked
<1>4. CASE kind = "mmap" /\ MmapMakeAvailable(c)
  <2>. DEFINE off  == foff % PageSize
              base == foff - off
              will == Smaller(WSub(size, base), block)
  <2>1. /\ off \in 0 .. Width - 1 /\ base \in 0 .. Width - 1
        /\ base + off = foff /\ off < PageSize /\ base % PageSize = 0
    BY <1>1, PageSplit
  <2>2. will \in 0 .. Width - 1
    BY <1>1, <2>1, Wrap DEF WindowInv, WindowTypeOK, Smaller
  <2>3. /\ cur' = off
        /\ UNCHANGED <<kind, file, size, block, stream, fd, fds>>
    BY <1>4 DEF MakeAvailable, MmapMakeAvailable
  <2>4. \/ base = bloff /\ UNCHANGED <<bloff, blsize, data, maps, ec>>
        \/ base # bloff /\ blsize = 0 /\ ec' = TRUE /\ UNCHANGED <<bloff, blsize, data, maps>>
        \/ /\ base # bloff /\ blsize # 0 /\ bloff' = base
           /\ \/ will = 0 /\ blsize' = 0 /\ data' = Null /\ maps' = maps - 1 /\ UNCHANGED ec
              \/ will # 0 /\ blsize' = will /\ data' = base /\ UNCHANGED <<maps, ec>>
              \/ will # 0 /\ blsize' = 0 /\ data' = MapFailed /\ maps' = maps - 1 /\ ec' = TRUE
    BY <1>4 DEF MmapMakeAvailable
  <2>5. base # bloff /\ blsize = 0 => c >= PageSize
    <3>. SUFFICES ASSUME c < PageSize, blsize = 0 PROVE base = bloff
      BY <1>1 DEF WindowInv, WindowTypeOK
    <3>1. bloff % PageSize = 0 /\ bloff \in Nat /\ Width \in Nat /\ bloff < Width
      BY <1>1, <1>4 DEF WindowInv, WindowTypeOK, WindowAligned
    <3>2. bloff + PageSize <= Width
      BY <1>1, <3>1, PageBelow
    <3>3. foff = bloff + c
      BY <1>1, <3>1, <3>2 DEF WAdd
    <3>4. off = c
      BY <1>1, <3>1, <3>3, PageJoin
    <3>. QED  BY <3>1, <3>3, <3>4
  <2>. HIDE DEF base, off, will
  <2>6. CASE base = bloff /\ UNCHANGED <<bloff, blsize, data, maps, ec>>
    BY <1>1, <1>4, <2>1, <2>3, <2>6
    DEF WindowInv, WindowTypeOK, WindowMapped, WindowAligned, NothingLeaked, Offset, WAdd
  <2>7. CASE base # bloff /\ blsize = 0 /\ ec' = TRUE /\ UNCHANGED <<bloff, blsize, data, maps>>
    BY <1>1, <1>4, <2>1, <2>3, <2>5, <2>7
    DEF WindowInv, WindowTypeOK, WindowMapped, WindowAligned, NothingLeaked
  <2>8. CASE /\ base # bloff /\ blsize # 0 /\ bloff' = base
             /\ \/ will = 0 /\ blsize' = 0 /\ data' = Null /\ maps' = maps - 1 /\ UNCHANGED ec
                \/ will # 0 /\ blsize' = will /\ data' = base /\ UNCHANGED <<maps, ec>>
                \/ will # 0 /\ blsize' = 0 /\ data' = MapFailed /\ maps' = maps - 1 /\ ec' = TRUE
    <3>1. Offset' = foff
      BY <1>1, <2>1, <2>3, <2>8 DEF Offset, WAdd
    <3>2. blsize # 0
      BY <2>8
    <3>3. data >= 0 /\ maps = 1 /\ fd
      BY <1>4, <3>2 DEF WindowInv, WindowTypeOK, WindowMapped, NothingLeaked, Null, MapFailed
    <3>4. /\ bloff' \in 0 .. Width - 1 /\ blsize' \in 0 .. Width - 1
          /\ data' \in {Null, MapFailed} \cup (0 .. Width - 1)
          /\ maps' \in 0 .. 1 /\ ec' \in BOOLEAN
      <4>1. bloff' \in 0 .. Width - 1 /\ blsize' \in 0 .. Width - 1 /\ maps' \in 0 .. 1
        BY <1>1, <2>1, <2>2, <2>8, <3>3
      <4>2. data' \in {Null, MapFailed} \cup (0 .. Width - 1)
        BY <2>1, <2>8
      <4>3. ec' \in BOOLEAN
        BY <2>8 DEF WindowInv, WindowTypeOK
      <4>. QED  BY <4>1, <4>2, <4>3
    <3>5. WindowTypeOK'
      BY <2>1, <2>3, <3>4 DEF WindowInv, WindowTypeOK, Null, MapFailed
    <3>6. WindowMapped' /\ WindowAligned' /\ NothingLeaked'
      BY <1>1, <1>4, <2>1, <2>2, <2>3, <2>8, <3>3
      DEF WindowInv, WindowTypeOK, WindowMapped, WindowAligned, NothingLeaked, Null, MapFailed
    <3>. QED  BY <3>1, <3>5, <3>6 DEF WindowInv
  <2>. QED  BY <2>4, <2>6, <2>7, <2>8
<1>. QED  BY <1>2, <1>3, <1>4 DEF MakeAvailable

-----------------------------------------------------------------------------
(* The invariant of the whole specification.                               *)

\* The type of the call and its buffer: the rest of TypeOK.
CallTypeOK ==
  /\ pc \in {"idle", "top", "copy", "refill", "advance", "fault", "abort"}
  /\ call \in [op : {"none", "fetch", "advance"}, n : 0 .. MaxRequest,
                start : 0 .. Width - 1, copied : 0 .. MaxRequest]
  /\ call.op = "fetch" => DOMAIN dest = 0 .. call.n - 1

\* The invariant is the window's part, the call's part, and FetchAccounting.
LEMMA SourceInvParts ==
  /\ SourceInv <=> WindowInv /\ CallTypeOK /\ CallBounded /\ FetchAccounting
  /\ SourceInv' <=> WindowInv' /\ CallTypeOK' /\ CallBounded' /\ FetchAccounting'
BY DEF SourceInv, WindowInv, WindowTypeOK, CallTypeOK, TypeOK

LEMMA InitInv == Init => SourceInv
<1>. SUFFICES ASSUME Init PROVE WindowInv /\ CallTypeOK /\ CallBounded /\ FetchAccounting
  BY SourceInvParts
<1>. PICK o \in Objects :
       /\ kind = o.kind /\ file = o.file
       /\ bloff = 0 /\ cur = 0
       /\ blsize = IF o.kind = "buffer" THEN o.file ELSE 0
       /\ data = IF o.kind = "mmap" THEN Null ELSE 0
       /\ size = IF o.kind = "mmap" THEN 0 ELSE o.file
       /\ block = IF o.kind = "istream" /\ o.block = 0 THEN o.file
                  ELSE IF o.kind = "istream" THEN o.block ELSE 0
       /\ stream = [good |-> TRUE, pos |-> 0]
       /\ fd = FALSE /\ fds = 0 /\ maps = 0
       /\ ec = FALSE /\ pc = "idle" /\ call = NoCall /\ dest = <<>>
  BY DEF Init
<1>1. /\ o.kind \in {"buffer", "istream", "mmap"}
      /\ o.file \in 0 .. Width - 1 /\ o.block \in 0 .. Width - 1
      /\ Width \in Nat \ {0} /\ PageSize \in Nat \ {0} /\ MaxRequest \in 0 .. Width - 1
  BY SourceAssumption DEF SourceAssumption
<1>2. WindowTypeOK
  <2>1. stream \in [good : BOOLEAN, pos : 0 .. Width - 1]
    BY <1>1
  <2>2. blsize \in 0 .. Width - 1 /\ size \in 0 .. Width - 1 /\ block \in 0 .. Width - 1
    BY <1>1
  <2>3. data \in {Null, MapFailed} \cup (0 .. Width - 1)
    BY <1>1
  <2>4. fd \in BOOLEAN /\ ec \in BOOLEAN
    OBVIOUS
  <2>5. bloff \in 0 .. Width - 1 /\ cur \in 0 .. Width - 1 /\ fds \in 0 .. 1 /\ maps \in 0 .. 1
    BY <1>1
  <2>. QED  BY <1>1, <2>1, <2>2, <2>3, <2>4, <2>5 DEF WindowTypeOK
<1>3. WindowMapped /\ NothingLeaked
  BY <1>1 DEF WindowMapped, NothingLeaked, Null
<1>4. WindowAligned
  BY <1>1 DEF WindowAligned
<1>5. CallTypeOK /\ CallBounded /\ FetchAccounting
  BY <1>1 DEF CallTypeOK, CallBounded, FetchAccounting, NoCall
<1>. QED  BY <1>2, <1>3, <1>4, <1>5 DEF WindowInv

\* A step that leaves the window alone keeps its invariant.
LEMMA WindowStays ==
  ASSUME WindowInv, ec' \in BOOLEAN,
         UNCHANGED <<kind, file, window, size, block, stream, resources>>
  PROVE  WindowInv' /\ Offset' = Offset
BY DEF WindowInv, WindowTypeOK, WindowMapped, WindowAligned, NothingLeaked,
       window, resources, Offset, WAdd

\* Closing a mapped source leaves it as it was before it was mapped.
LEMMA ResetInv ==
  ASSUME WindowInv, kind = "mmap", Reset, UNCHANGED <<kind, file, stream>>,
         fds' = 0, maps' = 0, ec' \in BOOLEAN
  PROVE  WindowInv'
<1>1. Width \in Nat \ {0} /\ PageSize \in Nat \ {0}
  BY SourceAssumption DEF SourceAssumption
<1>2. WindowTypeOK'
  <2>1. /\ 0 \in 0 .. Width - 1 /\ 0 \in 0 .. 1
        /\ data' \in {Null, MapFailed} \cup (0 .. Width - 1)
    BY <1>1 DEF Reset
  <2>2. fd' \in BOOLEAN
    BY DEF Reset
  <2>. QED  BY <2>1, <2>2 DEF Reset, WindowInv, WindowTypeOK
<1>3. WindowMapped' /\ NothingLeaked'
  BY DEF Reset, WindowMapped, NothingLeaked, Null
<1>4. WindowAligned'
  BY <1>1 DEF Reset, WindowAligned
<1>. QED
  BY <1>2, <1>3, <1>4 DEF WindowInv

\* A new call starts where the cursor is, with nothing copied.
LEMMA CallStarts ==
  ASSUME SourceInv, NEW n \in 0 .. MaxRequest, Fetch(n) \/ Advance(n)
  PROVE  SourceInv'
<1>1. WindowInv /\ ec' \in BOOLEAN
  BY SourceInvParts DEF Fetch, Advance, WindowInv, WindowTypeOK
<1>2. WindowInv' /\ Offset' = Offset
  BY <1>1, WindowStays DEF Fetch, Advance
<1>3. Offset \in 0 .. Width - 1 /\ MaxRequest \in 0 .. Width - 1 /\ Width \in Nat \ {0}
  BY <1>1, Wrap, SourceAssumption DEF WindowInv, WindowTypeOK, Offset, SourceAssumption
<1>4. CASE Fetch(n)
  <2>1. /\ call' = [op |-> "fetch", n |-> n, start |-> Offset, copied |-> 0]
        /\ dest' = [i \in 0 .. n - 1 |-> Unwritten] /\ pc' = "top"
    BY <1>4 DEF Fetch, Called
  <2>. QED
    BY <1>2, <1>3, <2>1, Wrap, SourceInvParts DEF CallTypeOK, CallBounded, FetchAccounting
<1>5. CASE Advance(n)
  <2>1. /\ call' = [op |-> "advance", n |-> n, start |-> Offset, copied |-> 0]
        /\ pc' = "advance"
    BY <1>5 DEF Advance, Called
  <2>. QED
    BY <1>2, <1>3, <2>1, SourceInvParts DEF CallTypeOK, CallBounded, FetchAccounting
<1>. QED  BY <1>4, <1>5

\* An operation that is not a fetch or an advance leaves no call behind.
LEMMA NoCallInv ==
  ASSUME WindowInv', call' = NoCall, pc' \in {"idle", "abort"}
  PROVE  SourceInv'
<1>1. MaxRequest \in Nat /\ Width \in Nat \ {0}
  BY SourceAssumption DEF SourceAssumption
<1>. QED
  BY <1>1, SourceInvParts DEF CallTypeOK, CallBounded, FetchAccounting, NoCall

\* A step that keeps the call keeps the invariant when it keeps the offset.
LEMMA CallStays ==
  ASSUME SourceInv, WindowInv', UNCHANGED <<call, dest>>,
         call.op = "fetch" => Offset' = Offset,
         \/ pc' \in {"idle", "fault"}
         \/ pc' \in {"top", "copy", "refill"} /\ call.op = "fetch"
         \/ pc' = "advance" /\ call.op = "advance"
  PROVE  SourceInv'
<1>1. CallTypeOK'
  BY SourceInvParts DEF CallTypeOK
<1>2. CallBounded' /\ FetchAccounting'
  BY SourceInvParts DEF CallBounded, FetchAccounting
<1>. QED  BY <1>1, <1>2, SourceInvParts

\* Refilling the window in the middle of a fetch.
LEMMA RefillKeepsOffset ==
  ASSUME SourceInv, MakeAvailable(cur)
  PROVE  WindowInv' /\ Offset' = Offset
<1>1. WindowInv /\ cur \in 0 .. Width - 1
  BY SourceInvParts DEF WindowInv, WindowTypeOK
<1>2. ~(kind = "mmap" /\ blsize = 0 /\ cur >= PageSize)
  BY <1>1, SourceAssumption DEF WindowInv, WindowAligned, SourceAssumption
<1>. QED  BY <1>1, <1>2, MakeAvailableKeepsPosition DEF Offset

\* One copy: the cursor and the count move together, by at most one window.
LEMMA CopyInv ==
  ASSUME SourceInv, FetchCopy
  PROVE  SourceInv'
<1>1. /\ WindowInv /\ CallTypeOK /\ CallBounded /\ FetchAccounting
      /\ Width \in Nat \ {0} /\ MaxRequest \in 0 .. Width - 1 /\ PageSize \in Nat \ {0}
  BY SourceInvParts, SourceAssumption DEF SourceAssumption
<1>2. /\ call.op = "fetch" /\ call.n \in 0 .. MaxRequest /\ call.copied \in 0 .. call.n
      /\ call.start \in 0 .. Width - 1
  BY <1>1 DEF FetchCopy, CallTypeOK, CallBounded
<1>3. /\ bloff \in 0 .. Width - 1 /\ cur \in 0 .. Width - 1 /\ blsize \in 0 .. Width - 1
      /\ Avail \in 0 .. Width - 1
  BY <1>1, Wrap DEF WindowInv, WindowTypeOK, Avail
<1>4. /\ Capped \in 0 .. Width - 1 /\ Capped <= call.n - call.copied
      /\ WAdd(cur, Capped) \in 0 .. Width - 1
  <2>1. Capped \in 0 .. Width - 1 /\ Capped <= call.n - call.copied
    BY <1>1, <1>2, <1>3 DEF Capped, Smaller
  <2>. QED  BY <1>3, <2>1, Wrap
<1>5. /\ call' = [call EXCEPT !.copied = call.copied + Capped]
      /\ cur' = WAdd(cur, Capped)
      /\ UNCHANGED <<kind, file, bloff, blsize, data, size, block, stream, fd, fds, maps, ec>>
      /\ pc' \in {"refill", "idle", "top"}
      /\ DOMAIN dest' = DOMAIN dest
  BY DEF FetchCopy, resources, Copied
<1>6. /\ call' \in [op : {"none", "fetch", "advance"}, n : 0 .. MaxRequest,
                    start : 0 .. Width - 1, copied : 0 .. MaxRequest]
      /\ call'.op = "fetch" /\ call'.n = call.n /\ call'.start = call.start
      /\ call'.copied = call.copied + Capped
  <2>1. call.copied + Capped \in 0 .. MaxRequest
    BY <1>1, <1>2, <1>4 DEF CallTypeOK
  <2>. QED  BY <1>1, <1>2, <1>5, <2>1 DEF CallTypeOK
<1>7. WindowAligned'
  <2>. SUFFICES ASSUME kind = "mmap", blsize = 0 PROVE cur' < PageSize
    BY <1>1, <1>5 DEF WindowInv, WindowAligned
  <2>1. cur < PageSize /\ data < 0
    BY <1>1 DEF WindowInv, WindowAligned, WindowMapped, WindowTypeOK, Null, MapFailed
  <2>2. Capped = 0
    <3>. SUFFICES ASSUME Capped # 0 PROVE FALSE
      OBVIOUS
    <3>1. 0 \in 0 .. Capped - 1
      BY <1>4
    <3>2. Readable(cur + 0)
      BY <3>1 DEF FetchCopy
    <3>3. data >= 0
      BY <3>2 DEF Readable
    <3>. QED  BY <2>1, <3>3, <1>1 DEF WindowInv, WindowTypeOK, Null, MapFailed
  <2>. QED  BY <1>3, <1>5, <2>1, <2>2, Wrap
<1>8. WindowInv'
  BY <1>1, <1>4, <1>5, <1>7 DEF WindowInv, WindowTypeOK, WindowMapped, NothingLeaked
<1>9. Offset' = WAdd(call'.start, call'.copied)
  <2>1. Offset' = WAdd(WAdd(bloff, cur), Capped)
    BY <1>3, <1>4, <1>5, Wrap DEF Offset
  <2>2. WAdd(bloff, cur) = WAdd(call.start, call.copied)
    BY <1>1, <1>2 DEF FetchAccounting, Offset
  <2>3. call.copied \in 0 .. Width - 1 /\ WAdd(call.copied, Capped) = call.copied + Capped
    BY <1>1, <1>2, <1>4 DEF WAdd
  <2>4. WAdd(WAdd(call.start, call.copied), Capped) = WAdd(call.start, WAdd(call.copied, Capped))
    <3>1. \A a, b, c \in 0 .. Width - 1 : WAdd(WAdd(a, b), c) = WAdd(a, WAdd(b, c))
      BY Wrap
    <3>. QED  BY <1>2, <1>4, <2>3, <3>1
  <2>. QED  BY <1>6, <2>1, <2>2, <2>3, <2>4
<1>10. CallTypeOK' /\ CallBounded' /\ FetchAccounting'
  BY <1>1, <1>2, <1>4, <1>5, <1>6, <1>9 DEF CallTypeOK, CallBounded, FetchAccounting
<1>. QED  BY <1>8, <1>10, SourceInvParts

\* The operations of source_mmap on its descriptor and its mapping.
LEMMA MapInv ==
  ASSUME SourceInv, NEW m \in MapArgs, Map(m)
  PROVE  SourceInv'
<1>1. /\ WindowInv /\ kind = "mmap" /\ ~fd /\ data = Null /\ fds = 0 /\ maps = 0
      /\ UNCHANGED <<kind, file, stream, pc>> /\ pc = "idle"
  BY SourceInvParts
  DEF Map, WindowInv, WindowMapped, NothingLeaked, WindowTypeOK, Null
<1>2. /\ m.off \in 0 .. Width - 1 /\ m.block \in 0 .. Width - 1
      /\ Width \in Nat \ {0} /\ PageSize \in Nat \ {0}
  BY SourceAssumption DEF SourceAssumption
<1>. DEFINE len == IF m.block = 0 THEN file ELSE m.block
<1>3. len \in 0 .. Width - 1
  BY <1>1, <1>2 DEF WindowInv, WindowTypeOK
<1>. HIDE DEF len
<1>4. CASE ec' = TRUE /\ UNCHANGED <<window, size, block, resources>>
  BY <1>1, <1>4, WindowStays, NoCallInv DEF Map
<1>5. CASE /\ fd' = TRUE /\ fds' = fds + 1 /\ ec' = TRUE
           /\ UNCHANGED <<window, size, block, maps>>
  BY <1>1, <1>5, NoCallInv
  DEF Map, window, WindowInv, WindowTypeOK, WindowMapped, WindowAligned, NothingLeaked
<1>6. CASE Reset /\ ec' = TRUE /\ UNCHANGED <<fds, maps>>
  BY <1>1, <1>6, ResetInv, NoCallInv DEF Map
<1>7. CASE /\ len # 0 /\ m.off % PageSize = 0
           /\ fd' = TRUE /\ fds' = fds + 1 /\ maps' = maps + 1
           /\ size' = file /\ block' = m.block
           /\ bloff' = m.off /\ blsize' = len /\ data' = m.off
           /\ UNCHANGED <<cur, ec>>
  <2>1. WindowTypeOK'
    BY <1>1, <1>2, <1>3, <1>7 DEF WindowInv, WindowTypeOK
  <2>2. WindowMapped' /\ WindowAligned' /\ NothingLeaked'
    BY <1>1, <1>2, <1>3, <1>7 DEF WindowMapped, WindowAligned, NothingLeaked
  <2>. QED  BY <1>1, <2>1, <2>2, NoCallInv DEF WindowInv, Map
<1>. QED  BY <1>4, <1>5, <1>6, <1>7 DEF Map, len

LEMMA UnmapInv ==
  ASSUME SourceInv, Unmap
  PROVE  SourceInv'
<1>1. /\ WindowInv /\ kind = "mmap" /\ pc = "idle"
      /\ UNCHANGED <<kind, file, stream, pc>> /\ call' = NoCall
  BY SourceInvParts DEF Unmap
<1>2. CASE fd /\ Reset /\ fds' = fds - 1 /\ ec' = (ec \/ blsize = 0)
           /\ maps' = IF blsize = 0 THEN maps ELSE maps - 1
  <2>1. fds' = 0 /\ maps' = 0
    BY <1>1, <1>2 DEF WindowInv, WindowTypeOK, WindowMapped, NothingLeaked
  <2>2. ec' \in BOOLEAN
    BY <1>2
  <2>. QED  BY <1>1, <1>2, <2>1, <2>2, ResetInv, NoCallInv
<1>3. CASE ec' = TRUE /\ UNCHANGED <<window, size, block, resources>>
  BY <1>1, <1>3, WindowStays, NoCallInv
<1>. QED  BY <1>2, <1>3 DEF Unmap

LEMMA DestroyInv ==
  ASSUME SourceInv, Destroy
  PROVE  SourceInv'
<1>1. /\ WindowInv /\ kind = "mmap" /\ pc = "idle"
      /\ UNCHANGED <<kind, file, stream>> /\ call' = NoCall
  BY SourceInvParts DEF Destroy
<1>2. CASE pc' = "abort" /\ UNCHANGED <<window, size, block, resources, ec>>
  <2>1. ec' \in BOOLEAN
    BY <1>1, <1>2 DEF WindowInv, WindowTypeOK
  <2>. QED  BY <1>1, <1>2, <2>1, WindowStays, NoCallInv
<1>3. CASE /\ data = Null \/ blsize # 0
           /\ Reset /\ ec' = FALSE /\ UNCHANGED pc
           /\ fds' = IF fd THEN fds - 1 ELSE fds
           /\ maps' = IF data = Null THEN maps ELSE maps - 1
  <2>1. fds' = 0 /\ maps' = 0
    BY <1>1, <1>3 DEF WindowInv, WindowTypeOK, WindowMapped, NothingLeaked, Null, MapFailed
  <2>. QED  BY <1>1, <1>3, <2>1, ResetInv, NoCallInv
<1>. QED  BY <1>2, <1>3 DEF Destroy

LEMMA PrefetchInv ==
  ASSUME SourceInv, Prefetch
  PROVE  SourceInv'
<1>1. /\ WindowInv /\ kind = "istream" /\ pc = "idle"
      /\ cur' = 0 /\ bloff' = WAdd(bloff, blsize) /\ data' = stream.pos
      /\ blsize' = GCount(stream.pos) /\ stream' = StreamAfterRead(stream.pos)
      /\ call' = NoCall /\ UNCHANGED <<kind, file, size, block, fd, fds, maps, ec, pc>>
  BY SourceInvParts DEF Prefetch, resources
<1>2. /\ bloff' \in 0 .. Width - 1 /\ blsize' \in 0 .. Width - 1
      /\ data' \in 0 .. Width - 1 /\ stream' \in [good : BOOLEAN, pos : 0 .. Width - 1]
      /\ 0 \in 0 .. Width - 1
  BY <1>1, Wrap, ReadType, SourceAssumption DEF WindowInv, WindowTypeOK, SourceAssumption
<1>3. WindowTypeOK'
  BY <1>1, <1>2 DEF WindowInv, WindowTypeOK
<1>4. WindowMapped' /\ WindowAligned' /\ NothingLeaked'
  BY <1>1 DEF WindowInv, WindowMapped, WindowAligned, NothingLeaked
<1>. QED  BY <1>1, <1>3, <1>4, NoCallInv DEF WindowInv

LEMMA StepInv == SourceInv /\ [Next]_vars => SourceInv'
<1>. SUFFICES ASSUME SourceInv, [Next]_vars PROVE SourceInv'
  OBVIOUS
<1>0. WindowInv /\ CallTypeOK /\ CallBounded /\ ec \in BOOLEAN
  BY SourceInvParts DEF WindowInv, WindowTypeOK
<1>1. ASSUME NEW n \in 0 .. MaxRequest, Fetch(n) \/ Advance(n) PROVE SourceInv'
  BY <1>1, CallStarts
<1>2. CASE FetchTop
  <2>1. pc' \in {"idle", "copy"} /\ call.op = "fetch" /\ UNCHANGED <<call, dest>>
    BY <1>0, <1>2 DEF FetchTop, CallBounded
  <2>2. CASE UNCHANGED <<kind, file, window, size, block, stream, resources, ec>>
    <3>1. WindowInv' /\ Offset' = Offset
      BY <1>0, <2>2, WindowStays
    <3>. QED  BY <2>1, <3>1, CallStays
  <2>3. CASE MakeAvailable(cur)
    BY <2>1, <2>3, RefillKeepsOffset, CallStays
  <2>. QED  BY <1>2, <2>2, <2>3 DEF FetchTop
<1>3. CASE FetchCopy
  BY <1>3, CopyInv
<1>4. CASE FetchFault
  <2>1. WindowInv' /\ Offset' = Offset
    BY <1>0, <1>4, WindowStays DEF FetchFault
  <2>. QED  BY <1>4, <2>1, CallStays DEF FetchFault
<1>5. CASE FetchRefill
  <2>1. pc' \in {"idle", "top"} /\ call.op = "fetch" /\ UNCHANGED <<call, dest>>
    BY <1>0, <1>5 DEF FetchRefill, CallBounded
  <2>. QED  BY <1>5, <2>1, RefillKeepsOffset, CallStays DEF FetchRefill
<1>6. CASE AdvanceStep
  <2>. DEFINE c == WAdd(cur, call.n)
  <2>1. c \in 0 .. Width - 1
    <3>1. cur \in 0 .. Width - 1 /\ call.n \in 0 .. Width - 1
      BY <1>0, SourceAssumption DEF WindowInv, WindowTypeOK, CallTypeOK, SourceAssumption
    <3>. QED  BY <3>1, Wrap
  <2>2. pc' \in {"idle", "advance"} /\ call.op = "advance" /\ UNCHANGED <<call, dest>>
    BY <1>0, <1>6 DEF AdvanceStep, InWindow, CallBounded
  <2>3. CASE /\ c <= blsize /\ cur' = c
             /\ UNCHANGED <<kind, file, bloff, blsize, data, size, block, stream, resources, ec>>
    <3>1. WindowInv'
      BY <1>0, <2>1, <2>3, SourceAssumption
      DEF WindowInv, WindowTypeOK, WindowMapped, WindowAligned, NothingLeaked, resources,
          SourceAssumption
    <3>. QED  BY <2>2, <3>1, CallStays
  <2>4. CASE MakeAvailable(c)
    <3>1. WindowInv'
      BY <1>0, <2>1, <2>4, MakeAvailableKeepsPosition
    <3>. QED  BY <2>2, <3>1, CallStays
  <2>. QED  BY <1>6, <2>3, <2>4 DEF AdvanceStep, InWindow
<1>7. CASE Prefetch
  BY <1>7, PrefetchInv
<1>8. ASSUME NEW m \in MapArgs, Map(m) PROVE SourceInv'
  BY <1>8, MapInv
<1>9. CASE Unmap
  BY <1>9, UnmapInv
<1>10. CASE Destroy
  BY <1>10, DestroyInv
<1>11. CASE UNCHANGED vars
  <2>1. WindowInv' /\ Offset' = Offset
    BY <1>0, <1>11, WindowStays DEF vars
  <2>2. CallTypeOK' /\ CallBounded' /\ FetchAccounting'
    BY <1>11, <2>1, SourceInvParts DEF vars, CallTypeOK, CallBounded, FetchAccounting
  <2>. QED  BY <2>1, <2>2, SourceInvParts
<1>. QED
  BY <1>1, <1>2, <1>3, <1>4, <1>5, <1>6, <1>7, <1>8, <1>9, <1>10, <1>11 DEF Next, Step

THEOREM SourceInvariant == Spec => []SourceInv
<1>. QED  BY InitInv, StepInv, PTL DEF Spec

-----------------------------------------------------------------------------
\* Every variable keeps its type, and no wrap of the 64-bit arithmetic or
\* failure of a system call takes a count of handles out of {0, 1}.
THEOREM SourceTypeCorrect == Spec => []TypeOK
<1>1. SourceInv => TypeOK
  BY DEF SourceInv
<1>. QED  BY <1>1, SourceInvariant, PTL

\* For every source, stream length, block and page size: a fetch moves
\* offset() by exactly what it reports to have copied.
THEOREM SourceFetchAccounting == Spec => []FetchAccounting
<1>1. SourceInv => FetchAccounting
  BY DEF SourceInv
<1>. QED  BY <1>1, SourceInvariant, PTL

\* Whatever fails, source_mmap holds exactly the descriptor and the mapping
\* it knows of.
THEOREM SourceNothingLeaked == Spec => []NothingLeaked
<1>1. SourceInv => NothingLeaked
  BY DEF SourceInv
<1>. QED  BY <1>1, SourceInvariant, PTL

-----------------------------------------------------------------------------
(* What is in the window: the inductive invariant.                         *)

WindowEnd == bloff + blsize

FromObjects == \E o \in Objects : o.kind = kind /\ o.file = file

BufferWindow ==
  kind = "buffer" =>
    /\ bloff = 0 /\ blsize = file /\ data = 0 /\ cur <= blsize /\ ~ec

\* A window is a whole block, or what is left of the file, or has not been
\* read; the stream stands at its end, and has failed only at the file's end.
IstreamWindow ==
  kind = "istream" =>
    /\ data = bloff /\ size = file /\ ~ec
    /\ stream.pos = WindowEnd /\ WindowEnd <= file
    /\ cur <= blsize /\ blsize <= block /\ (block = 0 => file = 0)
    /\ (block # 0 /\ bloff % block = 0) \/ bloff = file
    /\ blsize = block \/ WindowEnd = file \/ (blsize = 0 /\ bloff = 0)
    /\ ~stream.good => WindowEnd = file

\* What is mapped of a file in blocks: a block or what is left of the file, to
\* a page's end or the file's; or a block behind the end, with the cursor at
\* its beginning.
BlockWindow ==
  /\ blsize <= block
  /\ bloff < size => /\ WindowEnd < Width
                     /\ WindowEnd % PageSize = 0 \/ WindowEnd = size
                     /\ blsize = block \/ WindowEnd = size
  /\ bloff >= size => cur = 0
  /\ bloff % block = 0 \/ (cur = blsize /\ WindowEnd = size)

MmapWindow ==
  kind = "mmap" =>
    /\ ~fd => bloff = 0 /\ blsize = 0 /\ cur = 0 /\ size = 0 /\ block = 0
    /\ data >= 0 => data = bloff /\ size = file
    /\ size \in {0, file}
    /\ block % PageSize = 0
    /\ ~Adrift => cur <= blsize
    /\ ~Adrift /\ blsize = 0 => bloff = size /\ cur = 0
    /\ block = 0 => ~Broken /\ (blsize # 0 => bloff = 0 /\ blsize = size)
    /\ block # 0 /\ blsize # 0 => BlockWindow

StreamInv == FromObjects /\ BufferWindow /\ IstreamWindow /\ MmapWindow

\* Where a call has the cursor.  A source that lost its mapping copies nothing,
\* and a skip on it goes round in its page until the end of that; at the end of
\* a file only a skip of nothing is asked for, which goes round for ever.
CursorInv ==
  /\ pc = "copy" => cur < blsize \/ Adrift
  /\ pc = "refill" => cur = blsize \/ Adrift
  /\ pc = "advance" /\ ~Adrift => Offset = call.start /\ cur + call.n <= blsize
                                  /\ Offset + call.n <= Size
  /\ pc = "advance" /\ Broken => /\ cur + call.n < Width
                                 /\ call.n = 0 => Offset = call.start
  /\ pc = "advance" /\ Spent => Offset = call.start /\ call.n = 0
  /\ pc \in {"top", "copy", "refill"} /\ Adrift => call.copied = 0

\* A skip inside the window moves the cursor by what it was asked to.
SkipsExactly ==
  pc = "idle" /\ call.op = "advance" /\ ~ec => Offset = call.start + call.n

\* A source that has its whole stream in one window.
WholeSource ==
  \/ kind = "buffer"
  \/ kind = "istream" /\ block >= file
  \/ kind = "mmap" /\ block = 0

\* A fetch that needs no second window.
OneWindow ==
  \/ WholeSource
  \/ block > 0 /\ ~Overlong /\ (call.start % block) + call.n <= block

Delivered ==
  \A i \in DOMAIN dest :
    dest[i] = IF i < call.copied THEN call.start + i ELSE Unwritten

\* Such a fetch copies once.
DeliveryInv ==
  call.op = "fetch" /\ OneWindow =>
    /\ pc \in {"top", "copy"} => call.copied = 0
    /\ pc = "refill" => call.copied = call.n \/ Offset >= Size \/ Adrift
    /\ pc \in {"top", "copy", "refill", "idle"} => Delivered

ContentInv ==
  /\ SourceInv /\ StreamInv /\ CursorInv /\ DeliveryInv
  /\ NoFault /\ ShortOnlyAtEnd /\ SkipsExactly

-----------------------------------------------------------------------------
(* Multiples.                                                              *)

\* A multiple has a factor.
LEMMA MultipleFactor ==
  ASSUME NEW a \in Nat, NEW b \in Nat \ {0}, a % b = 0
  PROVE  a \div b \in Nat /\ a = b * (a \div b)
<1>1. a = (b * (a \div b)) + (a % b) /\ a \div b \in Nat
  OBVIOUS
<1>. QED  BY <1>1

\* The sum of two multiples is one.
LEMMA MultipleSum ==
  ASSUME NEW a \in Nat, NEW c \in Nat, NEW b \in Nat \ {0}, a % b = 0, c % b = 0
  PROVE  (a + c) % b = 0
<1>. DEFINE k == a \div b
            j == c \div b
<1>1. k \in Nat /\ j \in Nat /\ a = b * k /\ c = b * j
  BY MultipleFactor
<1>. HIDE DEF k, j
<1>2. a + c = b * (k + j) /\ k + j \in Nat
  BY <1>1
<1>3. \A m \in Nat : (b * m) % b = 0
  OBVIOUS
<1>. QED  BY <1>2, <1>3

\* A multiple that is not zero is at least as large as what it is one of.
LEMMA MultipleAtLeast ==
  ASSUME NEW a \in Nat \ {0}, NEW b \in Nat \ {0}, a % b = 0
  PROVE  a >= b
<1>1. a < b => a % b = a
  OBVIOUS
<1>. QED  BY <1>1

\* The pages of a file hold it, and end before any page that starts after it.
LEMMA PagesHold ==
  ASSUME NEW n \in Nat, NEW b \in Nat, b % PageSize = 0
  PROVE  Pages(n) \in Nat /\ n <= Pages(n) /\ (n <= b => Pages(n) <= b)
<1>1. PageSize \in Nat \ {0}
  BY SourceAssumption DEF SourceAssumption
<1>2. PICK m \in Nat : m = n + PageSize - 1
  BY <1>1
<1>3. Pages(n) = n + (PageSize - 1 - (m % PageSize))
  BY Zenon, <1>2 DEF Pages
<1>4. m % PageSize \in 0 .. m /\ m % PageSize < PageSize /\ (m - (m % PageSize)) % PageSize = 0
  BY <1>1, <1>2, PageSplit
<1>5. Pages(n) = m - (m % PageSize)
  BY <1>1, <1>2, <1>3, <1>4
<1>6. /\ Pages(n) \in Nat /\ n <= Pages(n) /\ Pages(n) < n + PageSize
      /\ Pages(n) % PageSize = 0
  BY <1>1, <1>2, <1>4, <1>5
<1>7. ASSUME n <= b PROVE Pages(n) <= b
  <2>1. PageSize % PageSize = 0
    BY <1>1
  <2>2. (b + PageSize) % PageSize = 0 /\ b + PageSize \in Nat
    BY <1>1, <2>1, MultipleSum
  <2>3. Pages(n) + PageSize <= b + PageSize
    BY <1>1, <1>6, <1>7, <2>2, PageBelow
  <2>. QED  BY <1>1, <1>6, <2>3
<1>. QED  BY <1>6, <1>7

-----------------------------------------------------------------------------
(* make_available.                                                         *)

\* The constants and the types the arithmetic needs.
LEMMA Numbers ==
  ASSUME SourceInv
  PROVE  /\ Width \in Nat \ {0} /\ PageSize \in Nat \ {0} /\ MaxRequest \in 0 .. Width - 1
         /\ kind \in {"buffer", "istream", "mmap"} /\ file \in 0 .. Width - 1
         /\ bloff \in 0 .. Width - 1 /\ blsize \in 0 .. Width - 1 /\ cur \in 0 .. Width - 1
         /\ size \in 0 .. Width - 1 /\ block \in 0 .. Width - 1
         /\ data \in {-1, -2} \cup (0 .. Width - 1)
         /\ stream.good \in BOOLEAN /\ stream.pos \in 0 .. Width - 1
         /\ fd \in BOOLEAN /\ ec \in BOOLEAN
         /\ call.op \in {"none", "fetch", "advance"} /\ call.n \in 0 .. MaxRequest
         /\ call.copied \in 0 .. call.n /\ call.start \in 0 .. Width - 1
         /\ call.op = "fetch" => DOMAIN dest = 0 .. call.n - 1
         /\ Offset \in 0 .. Width - 1
<1>1. /\ TypeOK /\ CallBounded
      /\ Width \in Nat \ {0} /\ PageSize \in Nat \ {0} /\ MaxRequest \in 0 .. Width - 1
  BY SourceAssumption DEF SourceInv, SourceAssumption
<1>2. Offset \in 0 .. Width - 1
  BY <1>1, Wrap DEF TypeOK, Offset
<1>3. stream.good \in BOOLEAN /\ stream.pos \in 0 .. Width - 1
  BY <1>1 DEF TypeOK
<1>4. /\ call.op \in {"none", "fetch", "advance"} /\ call.n \in 0 .. MaxRequest
      /\ call.copied \in 0 .. call.n /\ call.start \in 0 .. Width - 1
  BY <1>1 DEF TypeOK, CallBounded
<1>. QED  BY <1>1, <1>2, <1>3, <1>4 DEF TypeOK, Null, MapFailed

\* What a refill of the window at its end makes of it: it is empty exactly at
\* the end of the stream, and a window that is too long is followed by such.
Refilled ==
  /\ StreamInv'
  /\ ~ec' /\ ~Broken' /\ cur' >= blsize' => Offset >= Size
  /\ Offset >= Size /\ ~Overlong /\ ~Broken => ec' \/ cur' >= blsize'
  /\ Adrift' => ec' \/ cur' >= blsize'
  /\ Spent => UNCHANGED <<bloff, blsize, cur, data, ec>>
  /\ Overlong => Overlong'
  /\ Broken => Broken' /\ (ec' \/ cur' >= blsize')
  /\ Broken' => Broken \/ ec'
  /\ UNCHANGED <<kind, file, size, block>>

LEMMA BufferRefilled ==
  ASSUME SourceInv, StreamInv, kind = "buffer", cur = blsize, MakeAvailable(cur)
  PROVE  Refilled
<1>1. UNCHANGED <<kind, file, size, block, bloff, blsize, cur, data, ec>>
  BY DEF MakeAvailable, BufferMakeAvailable
<1>2. /\ bloff = 0 /\ blsize = file /\ data = 0 /\ blsize \in Nat /\ blsize < Width
      /\ Width \in Nat
  BY Numbers DEF StreamInv, BufferWindow
<1>3. Offset = blsize /\ Size = blsize
  BY <1>2 DEF Offset, Size, WAdd
<1>4. StreamInv'
  BY <1>1, <1>2 DEF StreamInv, FromObjects, BufferWindow, IstreamWindow, MmapWindow
<1>5. ~Broken /\ ~Adrift' /\ ~Spent /\ ~Overlong
  BY <1>1, <1>2 DEF Adrift, Broken, Spent, MapFailed, Overlong
<1>. QED  BY <1>1, <1>2, <1>3, <1>4, <1>5 DEF Refilled, Adrift

LEMMA IstreamRefilled ==
  ASSUME SourceInv, StreamInv, kind = "istream", cur = blsize, MakeAvailable(cur)
  PROVE  Refilled
<1>1. /\ Width \in Nat \ {0} /\ file \in 0 .. Width - 1 /\ size = file
      /\ bloff \in Nat /\ blsize \in Nat /\ block \in Nat /\ stream.good \in BOOLEAN
      /\ WindowEnd = bloff + blsize /\ WindowEnd <= file /\ blsize <= block
      /\ block = 0 => file = 0
      /\ (block # 0 /\ bloff % block = 0) \/ bloff = file
      /\ blsize = block \/ WindowEnd = file \/ (blsize = 0 /\ bloff = 0)
      /\ ~stream.good => WindowEnd = file
      /\ data = bloff /\ ~ec
  BY Numbers DEF StreamInv, IstreamWindow, WindowEnd
<1>. DEFINE foff == WindowEnd
            n == GCount(foff)
<1>2. WAdd(bloff, cur) = foff /\ Offset = foff /\ Size = file
  BY <1>1 DEF WAdd, Offset, Size
<1>3. /\ bloff' = foff /\ cur' = 0 /\ data' = foff /\ blsize' = n
      /\ stream' = [good |-> stream.good /\ n = block, pos |-> foff + n]
      /\ UNCHANGED <<kind, file, size, block, ec>>
  BY <1>2 DEF MakeAvailable, IstreamMakeAvailable, StreamAfterRead, resources
<1>4. /\ n \in Nat /\ n <= block /\ foff + n <= file
      /\ n = block \/ foff + n = file
      /\ n = 0 <=> foff = file
  BY <1>1 DEF GCount, Smaller
<1>. HIDE DEF n
<1>5. (block # 0 /\ foff % block = 0) \/ foff = file
  <2>1. CASE WindowEnd = file  BY <2>1
  <2>2. CASE WindowEnd # file /\ blsize = block
    <3>1. block # 0 /\ bloff % block = 0 /\ block % block = 0
      BY <1>1, <2>2
    <3>. QED  BY <1>1, <2>2, <3>1, MultipleSum
  <2>3. CASE WindowEnd # file /\ blsize = 0 /\ bloff = 0
    BY <1>1, <2>3
  <2>. QED  BY <1>1, <2>1, <2>2, <2>3
<1>6. stream'.pos = foff + n /\ (~stream'.good => foff + n = file)
  BY <1>1, <1>3, <1>4
<1>7. StreamInv'
  <2>1. IstreamWindow'
    BY <1>1, <1>3, <1>4, <1>5, <1>6 DEF IstreamWindow, WindowEnd
  <2>. QED
    BY <1>3, <2>1 DEF StreamInv, FromObjects, BufferWindow, MmapWindow
<1>8. ~Broken /\ ~Adrift' /\ ~Spent /\ ~Overlong
  BY <1>1, <1>3 DEF Adrift, Broken, Spent, MapFailed, Overlong
<1>. QED  BY <1>1, <1>2, <1>3, <1>4, <1>7, <1>8 DEF Refilled, Adrift

\* Entering make_available of a mapping: the page the cursor is in, where in
\* the page, and what is mapped of it.
LEMMA MmapPages ==
  ASSUME SourceInv, kind = "mmap", NEW c \in 0 .. Width - 1, MakeAvailable(c)
  PROVE  \E off, base, will \in Nat :
           /\ base + off = WAdd(bloff, c) /\ base + off < Width
           /\ off = WAdd(bloff, c) % PageSize /\ off < PageSize /\ base % PageSize = 0
           /\ will = Smaller(WSub(size, base), block)
           /\ cur' = off /\ UNCHANGED <<kind, file, size, block, stream, fd, fds>>
           /\ \/ base = bloff /\ UNCHANGED <<bloff, blsize, data, maps, ec>>
              \/ base # bloff /\ blsize = 0 /\ ec' = TRUE
                 /\ UNCHANGED <<bloff, blsize, data, maps>>
              \/ /\ base # bloff /\ blsize # 0 /\ bloff' = base
                 /\ \/ will = 0 /\ blsize' = 0 /\ data' = Null /\ UNCHANGED ec
                    \/ will # 0 /\ blsize' = will /\ data' = base /\ UNCHANGED ec
                    \/ will # 0 /\ blsize' = 0 /\ data' = MapFailed /\ ec' = TRUE
<1>. DEFINE foff == WAdd(bloff, c)
            off  == foff % PageSize
            base == foff - off
            will == Smaller(WSub(size, base), block)
<1>1. /\ Width \in Nat \ {0} /\ PageSize \in Nat \ {0}
      /\ bloff \in 0 .. Width - 1 /\ size \in 0 .. Width - 1 /\ block \in 0 .. Width - 1
  BY Numbers
<1>2. foff \in 0 .. Width - 1
  BY <1>1, Wrap
<1>3. off \in 0 .. foff /\ off < PageSize /\ base % PageSize = 0
  <2>. HIDE DEF foff
  <2>. QED  BY <1>1, <1>2, PageSplit
<1>4. base \in 0 .. Width - 1 /\ base + off = foff /\ off \in Nat
  <2>. HIDE DEF foff, off
  <2>. QED  BY <1>1, <1>2, <1>3
<1>5. will \in Nat
  <2>. HIDE DEF foff, off, base
  <2>. QED  BY <1>1, <1>4, Wrap DEF Smaller
<1>6. MmapMakeAvailable(c) /\ UNCHANGED <<kind, file, size, block>>
  BY DEF MakeAvailable
<1>7. cur' = off /\ UNCHANGED <<stream, fd, fds>>
  BY <1>6 DEF MmapMakeAvailable
<1>8. \/ base = bloff /\ UNCHANGED <<bloff, blsize, data, maps, ec>>
      \/ base # bloff /\ blsize = 0 /\ ec' = TRUE /\ UNCHANGED <<bloff, blsize, data, maps>>
      \/ /\ base # bloff /\ blsize # 0 /\ bloff' = base
         /\ \/ will = 0 /\ blsize' = 0 /\ data' = Null /\ UNCHANGED ec
            \/ will # 0 /\ blsize' = will /\ data' = base /\ UNCHANGED ec
            \/ will # 0 /\ blsize' = 0 /\ data' = MapFailed /\ ec' = TRUE
  BY <1>6 DEF MmapMakeAvailable
<1>9. foff = WAdd(bloff, c) /\ off = foff % PageSize /\ will = Smaller(WSub(size, base), block)
  OBVIOUS
<1>. HIDE DEF foff, off, base, will
<1>10. base + off < Width
  BY <1>1, <1>2, <1>4
<1>. off \in Nat /\ base \in Nat /\ will \in Nat
  BY <1>1, <1>4, <1>5
<1>. WITNESS off \in Nat, base \in Nat, will \in Nat
<1>. QED  BY <1>3, <1>4, <1>6, <1>7, <1>8, <1>9, <1>10

\* The page a mapping starts with, and the page of its cursor, are in size_t.
LEMMA MmapAligned ==
  ASSUME SourceInv, kind = "mmap"
  PROVE  bloff % PageSize = 0 /\ bloff + PageSize <= Width /\ (PageSize < Width => 2 * PageSize <= Width)
<1>1. /\ Width \in Nat \ {0} /\ PageSize \in Nat \ {0} /\ Width % PageSize = 0
      /\ bloff \in Nat /\ Width \in Nat /\ bloff < Width /\ bloff % PageSize = 0
  BY Numbers, SourceAssumption DEF SourceInv, WindowAligned, SourceAssumption
<1>2. bloff + PageSize <= Width
  BY <1>1, PageBelow
<1>3. PageSize % PageSize = 0
  BY <1>1
<1>4. PageSize < Width => 2 * PageSize <= Width
  BY <1>1, <1>3, PageBelow
<1>. QED  BY <1>1, <1>2, <1>4

\* A source that lost its mapping stays without one: the cursor is moved in
\* its page, or the munmap of nothing fails.
LEMMA BrokenRefilled ==
  ASSUME SourceInv, StreamInv, kind = "mmap", Broken, NEW c \in 0 .. Width - 1, MakeAvailable(c)
  PROVE  /\ StreamInv' /\ Broken' /\ blsize = 0
         /\ UNCHANGED <<kind, file, size, block, bloff, blsize>>
         /\ cur' \in Nat
         /\ ec' \/ (UNCHANGED ec /\ cur' = c /\ c < PageSize)
<1>1. /\ blsize = 0 /\ fd /\ data = -2 /\ block # 0 /\ bloff \in Nat /\ Width \in Nat
  <2>1. data = -2
    BY DEF Broken, MapFailed
  <2>. QED
    BY Numbers, <2>1 DEF SourceInv, WindowMapped, StreamInv, MmapWindow, Broken, Null, MapFailed
<1>2. PICK off, base, will \in Nat :
        /\ base + off = WAdd(bloff, c) /\ off < PageSize
        /\ cur' = off /\ UNCHANGED <<kind, file, size, block, fd>>
        /\ \/ base = bloff /\ UNCHANGED <<bloff, blsize, data, maps, ec>>
           \/ base # bloff /\ blsize = 0 /\ ec' = TRUE /\ UNCHANGED <<bloff, blsize, data, maps>>
           \/ base # bloff /\ blsize # 0
  BY MmapPages
<1>3. WAdd(bloff, c) = bloff + c \/ WAdd(bloff, c) = bloff + c - Width
  BY <1>1 DEF WAdd
<1>4. base = bloff => cur' = c
  BY <1>1, <1>2, <1>3
<1>5. UNCHANGED <<kind, file, size, block, fd, bloff, blsize, data>>
  BY <1>1, <1>2
<1>6. MmapWindow'
  BY <1>1, <1>5 DEF StreamInv, MmapWindow, Adrift, Broken, MapFailed
<1>7. StreamInv'
  BY <1>5, <1>6 DEF StreamInv, FromObjects, BufferWindow, IstreamWindow
<1>. QED  BY <1>1, <1>2, <1>4, <1>5, <1>7 DEF Broken

\* Where a file mapped whole leaves the cursor that has reached its end inside a
\* later page.
LEMMA SpentFacts ==
  ASSUME SourceInv, StreamInv, Spent
  PROVE  /\ kind = "mmap" /\ block = 0 /\ blsize = 0 /\ fd /\ ~Broken /\ ~Overlong
         /\ size = file /\ Size = size /\ Offset = size
         /\ cur \in 1 .. PageSize - 1 /\ bloff + cur = size /\ bloff \in Nat
         /\ bloff % PageSize = 0
<1>1. /\ kind = "mmap" /\ block = 0 /\ blsize = 0 /\ Offset = size
      /\ size > PageSize /\ size % PageSize # 0
  BY DEF Spent
<1>2. /\ Width \in Nat \ {0} /\ PageSize \in Nat \ {0} /\ bloff \in Nat /\ cur \in Nat
      /\ size \in Nat
  BY Numbers
<1>3. cur < PageSize /\ bloff % PageSize = 0 /\ bloff + PageSize <= Width
  BY <1>1, MmapAligned DEF SourceInv, WindowAligned
<1>4. bloff + cur = size
  BY <1>1, <1>2, <1>3 DEF Offset, WAdd
<1>5. cur # 0
  BY <1>1, <1>2, <1>3, <1>4
<1>6. fd /\ size = file /\ ~Broken
  BY <1>1, <1>2 DEF StreamInv, MmapWindow
<1>7. Size = size /\ ~Overlong
  BY <1>1, <1>2, <1>4 DEF Size, Overlong
<1>. QED  BY <1>1, <1>2, <1>3, <1>4, <1>5, <1>6, <1>7

\* Such a source finds the page of its cursor mapped, and nothing in it.
LEMMA SpentRefilled ==
  ASSUME SourceInv, StreamInv, Spent, MakeAvailable(cur)
  PROVE  /\ UNCHANGED <<kind, file, size, block, bloff, blsize, cur, data, fd, ec>>
         /\ StreamInv' /\ Spent' /\ cur > blsize
<1>1. /\ kind = "mmap" /\ blsize = 0 /\ cur \in 1 .. PageSize - 1 /\ bloff + cur = size
      /\ bloff \in Nat /\ bloff % PageSize = 0 /\ Offset = size
      /\ PageSize \in Nat \ {0} /\ cur \in 0 .. Width - 1
  BY Numbers, SpentFacts
<1>2. PICK off, base, will \in Nat :
        /\ base + off = WAdd(bloff, cur) /\ off = WAdd(bloff, cur) % PageSize
        /\ cur' = off /\ UNCHANGED <<kind, file, size, block, fd>>
        /\ \/ base = bloff /\ UNCHANGED <<bloff, blsize, data, maps, ec>>
           \/ base # bloff
  BY <1>1, MmapPages
<1>3. WAdd(bloff, cur) = bloff + cur
  BY <1>1 DEF Offset
<1>4. off = cur /\ base = bloff
  <2>1. (bloff + cur) % PageSize = cur
    <3>1. cur \in 0 .. PageSize - 1
      BY <1>1
    <3>. QED  BY <1>1, <3>1, PageJoin
  <2>2. off = cur
    BY <1>2, <1>3, <2>1, Zenon
  <2>. QED  BY <1>1, <1>2, <1>3, <2>2
<1>5. UNCHANGED <<kind, file, size, block, bloff, blsize, cur, data, fd, ec>>
  BY <1>2, <1>4
<1>6. Spent'
  BY <1>5 DEF Spent, Offset, WAdd
<1>7. StreamInv'
  BY <1>5, <1>6, <1>1
  DEF StreamInv, FromObjects, BufferWindow, IstreamWindow, MmapWindow, Adrift, Broken
<1>. QED  BY <1>1, <1>5, <1>6, <1>7

LEMMA MmapRefilled ==
  ASSUME SourceInv, StreamInv, kind = "mmap", ~Adrift, cur = blsize, MakeAvailable(cur)
  PROVE  Refilled
<1>. DEFINE foff == WAdd(bloff, cur)
<1>1. /\ Width \in Nat \ {0} /\ PageSize \in Nat \ {0}
      /\ bloff \in 0 .. Width - 1 /\ blsize \in 0 .. Width - 1 /\ cur \in 0 .. Width - 1
      /\ size \in 0 .. Width - 1 /\ block \in 0 .. Width - 1
      /\ block % PageSize = 0 /\ data \in {-1, -2} \cup (0 .. Width - 1)
  BY Numbers DEF StreamInv, MmapWindow
<1>2. PICK off, base, will \in Nat :
        /\ base + off = foff /\ base + off < Width
        /\ off = foff % PageSize /\ off < PageSize /\ base % PageSize = 0
        /\ will = Smaller(WSub(size, base), block)
        /\ cur' = off /\ UNCHANGED <<kind, file, size, block, stream, fd, fds>>
        /\ \/ base = bloff /\ UNCHANGED <<bloff, blsize, data, maps, ec>>
           \/ base # bloff /\ blsize = 0 /\ ec' = TRUE /\ UNCHANGED <<bloff, blsize, data, maps>>
           \/ /\ base # bloff /\ blsize # 0 /\ bloff' = base
              /\ \/ will = 0 /\ blsize' = 0 /\ data' = Null /\ UNCHANGED ec
                 \/ will # 0 /\ blsize' = will /\ data' = base /\ UNCHANGED ec
                 \/ will # 0 /\ blsize' = 0 /\ data' = MapFailed /\ ec' = TRUE
  BY <1>1, MmapPages
<1>3. Size = size /\ Offset = foff
  BY <1>1 DEF Size, Offset
<1>4. FromObjects' /\ BufferWindow' /\ IstreamWindow'
  BY <1>2 DEF StreamInv, FromObjects, BufferWindow, IstreamWindow
\* An empty window is at the end of the stream, and stays there.
<1>5. CASE blsize = 0
  <2>1. bloff = size /\ cur = 0
    BY <1>5 DEF StreamInv, MmapWindow
  <2>2. foff = bloff
    BY <1>1, <2>1 DEF WAdd
  <2>3. off = 0 /\ base = bloff
    <3>. HIDE DEF foff
    <3>1. bloff % PageSize = 0
      BY MmapAligned
    <3>. QED  BY <1>1, <1>2, <2>2, <3>1
  <2>. HIDE DEF foff
  <2>4. cur' = cur /\ UNCHANGED <<bloff, blsize, data, maps, ec>>
    BY <1>2, <2>1, <2>3
  <2>5. Adrift' = Adrift /\ Broken' = Broken /\ Overlong' = Overlong
    BY <1>2, <2>4 DEF Adrift, Broken, Spent, Overlong, Offset, WAdd
  <2>6. MmapWindow'
    BY <1>2, <1>5, <2>4, <2>5 DEF StreamInv, MmapWindow, Broken
  <2>. QED
    BY <1>2, <1>3, <1>4, <1>5, <2>1, <2>2, <2>4, <2>5, <2>6 DEF Refilled, StreamInv, Adrift
<1>6. CASE blsize # 0
  <2>1. fd /\ data >= 0 /\ data = bloff /\ size = file
    BY <1>6 DEF SourceInv, WindowMapped, StreamInv, MmapWindow, Null
  <2>2. /\ block = 0 => bloff = 0 /\ blsize = size
        /\ block # 0 => BlockWindow /\ block >= PageSize
    BY <1>1, <1>6, MultipleAtLeast DEF StreamInv, MmapWindow
  <2>3. bloff < size /\ foff = bloff + blsize
        /\ (foff % PageSize = 0 \/ foff = size)
        /\ (block # 0 => blsize = block \/ foff = size)
    <3>1. CASE block = 0
      BY <1>1, <1>6, <2>2, <3>1 DEF WAdd
    <3>2. CASE block # 0
      BY <1>1, <1>6, <2>2, <3>2 DEF BlockWindow, WindowEnd, WAdd
    <3>. QED  BY <3>1, <3>2
  <2>. HIDE DEF foff
  \* The end of the file, inside a page or at its end.
  <2>4. CASE foff = size
    <3>1. CASE base = bloff
      <4>1. UNCHANGED <<bloff, blsize, data, ec>> /\ cur' = cur
        BY <1>1, <1>2, <2>3, <3>1
      <4>2. Adrift' = Adrift /\ Broken' = Broken /\ Overlong' = Overlong
        BY <1>2, <4>1 DEF Adrift, Broken, Spent, Overlong, Offset, WAdd
      <4>3. MmapWindow'
        BY <1>2, <4>1, <4>2 DEF StreamInv, MmapWindow, BlockWindow, WindowEnd, Broken
      <4>. QED
        BY <1>2, <1>3, <1>4, <2>4, <4>1, <4>2, <4>3 DEF Refilled, StreamInv, Adrift
    \* Inside a later page: what is left of it is mapped in a block, or dropped.
    <3>2. CASE base # bloff
      <4>1. WSub(size, base) = off
        BY <1>1, <1>2, <2>4 DEF WSub
      <4>2. /\ block # 0 => will = off
            /\ block = 0 => will = 0 /\ base >= PageSize
        <5>1. block # 0 => will = off
          BY <1>1, <1>2, <2>2, <4>1 DEF Smaller
        <5>2. block = 0 => will = 0
          BY <1>2, <4>1 DEF Smaller
        <5>3. block = 0 => base >= PageSize
          BY <1>1, <1>2, <2>2, <3>2, MultipleAtLeast
        <5>. QED  BY <5>1, <5>2, <5>3
      <4>3. /\ bloff' = base /\ cur' = off /\ base + off = size
            /\ \/ will = 0 /\ blsize' = 0 /\ data' = Null /\ UNCHANGED ec
               \/ will # 0 /\ blsize' = will /\ data' = base /\ UNCHANGED ec
               \/ will # 0 /\ blsize' = 0 /\ data' = MapFailed /\ ec' = TRUE
        BY <1>2, <1>6, <2>4, <3>2
      <4>4. /\ Spent' <=> block = 0 /\ off # 0
            /\ Broken' => ec' /\ block # 0
            /\ cur' >= blsize' /\ ~Overlong
        <5>1. block = 0 /\ off # 0 => Spent'
          <6>. SUFFICES ASSUME block = 0, off # 0 PROVE Spent'
            OBVIOUS
          <6>1. size % PageSize = off
            BY <1>2, <2>4
          <6>2. Offset' = size /\ size > PageSize
            BY <1>1, <1>2, <4>2, <4>3 DEF Offset, WAdd
          <6>. QED  BY <1>2, <4>2, <4>3, <6>1, <6>2 DEF Spent
        <5>2. Spent' => block = 0 /\ off # 0
          <6>1. off = 0 => size % PageSize = 0
            BY <1>2, <2>4
          <6>. QED  BY <1>2, <6>1 DEF Spent
        <5>3. Broken' => ec' /\ block # 0
          BY <1>2, <4>2, <4>3 DEF Broken, Null, MapFailed
        <5>4. cur' >= blsize'
          BY <1>2, <4>2, <4>3
        <5>5. ~Overlong
          BY <1>1, <2>3, <2>4 DEF Overlong
        <5>. QED  BY <5>1, <5>2, <5>3, <5>4, <5>5
      <4>5. /\ ~Adrift' => blsize' = off
            /\ ~Adrift' /\ off = 0 => bloff' = size
            /\ blsize' # 0 => block # 0
            /\ data' >= 0 => data' = bloff' /\ off # 0 /\ block # 0 /\ blsize' = off
        <5>1. data' = MapFailed => Broken'
          BY DEF Broken
        <5>. QED  BY <1>2, <4>2, <4>3, <4>4, <5>1 DEF Adrift, Null, MapFailed
      <4>6. MmapWindow'
        <5>1. block # 0 /\ blsize' # 0 => BlockWindow'
          BY <1>1, <1>2, <2>2, <4>2, <4>3, <4>5 DEF BlockWindow, WindowEnd, Null, MapFailed
        <5>2. block = 0 => ~Broken'
          BY <4>4
        <5>3. UNCHANGED <<kind, file, size, block, fd>> /\ fd /\ size = file
          BY <1>2, <2>1
        <5>4. /\ ~Adrift' => cur' <= blsize'
              /\ ~Adrift' /\ blsize' = 0 => bloff' = size' /\ cur' = 0
          BY <1>1, <1>2, <4>3, <4>5, <5>3
        <5>5. /\ data' >= 0 => data' = bloff' /\ size' = file'
              /\ size' \in {0, file'} /\ block' % PageSize = 0 /\ fd'
          BY <1>1, <4>5, <5>3
        <5>6. /\ block' = 0 => ~Broken' /\ (blsize' # 0 => bloff' = 0 /\ blsize' = size')
              /\ block' # 0 /\ blsize' # 0 => BlockWindow'
          BY <4>5, <5>1, <5>2, <5>3
        <5>. QED  BY <5>4, <5>5, <5>6 DEF MmapWindow
      <4>7. Broken' => ec'
        BY <4>4
      <4>8. ~Spent /\ ~Broken /\ Offset >= Size
        BY <1>1, <1>3, <2>4 DEF Adrift
      <4>. QED  BY <1>2, <1>4, <4>4, <4>6, <4>7, <4>8 DEF Refilled, StreamInv
    <3>. QED  BY <3>1, <3>2
  \* The end of a block, at the end of a page.
  <2>5. CASE foff # size
    <3>1. /\ foff % PageSize = 0 /\ block # 0 /\ blsize = block /\ block >= PageSize
          /\ bloff % block = 0
      BY <1>1, <2>2, <2>3, <2>5 DEF BlockWindow, WindowEnd
    <3>2. off = 0 /\ base = foff /\ base # bloff
      BY <1>1, <1>2, <1>6, <2>3, <3>1
    <3>3. /\ will \in 1 .. block
          /\ foff < size => will = Smaller(size - foff, block)
      <4>1. WSub(size, base) >= 1 /\ WSub(size, base) \in Nat
            /\ (foff < size => WSub(size, base) = size - foff)
        BY <1>1, <1>2, <2>5, <3>2 DEF WSub
      <4>2. will \in 1 .. block
        BY <1>1, <1>2, <3>1, <4>1 DEF Smaller
      <4>. QED  BY <1>2, <3>2, <4>1, <4>2
    <3>4. foff % block = 0
      <4>1. block % block = 0
        BY <1>1, <3>1
      <4>. QED  BY <1>1, <2>3, <3>1, <4>1, MultipleSum
    <3>5. (foff + block) % PageSize = 0
      BY <1>1, <1>2, <3>1, MultipleSum
    <3>6. /\ bloff' = foff /\ cur' = 0
          /\ \/ blsize' = will /\ data' = foff /\ UNCHANGED ec
             \/ blsize' = 0 /\ data' = MapFailed /\ ec' = TRUE
      BY <1>2, <1>6, <3>2, <3>3
    <3>7. MmapWindow'
      <4>1. CASE blsize' = 0 /\ data' = MapFailed
        BY <1>1, <1>2, <2>1, <3>1, <3>6, <4>1 DEF MmapWindow, Adrift, Broken, Null, MapFailed
      <4>2. CASE blsize' = will /\ data' = foff
        <5>1. BlockWindow'
          <6>1. WindowEnd' = foff + will
            BY <3>6, <4>2 DEF WindowEnd
          <6>2. foff < size => \/ will = block
                               \/ foff + will = size
            BY <1>1, <1>2, <3>3 DEF Smaller
          <6>3. foff < size => foff + will <= size
            BY <1>1, <1>2, <3>3 DEF Smaller
          <6>4. foff < size => WindowEnd' < Width
            BY <1>1, <1>2, <3>3, <6>1, <6>3
          <6>5. foff < size => WindowEnd' % PageSize = 0 \/ WindowEnd' = size
            BY <3>5, <6>1, <6>2
          <6>6. foff < size => blsize' = block \/ WindowEnd' = size
            BY <4>2, <6>1, <6>2
          <6>. QED
            BY <1>2, <3>3, <3>4, <3>6, <4>2, <6>4, <6>5, <6>6 DEF BlockWindow
        <5>. QED
          BY <1>1, <1>2, <2>1, <3>1, <3>3, <3>6, <4>2, <5>1
          DEF MmapWindow, Adrift, Broken, MapFailed
      <4>. QED  BY <3>6, <4>1, <4>2
    <3>8. /\ Overlong => Overlong' /\ foff >= size
          /\ foff >= size => Overlong
      BY <1>1, <1>2, <2>3, <2>5, <3>3, <3>6 DEF Overlong
    <3>9. /\ Broken' => ec'
          /\ ~Broken' => ~(cur' >= blsize')
      <4>1. CASE blsize' = will /\ data' = foff
        <5>1. ~Broken'
          BY <1>2, <4>1 DEF Broken, MapFailed
        <5>. QED  BY <3>3, <3>6, <4>1, <5>1
      <4>2. CASE blsize' = 0 /\ data' = MapFailed /\ ec' = TRUE
        BY <4>2 DEF Broken
      <4>. QED  BY <3>6, <4>1, <4>2
    <3>10. StreamInv' /\ UNCHANGED <<kind, file, size, block>>
      BY <1>2, <1>4, <3>7 DEF StreamInv
    <3>11. Offset >= Size /\ ~Overlong => FALSE
      BY <1>3, <3>8
    <3>12. ~ec' /\ ~Broken' /\ cur' >= blsize' => Offset >= Size
      BY <3>9
    <3>13. ~Spent /\ ~Broken /\ ~Spent'
      BY <1>2, <3>1 DEF Adrift, Spent
    <3>. QED  BY <3>8, <3>9, <3>10, <3>11, <3>12, <3>13 DEF Refilled, Adrift
  <2>. QED  BY <2>4, <2>5
<1>. QED  BY <1>5, <1>6

\* Only a mapping can be lost.
LEMMA BrokenIsMmap ==
  ASSUME SourceInv, StreamInv
  PROVE  Broken => kind = "mmap" /\ blsize = 0 /\ fd
<1>. SUFFICES ASSUME Broken PROVE kind = "mmap" /\ blsize = 0 /\ fd
  OBVIOUS
<1>1. data = -2
  BY DEF Broken, MapFailed
<1>. QED
  BY <1>1, Numbers
  DEF SourceInv, WindowMapped, StreamInv, BufferWindow, IstreamWindow, Null

\* Every refill of a window at its end, and of one that the cursor is behind.
LEMMA WindowRefilled ==
  ASSUME SourceInv, StreamInv, cur = blsize \/ Adrift, MakeAvailable(cur)
  PROVE  Refilled
<1>1. kind \in {"buffer", "istream", "mmap"} /\ cur \in 0 .. Width - 1
  BY Numbers
<1>2. CASE Broken
  <2>1. kind = "mmap"
    BY <1>2, BrokenIsMmap
  <2>2. /\ StreamInv' /\ Broken' /\ blsize = 0 /\ cur' \in Nat
        /\ UNCHANGED <<kind, file, size, block, bloff, blsize>>
    BY <1>1, <1>2, <2>1, BrokenRefilled
  <2>3. Overlong' = Overlong /\ cur' >= blsize' /\ ~Spent
    BY <1>2, <2>2, SpentFacts DEF Overlong
  <2>. QED  BY <1>2, <2>2, <2>3 DEF Refilled
<1>3. CASE Spent
  <2>1. ~Broken /\ ~Overlong /\ Offset = Size
    BY <1>3, SpentFacts
  <2>2. /\ UNCHANGED <<kind, file, size, block, bloff, blsize, cur, data, ec>>
        /\ StreamInv' /\ cur' > blsize'
    BY <1>3, SpentRefilled
  <2>3. ~Broken'
    BY <2>1, <2>2 DEF Broken
  <2>. QED  BY <1>1, <2>1, <2>2, <2>3, Numbers DEF Refilled
<1>4. CASE ~Adrift
  BY <1>1, <1>4, BufferRefilled, IstreamRefilled, MmapRefilled
<1>. QED  BY <1>2, <1>3, <1>4 DEF Adrift

\* The size of the stream is the file's, and no refill changes it.
LEMMA RefillKeepsSize ==
  ASSUME SourceInv, StreamInv, Refilled
  PROVE  Size' = Size
<1>1. kind = "buffer" => blsize = file /\ blsize' = file
  BY DEF Refilled, StreamInv, BufferWindow
<1>. QED  BY <1>1 DEF Refilled, Size

\* A window that is not too long has only bytes of the stream, which follow the
\* cursor there and in memory.
LEMMA WindowInStream ==
  ASSUME SourceInv, StreamInv, ~Adrift
  PROVE  /\ cur <= blsize /\ Avail = blsize - cur
         /\ blsize # 0 => data = bloff /\ data >= 0
         /\ ~Overlong => WindowEnd <= Size /\ Size < Width /\ (blsize # 0 => Size = file)
                         /\ Offset = bloff + cur
<1>1. /\ kind \in {"buffer", "istream", "mmap"}
      /\ bloff \in Nat /\ blsize \in Nat /\ cur \in Nat /\ size \in Nat /\ file \in Nat
      /\ Width \in Nat /\ blsize < Width /\ file < Width /\ size < Width
      /\ data \in {-1, -2} \cup (0 .. Width - 1)
  BY Numbers
<1>2. cur <= blsize
  BY <1>1 DEF StreamInv, BufferWindow, IstreamWindow, MmapWindow
<1>3. blsize # 0 => data = bloff /\ data >= 0
  BY <1>1
  DEF StreamInv, BufferWindow, IstreamWindow, MmapWindow, SourceInv, WindowMapped, Null
<1>4. Size \in Nat /\ (~Overlong => WindowEnd <= Size /\ Size < Width)
  BY <1>1 DEF Overlong, Size, WindowEnd, StreamInv, BufferWindow, IstreamWindow
<1>5. blsize # 0 => Size = file
  BY <1>1, <1>3 DEF Size, StreamInv, BufferWindow, IstreamWindow, MmapWindow
<1>6. ~Overlong => Offset = bloff + cur
  BY <1>1, <1>2, <1>4 DEF WindowEnd, Offset, WAdd
<1>. QED  BY <1>1, <1>2, <1>3, <1>4, <1>5, <1>6 DEF Avail, WSub

\* A step that leaves the window alone.
LEMMA StreamStays ==
  ASSUME StreamInv, ec' => ec \/ kind = "mmap",
         UNCHANGED <<kind, file, window, size, block, stream, fd>>
  PROVE  /\ StreamInv' /\ Offset' = Offset /\ Size' = Size
         /\ Broken' = Broken /\ Spent' = Spent /\ Adrift' = Adrift /\ Overlong' = Overlong
<1>1. UNCHANGED <<kind, file, bloff, blsize, cur, data, size, block, stream, fd>>
  BY DEF window
<1>2. Broken' = Broken /\ Spent' = Spent /\ Adrift' = Adrift /\ Overlong' = Overlong
  BY <1>1 DEF Adrift, Broken, Spent, Offset, WAdd, Overlong
<1>3. BufferWindow' /\ IstreamWindow' /\ MmapWindow'
  BY <1>1, <1>2
  DEF StreamInv, BufferWindow, IstreamWindow, MmapWindow, BlockWindow, WindowEnd
<1>. QED
  BY <1>1, <1>2, <1>3 DEF StreamInv, FromObjects, Offset, Size, WAdd

\* An operation that leaves no call behind.
LEMMA NoCallContent ==
  ASSUME SourceInv', StreamInv', call' = NoCall, pc' \in {"idle", "abort"}
  PROVE  ContentInv'
BY DEF NoCall, ContentInv, CursorInv, DeliveryInv, NoFault, ShortOnlyAtEnd, SkipsExactly

-----------------------------------------------------------------------------
(* The operations.                                                         *)

LEMMA InitContent == Init => ContentInv
<1>. SUFFICES ASSUME Init PROVE ContentInv
  OBVIOUS
<1>1. SourceInv
  BY InitInv
<1>2. PICK o \in Objects :
        /\ kind = o.kind /\ file = o.file
        /\ bloff = 0 /\ cur = 0
        /\ blsize = IF o.kind = "buffer" THEN o.file ELSE 0
        /\ data = IF o.kind = "mmap" THEN Null ELSE 0
        /\ size = IF o.kind = "mmap" THEN 0 ELSE o.file
        /\ block = IF o.kind = "istream" /\ o.block = 0 THEN o.file
                   ELSE IF o.kind = "istream" THEN o.block ELSE 0
        /\ stream = [good |-> TRUE, pos |-> 0]
        /\ fd = FALSE /\ ec = FALSE /\ pc = "idle" /\ call = NoCall
  BY DEF Init
<1>3. /\ o.file \in Nat /\ o.block \in Nat /\ PageSize \in Nat \ {0}
  BY SourceAssumption DEF SourceAssumption
<1>4. \A b \in Nat \ {0} : 0 % b = 0
  OBVIOUS
<1>5. FromObjects /\ BufferWindow
  BY <1>2, <1>3 DEF FromObjects, BufferWindow
<1>6. IstreamWindow
  <2>. SUFFICES ASSUME kind = "istream" PROVE IstreamWindow
    BY DEF IstreamWindow
  <2>1. block \in Nat /\ (block = 0 => file = 0)
    BY <1>2, <1>3
  <2>2. (block # 0 /\ 0 % block = 0) \/ 0 = file
    BY <1>4, <2>1
  <2>. QED  BY <1>2, <1>3, <2>1, <2>2 DEF IstreamWindow, WindowEnd
<1>7. MmapWindow
  <2>1. 0 % PageSize = 0
    BY <1>3, <1>4
  <2>. QED  BY <1>2, <1>3, <2>1 DEF MmapWindow, Null, MapFailed, Adrift, Broken
<1>. QED
  BY <1>1, <1>2, <1>5, <1>6, <1>7
  DEF StreamInv, NoCall, ContentInv, CursorInv, DeliveryInv, NoFault, ShortOnlyAtEnd, SkipsExactly

LEMMA FetchContent ==
  ASSUME ContentInv, SourceInv', NEW n \in 0 .. MaxRequest, Fetch(n)
  PROVE  ContentInv'
<1>1. /\ call' = [op |-> "fetch", n |-> n, start |-> Offset, copied |-> 0]
      /\ dest' = [i \in 0 .. n - 1 |-> Unwritten] /\ pc' = "top"
      /\ UNCHANGED <<kind, file, window, size, block, stream, fd>> /\ ec' \in {ec, FALSE}
  BY DEF Fetch, Called, resources
<1>2. StreamInv'
  <2>1. ec' => ec
    BY <1>1
  <2>. QED  BY <1>1, <2>1, StreamStays DEF ContentInv
<1>3. n \in Nat
  BY SourceAssumption DEF SourceAssumption
<1>4. Delivered'
  BY <1>1, <1>3 DEF Delivered
<1>. QED
  BY <1>1, <1>2, <1>4
  DEF ContentInv, CursorInv, DeliveryInv, NoFault, ShortOnlyAtEnd, SkipsExactly

LEMMA AdvanceContent ==
  ASSUME WellUsed, ContentInv, SourceInv', NEW n \in 0 .. MaxRequest, Advance(n)
  PROVE  ContentInv'
<1>1. /\ call' = [op |-> "advance", n |-> n, start |-> Offset, copied |-> 0]
      /\ pc' = "advance" /\ n <= Avail /\ Offset + n <= Size
      /\ UNCHANGED <<kind, file, window, size, block, stream, fd>> /\ ec' \in {ec, FALSE}
  BY DEF Advance, Called, resources, WellUsed
<1>2. /\ StreamInv' /\ Offset' = Offset /\ Size' = Size
      /\ Broken' = Broken /\ Spent' = Spent /\ Adrift' = Adrift
      /\ cur' = cur /\ blsize' = blsize
  <2>1. ec' => ec
    BY <1>1
  <2>. QED  BY <1>1, <2>1, StreamStays DEF ContentInv, window
<1>3. /\ SourceInv /\ StreamInv
      /\ cur \in Nat /\ blsize \in Nat /\ n \in Nat /\ bloff \in Nat /\ Width \in Nat
      /\ PageSize \in Nat /\ Size \in Nat /\ Size < Width
  BY Numbers DEF ContentInv, Size
<1>4. ~Adrift => cur + n <= blsize
  BY <1>1, <1>3, WindowInStream
<1>5. Broken => cur + n < Width
  <2>. SUFFICES ASSUME Broken PROVE cur + n < Width
    OBVIOUS
  <2>1. kind = "mmap" /\ blsize = 0
    BY <1>3, BrokenIsMmap
  <2>2. cur < PageSize /\ bloff + PageSize <= Width
    BY <1>3, <2>1, MmapAligned DEF SourceInv, WindowAligned
  <2>3. Offset = bloff + cur
    BY <1>3, <2>2 DEF Offset, WAdd
  <2>. QED  BY <1>1, <1>3, <2>3
<1>6. Spent => n = 0
  BY <1>1, <1>3, SpentFacts
<1>7. CursorInv'
  BY <1>1, <1>2, <1>4, <1>5, <1>6 DEF CursorInv
<1>. QED
  BY <1>1, <1>2, <1>7 DEF ContentInv, DeliveryInv, NoFault, ShortOnlyAtEnd, SkipsExactly

\* A source with its whole stream in one window has no window too long.
LEMMA OneWindowFits ==
  ASSUME SourceInv, StreamInv, OneWindow
  PROVE  ~Overlong
<1>1. CASE kind = "mmap" /\ block = 0
  <2>1. blsize # 0 => bloff = 0 /\ blsize = size
    BY <1>1 DEF StreamInv, MmapWindow
  <2>2. blsize = 0 /\ ~Spent => bloff = size
    BY <1>1 DEF StreamInv, MmapWindow, Adrift
  <2>. QED  BY Numbers, SpentFacts, <2>1, <2>2 DEF Overlong
<1>2. CASE kind # "mmap"
  BY <1>2 DEF Overlong
<1>. QED  BY <1>1, <1>2 DEF OneWindow, WholeSource

\* A refill leaves what was said of the fetch as it was.
LEMMA RefilledDelivery ==
  ASSUME SourceInv, StreamInv, Refilled, UNCHANGED <<call, dest>>
  PROVE  (OneWindow' => OneWindow) /\ Delivered' = Delivered
BY DEF Refilled, OneWindow, WholeSource, Delivered

LEMMA TopContent ==
  ASSUME ContentInv, SourceInv', FetchTop
  PROVE  ContentInv'
<1>1. /\ SourceInv /\ StreamInv /\ call.op = "fetch" /\ pc = "top"
      /\ Adrift => call.copied = 0
      /\ OneWindow => call.copied = 0 /\ Delivered
      /\ cur \in 0 .. Width - 1 /\ blsize \in 0 .. Width - 1 /\ Width \in Nat
  BY Numbers DEF ContentInv, CursorInv, DeliveryInv, SourceInv, CallBounded, FetchTop
<1>2. UNCHANGED <<call, dest>> /\ pc' \in {"copy", "idle"}
  BY DEF FetchTop
<1>3. CASE Avail # 0 /\ pc' = "copy"
           /\ UNCHANGED <<kind, file, window, size, block, stream, resources, ec>>
  <2>1. StreamInv' /\ Adrift' = Adrift /\ Overlong' = Overlong
        /\ UNCHANGED <<kind, file, block, cur, blsize>>
    BY <1>1, <1>3, StreamStays DEF window, resources
  <2>2. ~Adrift => cur < blsize
    BY <1>1, <1>3, WindowInStream
  <2>3. OneWindow' = OneWindow /\ Delivered' = Delivered
    BY <1>2, <2>1 DEF OneWindow, WholeSource, Delivered
  <2>. QED
    BY <1>1, <1>2, <1>3, <2>1, <2>2, <2>3
    DEF ContentInv, CursorInv, DeliveryInv, NoFault, ShortOnlyAtEnd, SkipsExactly
<1>4. CASE Avail = 0 /\ MakeAvailable(cur)
           /\ pc' = IF ec' \/ Offset' >= Size' THEN "idle" ELSE "copy"
  <2>1. cur = blsize \/ Adrift
    BY <1>1, <1>4, WindowInStream
  <2>2. Refilled
    BY <1>1, <1>4, <2>1, WindowRefilled
  <2>3. Offset' = Offset /\ Size' = Size /\ (OneWindow' => OneWindow) /\ Delivered' = Delivered
    BY <1>1, <1>2, <1>4, <2>2, RefillKeepsOffset, RefillKeepsSize, RefilledDelivery
  <2>4. cur' \in 0 .. Width - 1 /\ blsize' \in 0 .. Width - 1
    BY DEF SourceInv, TypeOK
  <2>5. CursorInv'
    <3>1. pc' = "copy" => cur' < blsize' \/ Adrift'
      BY <1>1, <1>4, <2>2, <2>3, <2>4 DEF Refilled, Adrift
    <3>2. pc' = "copy" /\ Adrift' => call'.copied = 0
      BY <1>1, <1>2, <1>4, <2>2, <2>3 DEF Refilled, Adrift
    <3>. QED  BY <1>2, <3>1, <3>2 DEF CursorInv
  <2>6. DeliveryInv'
    BY <1>1, <1>2, <2>3 DEF DeliveryInv
  <2>7. ShortOnlyAtEnd'
    BY <1>4, <2>3 DEF ShortOnlyAtEnd
  <2>. QED
    BY <1>1, <1>2, <2>2, <2>5, <2>6, <2>7 DEF Refilled, ContentInv, NoFault, SkipsExactly
<1>. QED  BY <1>3, <1>4 DEF FetchTop

LEMMA RefillContent ==
  ASSUME ContentInv, SourceInv', FetchRefill
  PROVE  ContentInv'
<1>1. /\ SourceInv /\ StreamInv /\ call.op = "fetch" /\ pc = "refill"
      /\ cur = blsize \/ Adrift
      /\ OneWindow => Delivered /\ (call.copied = call.n \/ Offset >= Size \/ Adrift)
      /\ call.copied \in 0 .. call.n /\ call.n \in Nat
  BY Numbers, SourceAssumption
  DEF ContentInv, CursorInv, DeliveryInv, SourceInv, CallBounded, FetchRefill, SourceAssumption
<1>2. /\ UNCHANGED <<call, dest>> /\ MakeAvailable(cur)
      /\ pc' = IF ec' \/ cur' >= blsize' \/ call.copied = call.n THEN "idle" ELSE "top"
  BY DEF FetchRefill
<1>3. Refilled
  BY <1>1, <1>2, WindowRefilled
<1>4. Offset' = Offset /\ Size' = Size /\ (OneWindow' => OneWindow) /\ Delivered' = Delivered
  BY <1>1, <1>2, <1>3, RefillKeepsOffset, RefillKeepsSize, RefilledDelivery
<1>5. pc' = "top" => ~Adrift'
  BY <1>2, <1>3 DEF Refilled
<1>6. pc' = "top" => ~OneWindow'
  <2>. SUFFICES ASSUME pc' = "top", OneWindow' PROVE FALSE
    OBVIOUS
  <2>1. OneWindow /\ ~Overlong
    BY <1>1, <1>4, OneWindowFits
  <2>2. Spent => Offset >= Size /\ ~Broken
    BY <1>1, Numbers, SpentFacts
  <2>. QED  BY <1>1, <1>2, <1>3, <2>1, <2>2 DEF Refilled, Adrift
<1>7. ShortOnlyAtEnd'
  BY <1>1, <1>2, <1>3, <1>4 DEF Refilled, ShortOnlyAtEnd
<1>8. CursorInv' /\ DeliveryInv'
  BY <1>1, <1>2, <1>4, <1>5, <1>6 DEF CursorInv, DeliveryInv
<1>. QED
  BY <1>1, <1>2, <1>3, <1>7, <1>8 DEF Refilled, ContentInv, NoFault, SkipsExactly

\* Nothing of a window that is not too long faults.
LEMMA FaultContent ==
  ASSUME ContentInv, SourceInv', FetchFault
  PROVE  ContentInv'
<1>1. /\ SourceInv /\ StreamInv /\ pc = "copy" /\ pc' = "fault"
      /\ cur < blsize \/ Adrift
      /\ UNCHANGED <<kind, file, window, size, block, stream, resources, ec, call, dest>>
  BY DEF ContentInv, CursorInv, FetchFault
<1>2. StreamInv' /\ Adrift' = Adrift /\ Overlong' = Overlong
  BY <1>1, StreamStays DEF resources
<1>3. ASSUME ~Adrift, ~Overlong PROVE FALSE
  <2>1. PICK i \in 0 .. Capped - 1 : ~Readable(cur + i)
    BY DEF FetchFault
  <2>2. /\ cur \in Nat /\ blsize \in Nat /\ bloff \in Nat /\ PageSize \in Nat \ {0}
        /\ call.n \in Nat /\ call.copied \in Nat /\ file \in Nat /\ block \in Nat
        /\ kind \in {"buffer", "istream", "mmap"}
    BY <1>1, Numbers, SourceAssumption DEF SourceAssumption
  <2>3. /\ cur <= blsize /\ Avail = blsize - cur /\ data = bloff /\ WindowEnd <= file
    BY <1>1, <1>3, <2>2, WindowInStream
  <2>4. i \in Nat /\ cur + i < blsize /\ data + (cur + i) < file
    BY <2>2, <2>3 DEF Capped, Smaller, WindowEnd
  <2>5. \A n \in Nat : Pages(n) >= n /\ Pages(n) \in Nat
    <3>1. 0 % PageSize = 0
      BY <2>2
    <3>. QED  BY <3>1, PagesHold
  <2>6. kind = "buffer" => cur + i < file
    BY <1>1, <2>4 DEF StreamInv, BufferWindow
  <2>7. kind = "istream" => cur + i < block
    BY <1>1, <2>2, <2>4 DEF StreamInv, IstreamWindow
  <2>8. cur + i < Pages(blsize) /\ data + (cur + i) < Pages(file)
    BY <2>2, <2>3, <2>4, <2>5
  <2>9. Readable(cur + i)
    <3>1. data >= 0
      BY <2>2, <2>3
    <3>2. CASE kind = "buffer"
      BY <2>6, <3>1, <3>2 DEF Readable
    <3>3. CASE kind = "istream"
      BY <2>7, <3>1, <3>3 DEF Readable
    <3>4. CASE kind = "mmap"
      BY <2>8, <3>1, <3>4 DEF Readable
    <3>. QED  BY <2>2, <3>2, <3>3, <3>4
  <2>. QED  BY <2>1, <2>9
<1>. QED
  BY <1>1, <1>2, <1>3
  DEF ContentInv, CursorInv, DeliveryInv, NoFault, ShortOnlyAtEnd, SkipsExactly

\* When one window is all a fetch needs, the end of a window it does not find
\* enough in is the end of the stream.
LEMMA OneWindowEnds ==
  ASSUME SourceInv, StreamInv, OneWindow, ~Adrift, cur < blsize,
         call.start = Offset, blsize - cur < call.n
  PROVE  WindowEnd >= Size
<1>1. /\ kind \in {"buffer", "istream", "mmap"} /\ call.n \in Nat
      /\ bloff \in Nat /\ blsize \in Nat /\ cur \in Nat /\ size \in Nat /\ file \in Nat
      /\ block \in Nat
  BY Numbers, SourceAssumption DEF SourceAssumption
<1>2. Offset = bloff + cur
  BY <1>1, OneWindowFits, WindowInStream
<1>3. block > 0 /\ bloff % block = 0 /\ cur < block => call.start % block = cur
  BY <1>1, <1>2, PageJoin
<1>4. CASE kind = "buffer"
  BY <1>1, <1>4 DEF WindowEnd, Size
<1>5. CASE kind = "istream"
  <2>1. /\ size = file /\ WindowEnd <= file /\ blsize <= block
        /\ (block # 0 /\ bloff % block = 0) \/ bloff = file
        /\ blsize = block \/ WindowEnd = file
    BY <1>1, <1>5 DEF StreamInv, IstreamWindow
  <2>2. CASE block >= file
    BY <1>1, <1>5, <2>1, <2>2 DEF WindowEnd, Size
  <2>3. CASE block > 0 /\ (call.start % block) + call.n <= block
    BY <1>1, <1>3, <1>5, <2>1, <2>3 DEF WindowEnd, Size
  <2>. QED  BY <1>5, <2>2, <2>3 DEF OneWindow, WholeSource
<1>6. CASE kind = "mmap"
  <2>1. CASE block = 0
    BY <1>1, <1>6, <2>1 DEF StreamInv, MmapWindow, WindowEnd, Size
  <2>2. CASE block > 0 /\ ~Overlong /\ (call.start % block) + call.n <= block
    <3>1. /\ blsize <= block /\ (bloff < size => blsize = block \/ WindowEnd = size)
          /\ bloff % block = 0
      BY <1>1, <1>6, <2>2 DEF StreamInv, MmapWindow, BlockWindow
    <3>2. bloff < size
      BY <1>1, <1>6, <2>2 DEF Overlong
    <3>. QED  BY <1>1, <1>3, <1>6, <2>2, <3>1, <3>2 DEF Size
  <2>. QED  BY <1>6, <2>1, <2>2 DEF OneWindow, WholeSource
<1>. QED  BY <1>1, <1>4, <1>5, <1>6

LEMMA CopyContent ==
  ASSUME ContentInv, SourceInv', FetchCopy
  PROVE  ContentInv'
<1>1. /\ SourceInv /\ StreamInv /\ call.op = "fetch" /\ pc = "copy"
      /\ cur < blsize \/ Adrift
      /\ Adrift => call.copied = 0
      /\ OneWindow => Delivered /\ call.copied = 0
      /\ call.copied \in 0 .. call.n /\ call.n \in Nat /\ call.start \in 0 .. Width - 1
      /\ DOMAIN dest = 0 .. call.n - 1
      /\ cur \in 0 .. Width - 1 /\ blsize \in 0 .. Width - 1 /\ bloff \in 0 .. Width - 1
      /\ Width \in Nat \ {0}
  BY Numbers, SourceAssumption
  DEF ContentInv, CursorInv, DeliveryInv, SourceInv, CallBounded, FetchCopy, SourceAssumption
<1>2. Capped \in Nat /\ Capped <= call.n - call.copied /\ Capped <= Avail
      /\ (Capped = call.n - call.copied \/ Capped = Avail)
  <2>1. cur \in 0 .. Width - 1 /\ blsize \in 0 .. Width - 1
    BY <1>1
  <2>2. Avail \in 0 .. Width - 1
    BY <2>1, Wrap DEF Avail
  <2>. QED  BY <1>1, <2>2 DEF Capped, Smaller
<1>3. /\ call' = [call EXCEPT !.copied = call.copied + Capped]
      /\ dest' = Copied /\ cur' = WAdd(cur, Capped)
      /\ pc' = IF cur' >= blsize THEN "refill"
               ELSE IF call'.copied = call.n THEN "idle" ELSE "top"
      /\ UNCHANGED <<kind, file, bloff, blsize, data, size, block, stream, fd, ec>>
  BY DEF FetchCopy, resources
<1>4. call'.op = "fetch" /\ call'.n = call.n /\ call'.start = call.start
      /\ call'.copied = call.copied + Capped
  <2>1. TypeOK
    BY <1>1 DEF SourceInv
  <2>. QED  BY <1>1, <1>3, <2>1 DEF TypeOK
<1>5. /\ DOMAIN dest' = 0 .. call.n - 1
      /\ \A i \in 0 .. call.n - 1 : dest'[i] = IF i < Capped THEN Byte(cur + i) ELSE dest[i]
  BY <1>1, <1>3 DEF Copied
<1>6. Broken' = Broken /\ Overlong' = Overlong /\ OneWindow' = OneWindow
  BY <1>3, <1>4 DEF Broken, Overlong, OneWindow, WholeSource
<1>7. FromObjects'
  BY <1>1, <1>3 DEF StreamInv, FromObjects
<1>8. CASE Adrift
  <2>1. kind = "mmap" /\ blsize = 0 /\ fd /\ data < 0
    <3>1. data \in {-1, -2} \cup (0 .. Width - 1)
      BY <1>1, Numbers
    <3>2. kind = "mmap" /\ blsize = 0 /\ fd
      BY <1>1, <1>8, BrokenIsMmap, SpentFacts DEF Adrift
    <3>. QED  BY <1>1, <3>1, <3>2 DEF SourceInv, WindowMapped
  <2>2. Capped = 0
    <3>. SUFFICES ASSUME Capped # 0 PROVE FALSE
      OBVIOUS
    <3>1. 0 \in 0 .. Capped - 1
      BY <1>2
    <3>2. Readable(cur + 0)
      BY <3>1 DEF FetchCopy
    <3>3. data >= 0
      BY <3>2 DEF Readable
    <3>4. data \in {-1, -2} \cup (0 .. Width - 1)
      BY <1>1, Numbers
    <3>. QED  BY <1>1, <2>1, <3>3, <3>4
  <2>3. cur' = cur /\ call'.copied = 0 /\ pc' = "refill"
    BY <1>1, <1>3, <1>4, <1>8, <2>1, <2>2, Wrap
  <2>4. Adrift' /\ Spent' = Spent
    BY <1>3, <1>6, <1>8, <2>3 DEF Adrift, Spent, Offset, WAdd
  <2>5. StreamInv'
    BY <1>1, <1>3, <1>6, <1>7, <1>8, <2>1, <2>3, <2>4
    DEF StreamInv, BufferWindow, IstreamWindow, MmapWindow
  <2>6. OneWindow => Delivered'
    BY <1>1, <1>4, <1>5, <2>2, <2>3 DEF Delivered
  <2>. QED
    BY <1>6, <2>3, <2>4, <2>5, <2>6
    DEF ContentInv, CursorInv, DeliveryInv, NoFault, ShortOnlyAtEnd, SkipsExactly
<1>9. CASE ~Adrift
  <2>1. /\ cur < blsize /\ Avail = blsize - cur /\ data = bloff
        /\ ~Overlong => WindowEnd <= file /\ Size = file /\ Offset = bloff + cur
    BY <1>1, <1>9, WindowInStream
  <2>2. cur' = cur + Capped /\ cur' <= blsize /\ cur' \in Nat
    BY <1>1, <1>2, <1>3, <2>1 DEF WAdd
  <2>3. kind = "mmap" /\ block # 0 => BlockWindow /\ BlockWindow'
    <3>. SUFFICES ASSUME kind = "mmap", block # 0 PROVE BlockWindow /\ BlockWindow'
      OBVIOUS
    <3>1. BlockWindow
      BY <1>1, <2>1 DEF StreamInv, MmapWindow
    <3>2. bloff >= size => Capped = 0
      <4>. SUFFICES ASSUME bloff >= size, Capped # 0 PROVE FALSE
        OBVIOUS
      <4>1. cur = 0 /\ size = file /\ bloff \in Nat /\ bloff % PageSize = 0 /\ file \in Nat
        BY <1>1, <2>1, <3>1, Numbers, MmapAligned DEF BlockWindow, StreamInv, MmapWindow
      <4>2. 0 \in 0 .. Capped - 1
        BY <1>2
      <4>3. Readable(cur + 0)
        BY <4>2 DEF FetchCopy
      <4>4. data + (cur + 0) < Pages(file)
        BY <4>3 DEF Readable
      <4>. QED  BY <2>1, <4>1, <4>4, PagesHold
    <3>3. bloff % block = 0
      BY <1>1, <2>1, <3>1 DEF BlockWindow
    <3>. QED  BY <1>1, <1>3, <2>2, <3>1, <3>2, <3>3 DEF BlockWindow, WindowEnd
  <2>4. BufferWindow' /\ IstreamWindow'
    BY <1>1, <1>3, <2>2 DEF StreamInv, BufferWindow, IstreamWindow, WindowEnd
  <2>5. ~Adrift' /\ ~Spent'
    BY <1>1, <1>3, <1>6, <1>9, <2>1 DEF Adrift, Spent
  <2>6. MmapWindow' /\ CursorInv'
    <3>1. MmapWindow'
      BY <1>1, <1>3, <1>6, <1>9, <2>1, <2>2, <2>3, <2>5 DEF StreamInv, MmapWindow
    <3>2. CursorInv'
      BY <1>1, <1>3, <1>6, <1>9, <2>2, <2>5 DEF CursorInv
    <3>. QED  BY <3>1, <3>2
  <2>7. ShortOnlyAtEnd'
    BY <1>1, <1>3, <1>4 DEF ShortOnlyAtEnd
  <2>8. ASSUME OneWindow
        PROVE  /\ Delivered' /\ pc' # "top" /\ pc' # "copy"
               /\ pc' = "refill" => call'.copied = call'.n \/ Offset' >= Size'
    <3>1. ~Overlong
      BY <1>1, <2>8, OneWindowFits
    <3>2. call.copied = 0 /\ call.start = Offset
      <4>1. FetchAccounting
        BY <1>1 DEF SourceInv
      <4>. QED  BY <1>1, <2>8, <4>1, Wrap DEF FetchAccounting
    <3>3. Delivered'
      <4>. SUFFICES ASSUME NEW i \in 0 .. call.n - 1
                    PROVE  dest'[i] = IF i < Capped THEN call.start + i ELSE Unwritten
        <5>1. call'.copied = Capped
          BY <1>2, <1>4, <3>2
        <5>2. call'.start = call.start /\ DOMAIN dest' = 0 .. call.n - 1
          BY <1>4, <1>5
        <5>. QED  BY <5>1, <5>2, Zenon DEF Delivered
      <4>1. i < Capped => Byte(cur + i) = call.start + i
        <5>1. file \in Nat
          BY <1>1, Numbers
        <5>2. i < Capped => bloff + (cur + i) < file
          BY <1>1, <1>2, <2>1, <3>1, <5>1 DEF WindowEnd
        <5>. QED  BY <1>1, <2>1, <3>1, <3>2, <5>2 DEF Byte
      <4>2. dest[i] = Unwritten
        BY <1>1, <2>8, <3>2 DEF Delivered
      <4>. QED  BY <1>5, <4>1, <4>2
    <3>4. Capped = call.n \/ (Capped < call.n /\ cur' = blsize)
      BY <1>1, <1>2, <2>1, <2>2, <3>2
    <3>5. pc' # "top" /\ pc' # "copy"
      BY <1>1, <1>2, <1>3, <1>4, <3>2, <3>4
    <3>6. ASSUME Capped < call.n, cur' = blsize PROVE Offset' >= Size'
      <4>1. Capped = blsize - cur
        BY <1>1, <1>2, <2>2, <3>6
      <4>2. WindowEnd >= Size
        BY <1>1, <1>9, <2>1, <2>8, <3>2, <3>6, <4>1, OneWindowEnds
      <4>3. Size' = Size
        BY <1>3 DEF Size
      <4>4. WindowEnd <= file /\ file \in Nat /\ file < Width
        BY <2>1, <3>1, Numbers, <1>1
      <4>5. Offset' = WindowEnd
        BY <1>1, <1>3, <3>6, <4>4 DEF Offset, WAdd, WindowEnd
      <4>. QED  BY <4>2, <4>3, <4>5
    <3>. QED  BY <1>2, <1>4, <3>2, <3>3, <3>4, <3>5, <3>6
  <2>9. DeliveryInv'
    BY <1>3, <1>6, <2>8 DEF DeliveryInv
  <2>. QED
    BY <1>3, <1>4, <1>7, <2>4, <2>6, <2>7, <2>9
    DEF StreamInv, ContentInv, NoFault, SkipsExactly
<1>. QED  BY <1>8, <1>9

\* A skip moves the cursor once; without a mapping it goes round until make_available fails.
LEMMA SkipContent ==
  ASSUME WellUsed, ContentInv, SourceInv', AdvanceStep
  PROVE  ContentInv'
<1>. DEFINE c == WAdd(cur, call.n)
<1>1. /\ SourceInv /\ StreamInv /\ pc = "advance" /\ call.op = "advance"
      /\ ~Adrift => Offset = call.start /\ cur + call.n <= blsize /\ Offset + call.n <= Size
      /\ Broken => cur + call.n < Width /\ (call.n = 0 => Offset = call.start)
      /\ Spent => Offset = call.start /\ call.n = 0
      /\ call.n \in 0 .. Width - 1 /\ Offset \in 0 .. Width - 1 /\ call.start \in 0 .. Width - 1
      /\ cur \in 0 .. Width - 1 /\ blsize \in 0 .. Width - 1 /\ bloff \in 0 .. Width - 1
      /\ Width \in Nat \ {0} /\ PageSize \in Nat \ {0} /\ PageSize < Width /\ Size \in 0 .. Width - 1
  BY Numbers, SourceAssumption
  DEF ContentInv, CursorInv, SourceInv, CallBounded, AdvanceStep, SourceAssumption, WellUsed, Size
<1>2. /\ UNCHANGED <<call, dest>>
      /\ \/ /\ c <= blsize /\ cur' = c /\ pc' = "idle"
            /\ UNCHANGED <<kind, file, bloff, blsize, data, size, block, stream, fd, ec>>
         \/ ~(c <= blsize) /\ MakeAvailable(c) /\ pc' = IF ec' THEN "idle" ELSE "advance"
  BY DEF AdvanceStep, InWindow, resources
<1>3. c = cur + call.n /\ c \in 0 .. Width - 1
  BY <1>1 DEF WAdd, Adrift
<1>. HIDE DEF c
<1>4. SUFFICES StreamInv' /\ CursorInv' /\ SkipsExactly'
  BY <1>1, <1>2 DEF ContentInv, DeliveryInv, NoFault, ShortOnlyAtEnd
<1>5. CASE ~Adrift
  <2>1. /\ cur' = c /\ pc' = "idle"
        /\ UNCHANGED <<kind, file, bloff, blsize, data, size, block, stream, fd, ec>>
    BY <1>1, <1>2, <1>3, <1>5
  <2>2. Offset' = call.start + call.n
    <3>1. Offset' = WAdd(bloff, WAdd(cur, call.n))
      BY <2>1 DEF Offset, c
    <3>2. \A a, b, d \in 0 .. Width - 1 : WAdd(WAdd(a, b), d) = WAdd(a, WAdd(b, d))
      BY Wrap
    <3>3. WAdd(Offset, call.n) = Offset'
      BY <1>1, <3>1, <3>2 DEF Offset
    <3>. QED  BY <1>1, <1>5, <3>3 DEF WAdd
  <2>3. FromObjects' /\ BufferWindow' /\ IstreamWindow'
    BY <1>1, <1>3, <1>5, <2>1
    DEF StreamInv, FromObjects, BufferWindow, IstreamWindow, WindowEnd
  <2>4. kind = "mmap" /\ block # 0 /\ blsize # 0 => BlockWindow'
    <3>. SUFFICES ASSUME kind = "mmap", block # 0, blsize # 0 PROVE BlockWindow'
      BY <2>1
    <3>1. BlockWindow /\ size \in Nat
      BY <1>1, Numbers DEF StreamInv, MmapWindow
    <3>2. bloff >= size => cur' = 0
      <4>1. bloff >= size => cur = 0
        BY <3>1 DEF BlockWindow
      <4>2. cur = 0 => Offset = bloff
        BY <1>1 DEF Offset, WAdd
      <4>. QED  BY <1>1, <1>3, <1>5, <2>1, <3>1, <4>1, <4>2 DEF Size
    <3>3. cur = blsize => cur' = blsize
      BY <1>1, <1>3, <1>5, <2>1
    <3>. QED  BY <2>1, <3>1, <3>2, <3>3 DEF BlockWindow, WindowEnd
  <2>5. MmapWindow'
    <3>1. ~Broken' /\ ~Broken
      BY <1>5, <2>1 DEF Adrift, Broken
    <3>2. ~Adrift => cur' <= blsize' /\ (blsize = 0 => cur' = cur)
      BY <1>1, <1>3, <1>5, <2>1
    <3>. QED  BY <1>1, <1>5, <2>1, <2>4, <3>1, <3>2 DEF StreamInv, MmapWindow
  <2>. QED  BY <2>1, <2>2, <2>3, <2>5, <1>2 DEF StreamInv, CursorInv, SkipsExactly
<1>6. CASE Broken
  <2>1. kind = "mmap" /\ blsize = 0 /\ fd
    BY <1>1, <1>6, BrokenIsMmap
  <2>2. CASE /\ c <= blsize /\ cur' = c /\ pc' = "idle"
             /\ UNCHANGED <<kind, file, bloff, blsize, data, size, block, stream, fd, ec>>
    <3>1. call.n = 0 /\ cur' = cur
      BY <1>1, <1>3, <2>1, <2>2
    <3>2. StreamInv'
      BY <1>1, <1>6, <2>1, <2>2
      DEF StreamInv, FromObjects, BufferWindow, IstreamWindow, MmapWindow, Adrift, Broken
    <3>3. Offset' = call.start
      BY <1>1, <1>6, <2>2, <3>1 DEF Offset
    <3>. QED  BY <1>1, <1>2, <2>2, <3>1, <3>2, <3>3 DEF CursorInv, SkipsExactly
  <2>3. CASE MakeAvailable(c) /\ pc' = IF ec' THEN "idle" ELSE "advance"
    <3>1. /\ StreamInv' /\ Broken' /\ UNCHANGED bloff
          /\ ec' \/ (cur' = c /\ c < PageSize)
      BY <1>1, <1>3, <1>6, <2>1, <2>3, BrokenRefilled
    <3>2. 2 * PageSize <= Width
      BY <1>1, <2>1, MmapAligned
    <3>3. ~ec' => cur' + call.n < Width /\ (call.n = 0 => Offset' = Offset)
      BY <1>1, <1>3, <3>1, <3>2 DEF Offset
    <3>4. ~Spent'
      <4>1. block # 0 /\ UNCHANGED block
        BY <1>1, <1>3, <1>6, <2>1, <2>3, BrokenRefilled DEF StreamInv, MmapWindow
      <4>. QED  BY <4>1 DEF Spent
    <3>. QED  BY <1>1, <1>2, <1>6, <2>3, <3>1, <3>3, <3>4 DEF CursorInv, SkipsExactly, Adrift
  <2>. QED  BY <1>2, <2>2, <2>3
<1>7. CASE Spent
  <2>1. c = cur /\ call.n = 0 /\ call.start = Offset /\ cur > blsize
    BY <1>1, <1>3, <1>7, SpentFacts
  <2>2. MakeAvailable(cur) /\ pc' = IF ec' THEN "idle" ELSE "advance"
    BY <1>1, <1>2, <2>1
  <2>3. UNCHANGED <<bloff, blsize, cur, data>> /\ StreamInv' /\ Spent' /\ ~Broken
    BY <1>1, <1>7, <2>2, SpentRefilled, SpentFacts
  <2>4. Offset' = Offset /\ ~Broken'
    BY <2>3 DEF Offset, Broken
  <2>. QED  BY <1>2, <2>1, <2>2, <2>3, <2>4 DEF CursorInv, SkipsExactly, Adrift
<1>. QED  BY <1>5, <1>6, <1>7 DEF Adrift

\* A prefetch does to a window that was read to its end what make_available does.
LEMMA PrefetchContent ==
  ASSUME ContentInv, SourceInv', Prefetch
  PROVE  ContentInv'
<1>1. /\ SourceInv /\ StreamInv /\ kind = "istream" /\ pc = "idle"
      /\ cur \in 0 .. Width - 1 /\ blsize \in 0 .. Width - 1 /\ bloff \in 0 .. Width - 1
      /\ Width \in Nat \ {0} /\ file \in 0 .. Width - 1
  BY Numbers DEF ContentInv, Prefetch
<1>2. cur <= blsize /\ stream.pos = bloff + blsize /\ stream.pos <= file
  BY <1>1 DEF StreamInv, IstreamWindow, WindowEnd
<1>3. cur = blsize
  BY <1>1, <1>2 DEF Prefetch
<1>4. WAdd(bloff, blsize) = stream.pos
  BY <1>1, <1>2 DEF WAdd
<1>5. MakeAvailable(cur)
  BY <1>1, <1>3, <1>4 DEF Prefetch, MakeAvailable, IstreamMakeAvailable
<1>6. StreamInv'
  BY <1>1, <1>3, <1>5, WindowRefilled DEF Refilled
<1>. QED  BY <1>1, <1>6, NoCallContent DEF Prefetch

\* A mapping that is closed leaves the window as it was before.
LEMMA ResetContent ==
  ASSUME SourceInv, StreamInv, kind = "mmap", Reset, UNCHANGED <<kind, file, stream>>
  PROVE  StreamInv'
<1>1. PageSize \in Nat \ {0}
  BY Numbers
<1>2. 0 % PageSize = 0
  BY <1>1
<1>3. MmapWindow'
  BY <1>1, <1>2 DEF Reset, MmapWindow, Adrift, Broken, Null, MapFailed
<1>. QED  BY <1>3 DEF StreamInv, FromObjects, BufferWindow, IstreamWindow

LEMMA MapContent ==
  ASSUME WellUsed, ContentInv, SourceInv', NEW m \in MapArgs, Map(m)
  PROVE  ContentInv'
<1>1. /\ SourceInv /\ StreamInv /\ kind = "mmap" /\ pc' = "idle" /\ call' = NoCall
      /\ UNCHANGED <<kind, file, stream>> /\ ~fd
      /\ file \in 0 .. Width - 1 /\ Width \in Nat \ {0} /\ PageSize \in Nat \ {0}
      /\ m.off \in 0 .. Width - 1 /\ m.block \in 0 .. Width - 1
  BY Numbers, SourceAssumption DEF ContentInv, Map, SourceAssumption
<1>2. SUFFICES StreamInv'
  BY <1>1, NoCallContent
<1>3. data = Null /\ bloff = 0 /\ blsize = 0 /\ cur = 0 /\ size = 0 /\ block = 0
  BY <1>1 DEF SourceInv, WindowMapped, StreamInv, MmapWindow
<1>. DEFINE len == IF m.block = 0 THEN file ELSE m.block
<1>4. CASE UNCHANGED <<window, size, block, resources>>
  BY <1>1, <1>4, StreamStays DEF resources
<1>5. CASE fd' = TRUE /\ UNCHANGED <<window, size, block, maps>>
  <2>1. 0 % PageSize = 0
    BY <1>1
  <2>2. MmapWindow'
    BY <1>1, <1>3, <1>5, <2>1 DEF window, MmapWindow, Adrift, Broken, Null, MapFailed
  <2>. QED
    BY <1>1, <2>2 DEF StreamInv, FromObjects, BufferWindow, IstreamWindow
<1>6. CASE Reset
  BY <1>1, <1>6, ResetContent
<1>7. CASE /\ len # 0 /\ m.off % PageSize = 0 /\ m.block % PageSize = 0
           /\ fd' = TRUE /\ size' = file /\ block' = m.block
           /\ bloff' = m.off /\ blsize' = len /\ data' = m.off /\ UNCHANGED cur
  <2>1. IF m.block = 0 THEN m.off = 0
                       ELSE m.off % m.block = 0 /\ m.off + m.block < Width
    BY <1>7 DEF WellUsed
  <2>2. (m.off + m.block) % PageSize = 0
    BY <1>1, <1>7, MultipleSum
  <2>3. len \in Nat \ {0} /\ (m.block = 0 => len = file) /\ (m.block # 0 => len = m.block)
    BY <1>1, <1>7
  <2>. HIDE DEF len
  <2>4. m.block # 0 => BlockWindow'
    BY <1>1, <1>3, <1>7, <2>1, <2>2, <2>3 DEF BlockWindow, WindowEnd
  <2>5. ~Broken'
    BY <1>1, <1>7 DEF Broken, MapFailed
  <2>6. MmapWindow'
    BY <1>1, <1>3, <1>7, <2>1, <2>3, <2>4, <2>5 DEF MmapWindow
  <2>. QED
    BY <1>1, <2>6 DEF StreamInv, FromObjects, BufferWindow, IstreamWindow
<1>. QED  BY <1>4, <1>5, <1>6, <1>7 DEF Map

LEMMA UnmapContent ==
  ASSUME ContentInv, SourceInv', Unmap
  PROVE  ContentInv'
<1>1. /\ SourceInv /\ StreamInv /\ kind = "mmap" /\ pc' = "idle" /\ call' = NoCall
      /\ UNCHANGED <<kind, file, stream>>
  BY DEF ContentInv, Unmap
<1>2. StreamInv'
  <2>1. CASE Reset
    BY <1>1, <2>1, ResetContent
  <2>2. CASE UNCHANGED <<window, size, block, resources>>
    BY <1>1, <2>2, StreamStays DEF resources
  <2>. QED  BY <2>1, <2>2 DEF Unmap
<1>. QED  BY <1>1, <1>2, NoCallContent

LEMMA DestroyContent ==
  ASSUME ContentInv, SourceInv', Destroy
  PROVE  ContentInv'
<1>1. /\ SourceInv /\ StreamInv /\ kind = "mmap" /\ pc' \in {"idle", "abort"} /\ call' = NoCall
      /\ UNCHANGED <<kind, file, stream>>
  BY DEF ContentInv, Destroy
<1>2. StreamInv'
  <2>1. CASE Reset
    BY <1>1, <2>1, ResetContent
  <2>2. CASE UNCHANGED <<window, size, block, resources>>
    BY <1>1, <2>2, StreamStays DEF resources
  <2>. QED  BY <2>1, <2>2 DEF Destroy
<1>. QED  BY <1>1, <1>2, NoCallContent

LEMMA StepContent ==
  ASSUME WellUsed
  PROVE  ContentInv /\ [Next]_vars => ContentInv'
<1>. SUFFICES ASSUME ContentInv, [Next]_vars PROVE ContentInv'
  OBVIOUS
<1>1. SourceInv'
  BY StepInv DEF ContentInv
<1>2. ASSUME NEW n \in 0 .. MaxRequest, Fetch(n) PROVE ContentInv'
  BY <1>1, <1>2, FetchContent
<1>3. ASSUME NEW n \in 0 .. MaxRequest, Advance(n) PROVE ContentInv'
  BY <1>1, <1>3, AdvanceContent
<1>4. CASE FetchTop
  BY <1>1, <1>4, TopContent
<1>5. CASE FetchCopy
  BY <1>1, <1>5, CopyContent
<1>6. CASE FetchFault
  BY <1>1, <1>6, FaultContent
<1>7. CASE FetchRefill
  BY <1>1, <1>7, RefillContent
<1>8. CASE AdvanceStep
  BY <1>1, <1>8, SkipContent
<1>9. CASE Prefetch
  BY <1>1, <1>9, PrefetchContent
<1>10. ASSUME NEW m \in MapArgs, Map(m) PROVE ContentInv'
  BY <1>1, <1>10, MapContent
<1>11. CASE Unmap
  BY <1>1, <1>11, UnmapContent
<1>12. CASE Destroy
  BY <1>1, <1>12, DestroyContent
<1>13. CASE UNCHANGED vars
  <2>1. /\ StreamInv' /\ Offset' = Offset /\ Size' = Size /\ Broken' = Broken
        /\ Spent' = Spent /\ Adrift' = Adrift /\ Overlong' = Overlong
    BY <1>13, StreamStays DEF vars, ContentInv, resources
  <2>2. UNCHANGED <<kind, file, cur, blsize, block, ec, pc, call, dest>>
    BY <1>13 DEF vars, window
  <2>3. OneWindow' = OneWindow /\ Delivered' = Delivered
    BY <2>1, <2>2 DEF OneWindow, WholeSource, Delivered
  <2>. QED
    BY <1>1, <2>1, <2>2, <2>3
    DEF ContentInv, CursorInv, DeliveryInv, NoFault, ShortOnlyAtEnd, SkipsExactly
<1>. QED
  BY <1>2, <1>3, <1>4, <1>5, <1>6, <1>7, <1>8, <1>9, <1>10, <1>11, <1>12, <1>13 DEF Next, Step

\* What a well used source has in its window and what its calls deliver.
THEOREM ContentInvariant ==
  ASSUME WellUsed
  PROVE  Spec => []ContentInv
<1>1. ContentInv /\ [Next]_vars => ContentInv'
  BY StepContent
<1>. QED  BY <1>1, InitContent, PTL DEF Spec

-----------------------------------------------------------------------------
\* Every copy of a well used source reads memory that is there, but of a mapping
\* that failed, of one that is longer than its file, and of one of a whole file
\* that ends inside a later page and was read to its end.
THEOREM SourceNoFault ==
  ASSUME WellUsed
  PROVE  Spec => []NoFault
<1>1. ContentInv => NoFault
  BY DEF ContentInv
<1>. QED  BY <1>1, ContentInvariant, PTL

\* Between calls, avail() bytes of the stream follow the cursor, but in those
\* three sources.
THEOREM SourceAvailIsInStream ==
  ASSUME WellUsed
  PROVE  Spec => []AvailIsInStream
<1>1. ContentInv => AvailIsInStream
  <2>. SUFFICES ASSUME ContentInv, pc = "idle", ~Adrift, ~Overlong PROVE Avail + Offset <= Size
    BY DEF AvailIsInStream
  <2>1. /\ cur \in Nat /\ blsize \in Nat /\ bloff \in Nat
        /\ cur <= blsize /\ Avail = blsize - cur /\ WindowEnd <= Size /\ Offset = bloff + cur
    BY Numbers, WindowInStream DEF ContentInv
  <2>. QED  BY <2>1 DEF WindowEnd
<1>. QED  BY <1>1, ContentInvariant, PTL

\* A fetch that is short, and reports no error, has reached the end.
THEOREM SourceShortOnlyAtEnd ==
  ASSUME WellUsed
  PROVE  Spec => []ShortOnlyAtEnd
<1>1. ContentInv => ShortOnlyAtEnd
  BY DEF ContentInv
<1>. QED  BY <1>1, ContentInvariant, PTL

\* A fetch inside one block delivers the bytes of the stream, in order, as the
\* "chunk" tests read.
THEOREM SourceBlockFetchInOrder ==
  ASSUME WellUsed
  PROVE  Spec => []BlockFetchInOrder
<1>1. ContentInv => BlockFetchInOrder
  BY DEF ContentInv, DeliveryInv, OneWindow, Delivered, BlockFetchInOrder
<1>. QED  BY <1>1, ContentInvariant, PTL

-----------------------------------------------------------------------------
(* The safety part of the refinement: a source that has its whole stream   *)
(* in its window answers every call as ByteStream does, whatever fails.    *)

\* Only a fetch copies; it is, before its copy and after it, where the stream
\* it answers for will be; and a whole source neither faults nor aborts.
WholeCall ==
  /\ call.op # "fetch" => call.copied = 0
  /\ pc \in {"top", "copy", "refill"} => Offset = call.start + call.copied
  /\ pc \notin {"fault", "abort"}

\* What WholeUsed asks of a file: never to be spent.
WholeFile == kind = "mmap" => file <= PageSize \/ file % PageSize = 0

WholeInv == ContentInv /\ WholeSource /\ WholeFile /\ WholeCall

\* A whole source keeps its mapping, and its window ends no later than the stream.
WholeWindow ==
  /\ ~Adrift /\ ~Overlong
  /\ Size \in 0 .. Width - 1 /\ Offset \in 0 .. Size /\ Offset = bloff + cur
  /\ cur <= blsize /\ bloff + blsize <= Size

LEMMA WholeFacts == WholeInv => WholeWindow
<1>. SUFFICES ASSUME ContentInv, WholeSource, WholeFile PROVE WholeWindow
  BY DEF WholeInv
<1>1. SourceInv /\ StreamInv /\ OneWindow
  BY DEF ContentInv, OneWindow
<1>2. ~Adrift
  <2>1. ~Broken
    BY <1>1, BrokenIsMmap DEF WholeSource, StreamInv, MmapWindow
  <2>2. ~Spent
    <3>1. Spent => kind = "mmap" /\ size = file /\ size > PageSize /\ size % PageSize # 0
      BY <1>1, SpentFacts DEF Spent
    <3>2. file \in Nat /\ PageSize \in Nat
      BY <1>1, Numbers
    <3>. QED  BY <3>1, <3>2 DEF WholeFile
  <2>. QED  BY <2>1, <2>2 DEF Adrift
<1>3. ~Overlong
  BY <1>1, OneWindowFits
<1>4. /\ bloff \in Nat /\ cur \in Nat /\ blsize \in Nat /\ Size \in 0 .. Width - 1
  BY <1>1, Numbers DEF Size
<1>5. cur <= blsize /\ WindowEnd <= Size /\ Offset = bloff + cur
  BY <1>1, <1>2, <1>3, WindowInStream
<1>. QED  BY <1>2, <1>3, <1>4, <1>5 DEF WindowEnd, WholeWindow

LEMMA WholeFactsAfter == WholeInv' => WholeWindow'
BY WholeFacts, PTL

\* What a step of a whole source keeps of it.
LEMMA StaysWhole ==
  ASSUME WholeUsed, WholeSource, WholeFile, [Next]_vars
  PROVE  WholeSource' /\ WholeFile'
<1>1. UNCHANGED <<kind, file>>
  BY DEF Next, Step, vars, Fetch, FetchTop, FetchCopy, FetchFault, FetchRefill, Advance,
         AdvanceStep, MakeAvailable, Prefetch, Map, Unmap, Destroy
<1>2. block' = block \/ (kind = "mmap" /\ block' = 0)
  BY DEF Next, Step, vars, Fetch, FetchTop, FetchCopy, FetchFault, FetchRefill, Advance,
         AdvanceStep, MakeAvailable, Prefetch, Map, Unmap, Destroy, Reset, WholeUsed
<1>. QED  BY <1>1, <1>2 DEF WholeSource, WholeFile

\* A whole source starts as one.
LEMMA InitWhole ==
  ASSUME WholeUsed, Init
  PROVE  WholeInv
<1>1. PICK o \in Objects :
        /\ kind = o.kind /\ file = o.file
        /\ block = IF o.kind = "istream" /\ o.block = 0 THEN o.file
                   ELSE IF o.kind = "istream" THEN o.block ELSE 0
        /\ pc = "idle" /\ call = NoCall
  BY DEF Init
<1>2. o.kind \in {"buffer", "istream", "mmap"} /\ o.file \in Nat
  BY SourceAssumption DEF SourceAssumption
<1>3. WholeSource /\ WholeFile
  BY <1>1, <1>2 DEF WholeSource, WholeFile, WholeUsed
<1>. QED  BY <1>1, <1>3, InitContent DEF WholeInv, WholeCall, NoCall

-----------------------------------------------------------------------------
(* The steps.                                                              *)

\* No bytes are the empty sequence.
LEMMA NoBytes ==
  ASSUME NEW f
  PROVE  [i \in 0 .. 0 - 1 |-> f[i]] = <<>>
OBVIOUS

\* What a fetch has delivered when it returns.
LEMMA AllBytes ==
  ASSUME NEW f, NEW k \in Nat, NEW n \in Nat, k <= n, NEW p \in Nat,
         \A i \in 0 .. n - 1 : f[i] = IF i < k THEN p + i ELSE Unwritten
  PROVE  [i \in 0 .. k - 1 |-> f[i]] = [i \in 0 .. k - 1 |-> p + i]
<1>1. \A i \in 0 .. k - 1 : f[i] = p + i
  OBVIOUS
<1>. QED  BY <1>1

\* An operation on a source that no call runs on attaches a stream.
LEMMA AttachStep ==
  ASSUME WholeInv', pc = "idle", pc' = "idle", call'.copied = 0
  PROVE  Abstract!Attach
<1>1. Size' \in Nat /\ Offset' \in 0 .. Size'
  <2>1. Size' \in 0 .. Width - 1 /\ Offset' \in 0 .. Size'
    BY WholeFactsAfter DEF WholeWindow
  <2>. QED  BY <2>1, SourceAssumption DEF SourceAssumption
<1>2. [i \in 0 .. call'.copied - 1 |-> dest'[i]] = <<>>
  BY NoBytes
<1>. QED
  BY <1>1, <1>2 DEF Abstract!Attach, Abstract!None, Abstract!Nothing

\* A call is a request.
LEMMA RequestStep ==
  ASSUME WellUsed, WholeInv, WholeInv', NEW n \in 0 .. MaxRequest, Fetch(n) \/ Advance(n)
  PROVE  Abstract!Request
<1>1. /\ pc = "idle" /\ pc' # "idle" /\ n \in Nat
      /\ call'.op \in {"fetch", "advance"} /\ call'.n = n /\ call'.start = Offset
      /\ call'.op = "advance" => Offset + n <= Size
      /\ UNCHANGED <<kind, window, size>>
  <2>1. n \in Nat
    BY SourceAssumption DEF SourceAssumption
  <2>2. CASE Fetch(n)
    BY <2>1, <2>2 DEF Fetch, Called
  <2>3. CASE Advance(n)
    BY <2>1, <2>3 DEF Advance, Called, WellUsed
  <2>. QED  BY <2>2, <2>3
<1>2. Size' = Size
  BY <1>1 DEF Size, window
<1>3. Size \in Nat /\ Offset \in Nat
  BY WholeFacts, SourceAssumption DEF WholeWindow, SourceAssumption
<1>4. call'.op = "advance" => n <= Size - Offset
  BY <1>1, <1>3
<1>. QED
  BY <1>1, <1>2, <1>4 DEF Abstract!Request, Abstract!None, Abstract!Nothing

\* A return is an answer: of a fetch that copied k bytes, or of a skip by k.
LEMMA AnswerStep ==
  ASSUME pc # "idle", pc' = "idle", call.op \in {"fetch", "advance"},
         call'.op = call.op, call'.n = call.n, call.n \in Nat,
         Size \in Nat, Size' = Size, call.start \in Nat,
         NEW k \in Nat, k <= call.n, call.start + k <= Size,
         k < call.n => call.start + k = Size,
         Offset' = call.start + k,
         call.op = "fetch" => /\ call'.copied = k
                              /\ \A i \in 0 .. call.n - 1 :
                                   dest'[i] = IF i < k THEN call.start + i ELSE Unwritten,
         call.op = "advance" => call'.copied = 0
  PROVE  Abstract!Answer
<1>1. k = IF call.n < Size - call.start THEN call.n ELSE Size - call.start
  OBVIOUS
<1>2. [op |-> call.op, n |-> call.n] # [op |-> "none", n |-> 0]
  OBVIOUS
<1>3. call.op = "fetch" => [i \in 0 .. call'.copied - 1 |-> dest'[i]]
                             = [i \in 0 .. k - 1 |-> call.start + i]
  BY AllBytes
<1>4. call.op = "advance" => [i \in 0 .. call'.copied - 1 |-> dest'[i]] = <<>>
  BY NoBytes
<1>. QED
  BY <1>1, <1>2, <1>3, <1>4
  DEF Abstract!Answer, Abstract!None, Abstract!Nothing, Abstract!Left

\* A refill in the middle of a call does not show.
LEMMA WholeRefill ==
  ASSUME WholeInv, MakeAvailable(cur), cur = blsize
  PROVE  /\ Offset' = Offset /\ Size' = Size
         /\ ec' \/ cur' >= blsize' => Offset = Size
<1>1. SourceInv /\ StreamInv /\ WholeWindow /\ ~Adrift /\ OneWindow
  BY WholeFacts DEF WholeInv, ContentInv, WholeWindow, OneWindow
<1>2. Refilled
  BY <1>1, WindowRefilled
<1>3. Offset' = Offset /\ Size' = Size
  BY <1>1, <1>2, RefillKeepsOffset, RefillKeepsSize
<1>4. CASE kind = "istream"
  <2>1. ~ec'
    BY <1>2, <1>4 DEF Refilled, StreamInv, IstreamWindow
  <2>. QED
    BY <1>1, <1>2, <1>3, <2>1, SourceAssumption
    DEF Refilled, WholeWindow, Adrift, SourceAssumption
<1>5. CASE kind # "istream"
  <2>1. kind = "buffer" => bloff = 0 /\ Size = blsize
    BY <1>1 DEF StreamInv, BufferWindow, Size
  <2>2. kind = "mmap" => /\ Size = size
                         /\ (bloff = 0 /\ blsize = size) \/ (bloff = size /\ blsize = 0)
    BY <1>1, <1>5 DEF WholeInv, WholeSource, StreamInv, MmapWindow, Size
  <2>3. kind \in {"buffer", "mmap"} /\ size \in Nat /\ blsize \in Nat
    BY <1>1, <1>5, Numbers
  <2>. QED  BY <1>1, <1>3, <2>1, <2>2, <2>3 DEF WholeWindow
<1>. QED  BY <1>4, <1>5

\* A step that only moves the call on does not show.
LEMMA StutterStep ==
  ASSUME pc # "idle", pc' # "idle", UNCHANGED <<call.op, call.n, call.start>>, Size' = Size
  PROVE  UNCHANGED Abstract!vars
BY DEF Abstract!vars

\* The call a whole source is in, and what it has delivered.
LEMMA WholeFetching ==
  ASSUME WholeInv, pc \in {"top", "copy", "refill"}
  PROVE  /\ WholeWindow /\ call.op = "fetch" /\ call.n \in Nat /\ call.start \in Nat
         /\ Size \in Nat /\ Delivered /\ DOMAIN dest = 0 .. call.n - 1
         /\ call.copied \in 0 .. call.n /\ Offset = call.start + call.copied
         /\ pc # "refill" => call.copied = 0
         /\ pc = "refill" => call.copied = call.n \/ Offset = Size
         /\ pc = "copy" => cur < blsize
         /\ pc = "refill" => cur = blsize
         /\ cur \in Nat /\ blsize \in Nat
<1>1. /\ SourceInv /\ StreamInv /\ WholeWindow /\ call.op = "fetch" /\ OneWindow
  BY WholeFacts DEF WholeInv, ContentInv, OneWindow, SourceInv, CallBounded
<1>2. /\ call.n \in Nat /\ call.start \in Nat /\ call.copied \in 0 .. call.n
      /\ Size \in Nat /\ cur \in Nat /\ blsize \in Nat /\ DOMAIN dest = 0 .. call.n - 1
  BY <1>1, Numbers, SourceAssumption DEF WholeWindow, SourceAssumption
<1>3. /\ Delivered /\ (pc # "refill" => call.copied = 0)
      /\ pc = "refill" => call.copied = call.n \/ Offset >= Size
  BY <1>1 DEF WholeInv, ContentInv, DeliveryInv, WholeWindow
<1>4. /\ Offset = call.start + call.copied
      /\ pc = "copy" => cur < blsize
      /\ pc = "refill" => cur = blsize
  BY <1>1 DEF WholeInv, WholeCall, ContentInv, CursorInv, WholeWindow
<1>5. Offset <= Size /\ Offset \in Nat
  BY <1>1, <1>2 DEF WholeWindow
<1>. QED  BY <1>1, <1>2, <1>3, <1>4, <1>5

LEMMA WholeTop ==
  ASSUME WholeInv, FetchTop
  PROVE  WholeCall' /\ (Abstract!Next \/ UNCHANGED Abstract!vars)
<1>1. pc = "top" /\ UNCHANGED <<call, dest>> /\ pc' \in {"copy", "idle"}
  BY DEF FetchTop
<1>2. /\ WholeWindow /\ call.op = "fetch" /\ call.n \in Nat /\ call.start \in Nat
      /\ Size \in Nat /\ Delivered /\ DOMAIN dest = 0 .. call.n - 1
      /\ call.copied = 0 /\ Offset = call.start /\ cur \in Nat /\ blsize \in Nat
  BY <1>1, WholeFetching
<1>3. CASE Avail # 0 /\ pc' = "copy"
           /\ UNCHANGED <<kind, file, window, size, block, stream, resources, ec>>
  <2>1. Offset' = Offset /\ Size' = Size
    BY <1>3, StreamStays DEF WholeInv, ContentInv, resources
  <2>2. WholeCall'
    BY <1>1, <1>2, <1>3, <2>1 DEF WholeCall
  <2>. QED  BY <1>1, <1>3, <2>1, <2>2, StutterStep
<1>4. CASE Avail = 0 /\ MakeAvailable(cur)
           /\ pc' = IF ec' \/ Offset' >= Size' THEN "idle" ELSE "copy"
  <2>1. cur = blsize
    BY <1>2, <1>4, WindowInStream DEF WholeInv, ContentInv, WholeWindow
  <2>2. Offset' = Offset /\ Size' = Size /\ (ec' => Offset = Size)
    BY <1>4, <2>1, WholeRefill
  <2>3. WholeCall'
    BY <1>1, <1>2, <2>2 DEF WholeCall
  <2>4. CASE pc' = "copy"
    BY <1>1, <2>2, <2>3, <2>4, StutterStep
  <2>5. CASE pc' = "idle"
    <3>1. Offset = Size
      BY <1>2, <1>4, <2>2, <2>5 DEF WholeWindow
    <3>2. \A i \in 0 .. call.n - 1 : dest'[i] = IF i < 0 THEN call.start + i ELSE Unwritten
      BY <1>1, <1>2 DEF Delivered
    <3>3. Abstract!Answer
      BY <1>1, <1>2, <2>2, <2>5, <3>1, <3>2, AnswerStep
    <3>. QED  BY <2>3, <3>3 DEF Abstract!Next
  <2>. QED  BY <1>1, <2>4, <2>5
<1>. QED  BY <1>3, <1>4 DEF FetchTop

LEMMA WholeFetchRefill ==
  ASSUME WholeInv, FetchRefill
  PROVE  WholeCall' /\ (Abstract!Next \/ UNCHANGED Abstract!vars)
<1>1. /\ pc = "refill" /\ UNCHANGED <<call, dest>> /\ MakeAvailable(cur)
      /\ pc' \in {"top", "idle"}
  BY DEF FetchRefill
<1>2. /\ WholeWindow /\ call.op = "fetch" /\ call.n \in Nat /\ call.start \in Nat
      /\ Size \in Nat /\ Delivered /\ DOMAIN dest = 0 .. call.n - 1 /\ cur = blsize
      /\ call.copied \in 0 .. call.n /\ Offset = call.start + call.copied
      /\ call.copied = call.n \/ Offset = Size
  BY <1>1, WholeFetching
<1>3. Offset' = Offset /\ Size' = Size
  BY <1>1, <1>2, WholeRefill
<1>4. WholeCall'
  BY <1>1, <1>2, <1>3 DEF WholeCall
<1>5. CASE pc' = "top"
  BY <1>1, <1>3, <1>4, <1>5, StutterStep
<1>6. CASE pc' = "idle"
  <2>1. \A i \in 0 .. call.n - 1 :
          dest'[i] = IF i < call.copied THEN call.start + i ELSE Unwritten
    BY <1>1, <1>2 DEF Delivered
  <2>2. call.start + call.copied <= Size /\ call.copied \in Nat
    BY <1>2 DEF WholeWindow
  <2>3. /\ pc # "idle" /\ call'.op = call.op /\ call'.n = call.n
        /\ call'.copied = call.copied /\ dest' = dest
        /\ call.copied <= call.n /\ (call.copied < call.n => call.start + call.copied = Size)
        /\ Offset' = call.start + call.copied
    BY <1>1, <1>2, <1>3
  <2>4. \A i \in 0 .. call.n - 1 :
          dest'[i] = IF i < call.copied THEN call.start + i ELSE Unwritten
    BY <2>1, <2>3
  <2>5. Abstract!Answer
    BY <1>2, <1>3, <1>6, <2>2, <2>3, <2>4, AnswerStep
  <2>. QED  BY <1>4, <2>5 DEF Abstract!Next
<1>. QED  BY <1>1, <1>5, <1>6

LEMMA WholeCopy ==
  ASSUME WholeInv, ContentInv', FetchCopy
  PROVE  WholeCall' /\ (Abstract!Next \/ UNCHANGED Abstract!vars)
<1>1. /\ pc = "copy" /\ call' = [call EXCEPT !.copied = call.copied + Capped]
      /\ dest' = Copied /\ cur' = WAdd(cur, Capped)
      /\ pc' = IF cur' >= blsize THEN "refill"
               ELSE IF call'.copied = call.n THEN "idle" ELSE "top"
      /\ UNCHANGED <<kind, file, bloff, blsize, data, size, block, stream>>
  BY DEF FetchCopy
<1>2. /\ WholeWindow /\ call.op = "fetch" /\ call.n \in Nat /\ call.start \in Nat
      /\ Size \in Nat /\ DOMAIN dest = 0 .. call.n - 1 /\ cur < blsize
      /\ call.copied = 0 /\ Offset = call.start /\ cur \in Nat /\ blsize \in Nat
  BY <1>1, WholeFetching
<1>3. /\ call'.op = "fetch" /\ call'.n = call.n /\ call'.start = call.start
      /\ call'.copied = call.copied + Capped
  <2>1. TypeOK
    BY DEF WholeInv, ContentInv, SourceInv
  <2>. QED  BY <1>1, <1>2, <2>1 DEF TypeOK
<1>4. Avail = blsize - cur
  BY WindowInStream, <1>2 DEF WholeInv, ContentInv, WholeWindow
<1>5. Capped \in Nat /\ Capped <= call.n /\ Capped <= blsize - cur
  BY <1>2, <1>4 DEF Capped, Smaller
<1>6. /\ bloff \in Nat /\ Width \in Nat /\ Size < Width /\ Offset = bloff + cur
      /\ bloff + blsize <= Size
  BY <1>2, Numbers, SourceAssumption DEF WholeWindow, WholeInv, ContentInv, SourceAssumption
<1>7. /\ cur' = cur + Capped /\ Offset' = call.start + Capped /\ Offset' <= Size
      /\ Size' = Size
  BY <1>1, <1>2, <1>5, <1>6 DEF WAdd, Offset, Size
<1>8. WholeCall'
  BY <1>1, <1>2, <1>3, <1>5, <1>7 DEF WholeCall
<1>9. CASE pc' # "idle"
  BY <1>1, <1>3, <1>7, <1>8, <1>9, StutterStep
<1>10. CASE pc' = "idle"
  <2>1. Capped = call.n
    BY <1>1, <1>2, <1>3, <1>5, <1>10
  <2>2. Delivered' /\ DOMAIN dest' = 0 .. call.n - 1
    <3>1. OneWindow'
      BY <1>1 DEF WholeInv, WholeSource, OneWindow
    <3>. QED  BY <1>1, <1>2, <1>3, <1>10, <3>1 DEF ContentInv, DeliveryInv, Copied
  <2>3. call'.copied = Capped
    BY <1>2, <1>3, <1>5
  <2>4. \A i \in 0 .. call.n - 1 :
          dest'[i] = IF i < Capped THEN call.start + i ELSE Unwritten
    BY <1>3, <2>2, <2>3 DEF Delivered
  <2>5. /\ pc # "idle" /\ call.start + Capped <= Size
        /\ Capped \in Nat /\ Capped <= call.n /\ ~(Capped < call.n)
    BY <1>1, <1>2, <1>5, <1>7, <2>1
  <2>6. Abstract!Answer
    BY <1>2, <1>3, <1>7, <1>10, <2>3, <2>4, <2>5, AnswerStep
  <2>. QED  BY <1>8, <2>6 DEF Abstract!Next
<1>. QED  BY <1>9, <1>10

LEMMA WholeSkip ==
  ASSUME WholeInv, ContentInv', AdvanceStep
  PROVE  WholeCall' /\ (Abstract!Next \/ UNCHANGED Abstract!vars)
<1>1. /\ pc = "advance" /\ call.op = "advance" /\ UNCHANGED <<call, dest>>
      /\ WholeWindow /\ SourceInv
      /\ Offset = call.start /\ cur + call.n <= blsize /\ Offset + call.n <= Size
      /\ call.copied = 0
  BY WholeFacts
  DEF WholeInv, WholeCall, ContentInv, CursorInv, SourceInv, CallBounded, AdvanceStep, WholeWindow
<1>2. /\ cur \in Nat /\ call.n \in Nat /\ blsize \in Nat /\ bloff \in Nat /\ Width \in Nat
      /\ blsize < Width /\ Size \in Nat /\ Size < Width /\ call.start \in Nat
      /\ Offset = bloff + cur
  BY <1>1, Numbers, SourceAssumption DEF WholeWindow, SourceAssumption
<1>3. /\ cur' = cur + call.n /\ pc' = "idle"
      /\ UNCHANGED <<kind, bloff, blsize, size>>
  BY <1>1, <1>2 DEF AdvanceStep, InWindow, WAdd
<1>4. Offset' = call.start + call.n /\ Size' = Size
  BY <1>1, <1>2, <1>3 DEF Offset, WAdd, Size
<1>5. WholeCall'
  BY <1>1, <1>3 DEF WholeCall
<1>6. Abstract!Answer
  <2>1. /\ call.op = "advance" /\ call'.op = call.op /\ call'.n = call.n /\ call'.copied = 0
        /\ pc # "idle" /\ call.start + call.n <= Size
    BY <1>1
  <2>2. call.op # "fetch" /\ call.n <= call.n /\ ~(call.n < call.n)
    BY <1>2, <2>1
  <2>. QED  BY <1>2, <1>3, <1>4, <2>1, <2>2, AnswerStep
<1>. QED  BY <1>5, <1>6 DEF Abstract!Next

-----------------------------------------------------------------------------
(* The refinement.                                                         *)

LEMMA StepWhole ==
  ASSUME WellUsed, WholeUsed
  PROVE  WholeInv /\ [Next]_vars => WholeInv' /\ [Abstract!Next]_(Abstract!vars)
<1>. SUFFICES ASSUME WholeInv, [Next]_vars
              PROVE  WholeInv' /\ (Abstract!Next \/ UNCHANGED Abstract!vars)
  OBVIOUS
<1>1. ContentInv' /\ WholeSource' /\ WholeFile'
  BY StepContent, StaysWhole DEF WholeInv
<1>2. ASSUME WholeCall' PROVE WholeInv'
  BY <1>1, <1>2 DEF WholeInv
<1>3. ASSUME NEW n \in 0 .. MaxRequest, Fetch(n) \/ Advance(n)
      PROVE  WholeInv' /\ Abstract!Next
  <2>1. /\ pc' \in {"top", "advance"} /\ UNCHANGED <<bloff, cur>>
        /\ call' = Called("fetch", n) \/ call' = Called("advance", n)
    BY <1>3 DEF Fetch, Advance, window
  <2>2. Offset' = Offset /\ Offset \in Nat
    BY <2>1, WholeFacts, SourceAssumption DEF Offset, WholeWindow, SourceAssumption
  <2>3. call'.copied = 0 /\ call'.start = Offset
    BY <2>1 DEF Called
  <2>4. WholeCall'
    BY <2>1, <2>2, <2>3 DEF WholeCall
  <2>. QED  BY <1>2, <1>3, <2>4, RequestStep DEF Abstract!Next
<1>4. ASSUME pc = "idle", call' = NoCall, pc' \in {"idle", "abort"},
             pc' = "abort" => kind = "mmap" /\ data # Null /\ blsize = 0
      PROVE  WholeInv' /\ Abstract!Next
  <2>1. pc' = "idle"
    <3>. SUFFICES ASSUME kind = "mmap", data # Null, blsize = 0 PROVE FALSE
      BY <1>4
    <3>. QED
      BY WholeFacts, Numbers
      DEF WholeInv, ContentInv, SourceInv, WindowMapped, WholeWindow, Adrift, Broken, MapFailed, Null
  <2>2. WholeCall'
    BY <1>4, <2>1 DEF WholeCall, NoCall
  <2>3. Abstract!Attach
    BY <1>2, <1>4, <2>1, <2>2, AttachStep DEF NoCall
  <2>. QED  BY <1>2, <2>2, <2>3 DEF Abstract!Next
<1>5. CASE FetchTop
  BY <1>2, <1>5, WholeTop
<1>6. CASE FetchCopy
  BY <1>1, <1>2, <1>6, WholeCopy
<1>7. ~FetchFault
  <2>. SUFFICES ASSUME FetchFault PROVE FALSE
    OBVIOUS
  <2>1. pc' = "fault" /\ Adrift' = Adrift /\ Overlong' = Overlong
    BY DEF FetchFault, Adrift, Broken, Spent, Offset, WAdd, Overlong, window
  <2>. QED  BY <1>1, <2>1, WholeFacts DEF ContentInv, NoFault, WholeWindow
<1>8. CASE FetchRefill
  BY <1>2, <1>8, WholeFetchRefill
<1>9. CASE AdvanceStep
  BY <1>1, <1>2, <1>9, WholeSkip
<1>10. CASE Prefetch
  BY <1>4, <1>10 DEF Prefetch
<1>11. ASSUME NEW m \in MapArgs, Map(m) PROVE WholeInv' /\ Abstract!Next
  BY <1>4, <1>11 DEF Map
<1>12. CASE Unmap
  BY <1>4, <1>12 DEF Unmap
<1>13. CASE Destroy
  BY <1>4, <1>13 DEF Destroy
<1>14. CASE UNCHANGED vars
  <2>1. UNCHANGED <<kind, bloff, blsize, cur, size, pc, call, dest>>
    BY <1>14 DEF vars, window
  <2>2. Offset' = Offset /\ Size' = Size
    BY <2>1 DEF Offset, Size
  <2>3. WholeCall'
    BY <2>1, <2>2 DEF WholeInv, WholeCall
  <2>4. UNCHANGED Abstract!vars
    BY <2>1, <2>2 DEF Abstract!vars
  <2>. QED  BY <1>2, <2>3, <2>4
<1>. QED
  BY <1>3, <1>5, <1>6, <1>7, <1>8, <1>9, <1>10, <1>11, <1>12, <1>13, <1>14 DEF Next, Step

LEMMA InitAbstract ==
  ASSUME WholeInv, pc = "idle", call = NoCall, Offset = 0
  PROVE  Abstract!Init
<1>1. Size \in Nat
  BY WholeFacts, SourceAssumption DEF WholeWindow, SourceAssumption
<1>2. [i \in 0 .. call.copied - 1 |-> dest[i]] = <<>>
  BY NoBytes DEF NoCall
<1>. QED  BY <1>1, <1>2 DEF Abstract!Init, Abstract!None, Abstract!Nothing

\* A source with its stream in one window implements ByteStream: each call is
\* a request, answered in one step with the bytes of the stream in order, or
\* what is left of them, whatever system calls fail.
THEOREM WholeImplementsByteStream ==
  ASSUME WellUsed, WholeUsed
  PROVE  Spec => Abstract!SafeSpec
<1>1. Init => WholeInv /\ Abstract!Init
  <2>. SUFFICES ASSUME Init PROVE WholeInv /\ Abstract!Init
    OBVIOUS
  <2>1. pc = "idle" /\ call = NoCall /\ Offset = 0
    BY SourceAssumption DEF Init, Offset, WAdd, SourceAssumption
  <2>. QED  BY <2>1, InitWhole, InitAbstract
<1>2. WholeInv /\ [Next]_vars => WholeInv' /\ [Abstract!Next]_(Abstract!vars)
  BY StepWhole
<1>. QED  BY <1>1, <1>2, PTL DEF Spec, Abstract!SafeSpec

\* So a fetch delivers the bytes of the stream in order, across any window.
THEOREM WholeFetchInOrder ==
  ASSUME WellUsed, WholeUsed
  PROVE  Spec => []FetchInOrder
<1>1. Init => WholeInv
  BY InitWhole
<1>2. WholeInv /\ [Next]_vars => WholeInv'
  BY StepWhole
<1>3. WholeInv => FetchInOrder
  BY DEF WholeInv, ContentInv, DeliveryInv, OneWindow, Delivered, FetchInOrder
<1>. QED  BY <1>1, <1>2, <1>3, PTL DEF Spec
=============================================================================
