---------------------------- MODULE ArchiveReader ----------------------------
(***************************************************************************)
(* archive_sink, archive_chunked and archive_whole (archive.hpp) at work:  *)
(* a stream is written the way of ArchiveLayout into a sink, which may     *)
(* stop taking bytes without anybody noticing, and what is in the file is  *)
(* read back through the window of a Source.  The reader turns each item   *)
(* of the layout into reads, skips and alignment of its own, and every     *)
(* read and skip is a call that Source executes in its rounds.             *)
(*                                                                         *)
(* Asserts are compiled in.                                                *)
(*                                                                         *)
(* A definition marked "Slip" is not part of the model: it is a mistake    *)
(* that could be made in the definition after it, kept to test that the    *)
(* properties notice it.                                                   *)
(***************************************************************************)
EXTENDS Integers, Sequences

CONSTANTS
  Ops, MaxOps, MaxOffset, Setups, ForcedAlign, OffsetBits, MaxName,   \* see ArchiveLayout
  PageSize, Width,                                        \* see Source
  Files,    \* how the stream is read: [kind, block]
  Losses    \* how many of the last bytes may be missing in the file

MaxPrimitive == 8
Word == 4

VARIABLES
  setup, items, op, start, off, pc, reads, pos,           \* ArchiveLayout
  kind, file, bloff, blsize, cur, data, size, block,      \* Source
  stream, fd, fds, maps, ec, call, dest,
  source_pc,     \* pc of Source
  archive,       \* the reading archive: not there yet, its source, or what ended it
  todo,          \* the calls the item being read still has to make
  out            \* what archive_whole copied last

L == INSTANCE ArchiveLayout
S == INSTANCE Source WITH
       Objects <- {}, MapArgs <- {}, SkipWithin <- "unchecked",
       MaxRequest <- MaxOffset, SyscallsFail <- {}, pc <- source_pc

\* Windows are as long as the program wants them to be; they begin and end
\* where a primitive may, which a page does.  A write is aligned the way its
\* primitives are, and their alignments are powers of two.  A size_t is an fs_t.
ASSUME ReaderAssumption ==
  /\ L!LayoutAssumption
  /\ Losses \subseteq Nat
  /\ \A s \in Setups : s.reader \in {"chunked", "whole"} /\ s.asserts
  /\ PageSize \in Nat \ {0} /\ Width \in Nat /\ Width % PageSize = 0 /\ PageSize < Width
  /\ PageSize % MaxPrimitive = 0
  /\ \A f \in Files : /\ f.kind \in {"buffer", "istream", "mmap"}
                      /\ f.block \in 0 .. Width - 1 /\ f.block % MaxPrimitive = 0
                      /\ f.kind = "mmap" => f.block % PageSize = 0
  /\ \A o \in Ops : MaxPrimitive % o.align = 0
  /\ Width <= 2^OffsetBits /\ 3 <= OffsetBits

layout == <<setup, items, op, start, off, pc, reads, pos>>
source == <<kind, file, bloff, blsize, cur, data, size, block, stream, fd, fds, maps,
            ec, source_pc, call, dest>>
reader == <<archive, todo, out>>
vars   == <<layout, source, reader>>

-----------------------------------------------------------------------------
(* Writing.  archive_sink counts what it hands to its sink; sink_ostream   *)
(* does not look at the state of the ostream, which drops everything after *)
(* the first write that fails.                                             *)

Writing ==
  /\ \/ \E o \in Ops : L!Write(o)
     \/ L!Step
     \/ L!Finish
  /\ UNCHANGED <<source, reader>>

\* The lengths of files are numbers of size_t.  An archive_whole has the whole
\* stream in the window of its source.  A file mapped whole is a page or less,
\* or whole pages; a mapping of blocks finds a block to begin with.
Suits(f, n) ==
  /\ n < Width
  /\ setup.reader = "whole" => f.block = 0
  /\ f.kind = "mmap" => IF f.block = 0 THEN n > 0 /\ (n <= PageSize \/ n % PageSize = 0)
                                       ELSE n >= f.block

\* The constructors of the sources.
Open(f, lost) ==
  /\ pc = "read" /\ archive = "none"
  /\ lost <= off /\ Suits(f, off - lost)
  /\ archive' = IF f.kind = "buffer" THEN "open" ELSE f.kind
  /\ kind' = f.kind /\ file' = off - lost
  /\ blsize' = IF f.kind = "buffer" THEN file' ELSE 0
  /\ data' = IF f.kind = "mmap" THEN S!Null ELSE 0
  /\ size' = IF f.kind = "mmap" THEN 0 ELSE file'
  /\ block' = CASE f.kind = "istream" /\ f.block = 0 -> file'
                [] f.kind = "istream" /\ f.block # 0 -> f.block
                [] f.kind \in {"buffer", "mmap"} -> 0
  /\ UNCHANGED <<layout, bloff, cur, stream, fd, fds, maps, ec, source_pc, call, dest, todo, out>>

\* A file is mapped; a stream is read ahead, which archive_chunked does without.
OpenMmap(f) ==
  /\ archive = "mmap" /\ f.kind = "mmap" /\ Suits(f, file)
  /\ S!Map([off |-> 0, block |-> f.block])
  /\ archive' = "open"
  /\ UNCHANGED <<layout, todo, out>>

OpenIstream ==
  /\ archive = "istream" /\ archive' = "open"
  /\ \/ S!Prefetch
     \/ setup.reader = "chunked" /\ UNCHANGED source
  /\ UNCHANGED <<layout, todo, out>>

-----------------------------------------------------------------------------
(* What an item asks of the archive.                                       *)

Basic(n) == [c |-> "read", n |-> n, basic |-> TRUE]
Data(n)  == [c |-> "read", n |-> n, basic |-> FALSE]
Skip(n)  == [c |-> "advance", n |-> n]
Primitive(o) == o.len = o.align /\ o.len <= MaxPrimitive

\* Slip: the garbage length is taken to count its own size.
BehindFlagsLess(it) ==
  CASE L!Padded -> <<Basic(Word), Skip(it.garbage - Word)>>
    [] ~L!Padded /\ L!Named -> <<Basic(Word), Skip(it.name)>>
    [] ~L!Padded /\ ~L!Named -> <<>>
\* process_prefix behind the version and its flags.
BehindFlags(it) ==
  CASE L!Padded -> <<Basic(Word), Skip(it.garbage)>>
    [] ~L!Padded /\ L!Named -> <<Basic(Word), Skip(it.name)>>
    [] ~L!Padded /\ ~L!Named -> <<>>

\* align_stream and a read for a value, process_prefix for an object, and
\* read_basic for every word of a vu.
Calls(it) ==
  CASE it.op.kind = "object" -> <<Basic(Word)>> \o BehindFlags(it)
    [] it.op.kind = "vu" -> [i \in 1 .. it.op.len \div it.op.align |-> Basic(it.op.align)]
    [] it.op.kind = "value" ->
         <<[c |-> "align", n |-> it.op.align],
           IF Primitive(it.op) THEN Basic(it.op.len) ELSE Data(it.op.len)>>

Item == items[reads + 1]

\* The last call left the cursor elsewhere than it should.  The reader reads
\* other bytes from there on, and is not followed.
Missed == call.op # "none" /\ S!Offset # S!WAdd(call.start, call.n)
Idle == archive = "reading" /\ source_pc = "idle" /\ ~Missed

StartItem ==
  /\ archive = "open" /\ reads < Len(items)
  /\ todo' = Calls(Item) /\ archive' = "reading"
  /\ UNCHANGED <<layout, source, out>>

Due(c) == Idle /\ todo # <<>> /\ Head(todo).c = c
N == Head(todo).n

\* Slip: a reader that stands well is moved on all the same.
AlignStreamAlways ==
  /\ Due("align")
  /\ todo' = <<Skip(L!Align(S!Offset + 1, N) - S!Offset)>> \o Tail(todo)
  /\ UNCHANGED <<layout, source, archive, out>>

\* Slip: the break of the writer's loop is missing.
AlignStreamForever ==
  /\ Due("align")
  /\ todo' = IF L!Aligned(S!Offset, N) THEN todo
             ELSE <<Skip(L!Align(S!Offset, N) - S!Offset)>> \o todo
  /\ UNCHANGED <<layout, source, archive, out>>

\* archive_read_util::align_stream.
AlignStream ==
  /\ Due("align")
  /\ todo' = IF L!Aligned(S!Offset, N) THEN Tail(todo)
             ELSE <<Skip(L!Align(S!Offset, N) - S!Offset)>> \o Tail(todo)
  /\ UNCHANGED <<layout, source, archive, out>>

\* Slip: an archive_chunked asks for what is left in the window.
AdvanceAssertsAvail == S!Offset + N <= S!Avail
\* The asserts of advance, and of read_basic and read_data.
AdvanceAsserts == IF setup.reader = "whole" THEN S!Offset + N <= S!Avail
                                            ELSE S!Offset + N <= S!Size
\* Slip: what is left of the stream is not asked for.
ReadAssertsAlways == Head(todo).basic => cur % N = 0
ReadAsserts == /\ IF setup.reader = "whole" THEN N <= S!Avail ELSE S!Offset + N <= S!Size
               /\ Head(todo).basic => cur % N = 0      \* memory is aligned like cur

Advance ==
  /\ Due("advance") /\ AdvanceAsserts
  /\ S!Advance(N)
  /\ todo' = Tail(todo)
  /\ UNCHANGED <<layout, archive, out>>

ReadChunked ==
  /\ Due("read") /\ ReadAsserts /\ setup.reader = "chunked"
  /\ S!Fetch(N)
  /\ todo' = Tail(todo)
  /\ UNCHANGED <<layout, archive, out>>

\* Slip: m_data for data().
ReadWholeFromStart ==
  /\ Due("read") /\ ReadAsserts /\ setup.reader = "whole"
  /\ out' = [i \in 0 .. N - 1 |-> S!Byte(i)]
  /\ S!Advance(N)
  /\ todo' = Tail(todo)
  /\ UNCHANGED <<layout, archive>>

\* archive_whole copies what the window shows and advances.
ReadWhole ==
  /\ Due("read") /\ ReadAsserts /\ setup.reader = "whole"
  /\ out' = [i \in 0 .. N - 1 |-> S!Byte(cur + i)]
  /\ S!Advance(N)
  /\ todo' = Tail(todo)
  /\ UNCHANGED <<layout, archive>>

Abort ==
  /\ \/ Due("advance") /\ ~AdvanceAsserts
     \/ Due("read") /\ ~ReadAsserts
  /\ archive' = "aborted"
  /\ UNCHANGED <<layout, source, todo, out>>

SourceStep ==
  /\ archive = "reading" /\ S!Step
  /\ UNCHANGED <<layout, reader>>

Astray ==
  /\ archive = "reading" /\ source_pc = "idle" /\ Missed
  /\ archive' = "astray"
  /\ UNCHANGED <<layout, source, todo, out>>

EndItem ==
  /\ Idle /\ todo = <<>>
  /\ reads' = reads + 1 /\ pos' = S!Offset /\ archive' = "open"
  /\ UNCHANGED <<setup, items, op, start, off, pc, source, todo, out>>

Done ==
  /\ archive = "open" /\ L!Done
  /\ UNCHANGED <<source, reader>>

-----------------------------------------------------------------------------
Init ==
  /\ L!Init
  /\ kind = "buffer" /\ file = 0
  /\ bloff = 0 /\ blsize = 0 /\ cur = 0 /\ data = 0 /\ size = 0 /\ block = 0
  /\ stream = [good |-> TRUE, pos |-> 0]
  /\ fd = FALSE /\ fds = 0 /\ maps = 0
  /\ ec = FALSE /\ call = S!NoCall /\ dest = <<>> /\ source_pc = "idle"
  /\ archive = "none" /\ todo = <<>> /\ out = <<>>

Reading ==
  \/ StartItem \/ AlignStream \/ Advance \/ ReadChunked \/ ReadWhole \/ Abort
  \/ SourceStep \/ Astray \/ EndItem \/ Done

Next ==
  \/ Writing
  \/ \E f \in Files : OpenMmap(f) \/ \E lost \in Losses : Open(f, lost)
  \/ OpenIstream
  \/ Reading

Spec == Init /\ [][Next]_vars
\* A statement that reads an object runs on the caller's thread to its end.
FairSpec == Spec /\ WF_vars(Reading)

-----------------------------------------------------------------------------
(* Properties.                                                             *)

\* What the last item's last read delivered.
Got == IF setup.reader = "whole" THEN out ELSE dest

InBlock(it) == block = 0 \/ setup.reader = "whole" \/ (it.head % block) + it.op.len <= block

\* Whichever way the source cuts the stream into windows, a value arrives byte
\* by byte as it was written, and so does the last word of a vu.  Of a primitive
\* and a word nothing more is asked: that it is aligned keeps it inside a window.
\* An array is delivered if it lies in one (a fetch across windows is the subject
\* of source_dest).
ValuesDelivered ==
  archive = "open" /\ reads > 0 =>
    LET it == items[reads] IN
    /\ it.op.kind = "value" /\ (Primitive(it.op) \/ InBlock(it)) =>
         Got = [i \in 0 .. it.op.len - 1 |-> it.head + i]
    /\ it.op.kind = "vu" =>
         Got = [i \in 0 .. it.op.align - 1 |-> it.end - it.op.align + i]

\* The padding before a value never takes the reader astray, in windows of any
\* size: only a skip over an object's name or garbage, which may be longer than
\* what is left of the window, does.
OnlyPrefixesLeadAstray ==
  archive = "astray" =>
    /\ setup.reader = "chunked" /\ block > 0
    /\ Item.op.kind = "object" /\ Item.end - Item.head > Word

\* A stream that lost its end on the way to the disk, which no error code tells
\* of, stops the reader: no item with missing bytes is taken for read, and none
\* takes the reader astray.
LossNoticed ==
  /\ reads > 0 /\ archive # "none" => items[reads].end <= file
  /\ archive = "astray" => Item.end <= file

\* A complete stream is refused for three causes only: an object behind data
\* that ends off a multiple of four; a vu whose words, which the writer does not
\* align, lie off a multiple of their size; and, by archive_whole, a skip in the
\* second half (its assert compares an offset with what is left).
RefusedForACause ==
  archive = "aborted" /\ file = off =>
    \/ Item.op.kind = "object" /\ ~L!Aligned(Item.start, Word)
    \/ Item.op.kind = "vu" /\ ~L!Aligned(Item.start, Item.op.align)
    \/ setup.reader = "whole" /\ Head(todo).c = "advance" /\ 2 * S!Offset + N > off

\* An archive over a source reads the way the layout says a reader does: each
\* item it completes is a read of ArchiveLayout, and leaves it where that does.
ImplementsLayout == L!Spec

\* A skip that has left its window and gone further than it was asked to.
Overshot == call.op = "advance" /\ S!Offset > call.start + call.n

\* Reading an item comes to an end, in a stream that ends early as well.  Only a
\* skip that overshoots may go on for ever: behind the end there is no window
\* for it to stop in.
ItemsEnd == archive = "reading" ~> archive # "reading" \/ Overshot
=============================================================================
