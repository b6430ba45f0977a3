--------------------------- MODULE ArchiveLayout ---------------------------
(***************************************************************************)
(* The stream format of pulmotor's archives (archive.hpp): what the        *)
(* serializer's writes put where, and how the reader finds it again.  The  *)
(* format has no index: a reader repeats the operations of the writer, and *)
(* each of the two sides computes alignment and padding on its own.        *)
(*                                                                         *)
(* A write is a value (a primitive, an array of primitives, raw data), the *)
(* prefix of an object (version flags, garbage length, debug string,       *)
(* padding), or a variable-length quantity, whose words are written where  *)
(* the stream stands.  The stream is abstracted to where each write        *)
(* starts, where its bytes begin after alignment, and where it ends:       *)
(* reading elsewhere yields other bytes.                                   *)
(*                                                                         *)
(* A definition marked "Slip" is not part of the model: it is a mistake    *)
(* that could be made in the definition after it, kept to test that the    *)
(* properties notice it.                                                   *)
(***************************************************************************)
EXTENDS Integers, Sequences, Binary

CONSTANTS
  Ops,           \* the writes: [kind : {"value", "object", "vu"}, align, len]
  MaxOps,        \* how many of them make a stream
  MaxOffset,     \* bound on the length of the stream
  Setups,        \* the archives and builds: [flags, reader, asserts], see below
  ForcedAlign,   \* forced_align
  OffsetBits,    \* bits of fs_t
  MaxName        \* ver_debug_string_max_size

Word   == 4      \* sizeof(u32): flags, garbage length, length of the name
PadMax == 32     \* sizeof null_32, and the assert of align_stream

-----------------------------------------------------------------------------
(* util::align and the test for alignment, on the bits of the offset.      *)

PowersOfTwo == {2^k : k \in 0 .. OffsetBits}

Align(o, al)   == Or(o - 1, al - 1, OffsetBits) + 1
Aligned(o, al) == Bits(o, OffsetBits) \cap Bits(al - 1, OffsetBits) = {}

Smaller(a, b) == IF a < b THEN a ELSE b

\* Where align_stream takes a reader standing at o.
Target(o, al) == IF Aligned(o, al) THEN o ELSE Align(o, al)
\* Slip: of a gap wider than PadMax the rest is written, not PadMax.
PaddingRest(o, al) == (Align(o, al) - o) % PadMax
\* What one round of the writer's align_stream adds.
Padding(o, al) == Smaller(Align(o, al) - o, PadMax)

\* archive_vector_in and archive_istream move without asserts.
Unchecked == {"vector", "istream"}

\* Offsets do not overflow.  With an alignment that is no power of two, which an
\* array may have, the bits do not give the next multiple: of such a one it is
\* assumed that aligning never moves back, and that padding in rounds of PadMax
\* does not change where it leads.
ASSUME LayoutAssumption ==
  /\ MaxOps \in Nat /\ MaxOffset \in Nat /\ MaxName \in Nat
  /\ OffsetBits \in Nat /\ Doubling(OffsetBits)
  /\ ForcedAlign \in PowersOfTwo /\ MaxOffset + ForcedAlign <= 2^OffsetBits
  /\ \A s \in Setups : /\ s.flags \subseteq {"align_object", "debug_string"}
                       /\ s.reader \in Unchecked \cup {"chunked", "whole"}
                       /\ s.asserts \in BOOLEAN
  /\ \A op \in Ops : /\ op.kind \in {"value", "object", "vu"}
                     /\ op.align \in Nat \ {0} /\ op.len \in Nat
                     /\ MaxOffset + op.align <= 2^OffsetBits
                     /\ op.kind = "object" => op.align = Word
                     /\ op.kind = "vu" =>
                          op.align \in PowersOfTwo /\ op.len > 0 /\ op.len % op.align = 0
  /\ \A op \in {p \in Ops : p.align \notin PowersOfTwo} :
       /\ Aligned(0, op.align)
       /\ \A o \in 1 .. MaxOffset : ~Aligned(o, op.align) =>
            /\ Align(o, op.align) \in Nat /\ o <= Align(o, op.align)
            /\ Target(o + Padding(o, op.align), op.align) = Target(o, op.align)

VARIABLES
  setup,   \* m_flags of the writing archive, the kind of the reading archive,
           \* and whether assert() is compiled in
  items,   \* what has been written: [op, start, head, end, garbage, name]
  op,      \* the write going on
  start,   \* where the stream ended when it began
  off,     \* the writer's offset()
  pc,
  reads,   \* how many writes the reader has repeated
  pos      \* the reader's offset()

vars == <<setup, items, op, start, off, pc, reads, pos>>

Padded == "align_object" \in setup.flags
Named  == "debug_string" \in setup.flags

-----------------------------------------------------------------------------
(* The writer: archive_write_util and archive_write_version_util.          *)

Write(o) ==
  /\ pc = "choose" /\ Len(items) < MaxOps
  /\ op' = o /\ start' = off
  /\ pc' = "align"
  /\ UNCHANGED <<setup, items, off, reads, pos>>

\* s_vu writes its words, of op.align bytes each, without align_stream.
Aligning == op.kind # "vu" /\ ~Aligned(off, op.align)

\* One round of the loop of align_stream.
Pad ==
  /\ pc = "align" /\ Aligning /\ off <= MaxOffset
  /\ IF setup.asserts /\ Align(off, op.align) - off > PadMax
     THEN pc' = "write_abort" /\ UNCHANGED off
     ELSE off' = off + Padding(off, op.align) /\ UNCHANGED pc
  /\ UNCHANGED <<setup, items, op, start, reads, pos>>

WriteValue ==
  /\ pc = "align" /\ ~Aligning /\ op.kind # "object"
  /\ off' = off + op.len
  /\ items' = Append(items, [op |-> op, start |-> start, head |-> off, end |-> off',
                             garbage |-> 0, name |-> 0])
  /\ pc' = "choose"
  /\ UNCHANGED <<setup, op, start, reads, pos>>

\* Slip: the garbage length's own size is forgotten.
ObjectStartShort(base, block) == IF Padded THEN Align(base + block - Word, ForcedAlign)
                                ELSE base + block
\* Where the object's data begins when block bytes of prefix follow the flags,
\* which end at base; and the garbage length written for it.
ObjectStart(base, block) == IF Padded THEN Align(base + block, ForcedAlign)
                            ELSE base + block
\* Slip: two words are taken off.
GarbageTwice(base, objs) == IF Padded THEN objs - base - 2 * Word ELSE 0
Garbage(base, objs) == IF Padded THEN objs - base - Word ELSE 0

\* write_object_prefix_impl once the flags are aligned; op.len is the length
\* of the type's name.
WriteObject ==
  LET name  == IF Named THEN Smaller(op.len, MaxName) ELSE 0
      base  == off + Word
      block == (IF Named THEN Word + name ELSE 0) + (IF Padded THEN Word ELSE 0)
      objs  == ObjectStart(base, block)
  IN
  /\ pc = "align" /\ ~Aligning /\ op.kind = "object"
  /\ base + block <= MaxOffset
  /\ off' = objs
  /\ items' = Append(items, [op |-> op, start |-> start, head |-> off, end |-> objs,
                             garbage |-> Garbage(base, objs), name |-> name])
  /\ pc' = "choose"
  /\ UNCHANGED <<setup, op, start, reads, pos>>

Finish ==
  /\ pc = "choose" /\ items # <<>>
  /\ pc' = "read"
  /\ UNCHANGED <<setup, items, op, start, off, reads, pos>>

-----------------------------------------------------------------------------
(* The reader: archive_read_util over archive_vector_in, archive_istream,  *)
(* archive_chunked or archive_whole.                                       *)

\* The asserts of advance() from p over n bytes, and of a read of n bytes at p.
AdvanceAsserts(p, n) ==
  CASE setup.reader \in Unchecked -> TRUE
    [] setup.reader = "chunked" -> p + n <= off
    [] setup.reader = "whole"   -> p + n <= off - p
ReadAsserts(p, n) == setup.reader \notin Unchecked => p + n <= off
AlignAssert(p, n) == setup.reader \notin Unchecked => Aligned(p, n)

Item == items[reads + 1]

\* What becomes of a read: an assert stops the program, other bytes than the
\* ones written are read, or the reader goes on behind the item.
Outcome(ok, p, next) ==
  \/ setup.asserts /\ ~ok /\ pc' = "read_abort" /\ UNCHANGED <<reads, pos>>
  \/ (setup.asserts => ok) /\ p # Item.head /\ pc' = "lost" /\ UNCHANGED <<reads, pos>>
  \/ (setup.asserts => ok) /\ p = Item.head /\ reads' = reads + 1 /\ pos' = next /\ UNCHANGED pc

ReadValue ==
  LET p == Target(pos, Item.op.align) IN
  /\ pc = "read" /\ reads < Len(items) /\ Item.op.kind = "value"
  /\ Outcome(/\ p # pos => AdvanceAsserts(pos, p - pos)
             /\ ReadAsserts(p, Item.op.len),
             p, p + Item.op.len)
  /\ UNCHANGED <<setup, items, op, start, off>>

\* read_basic for each word, which asks for a place aligned to it.
ReadVu ==
  /\ pc = "read" /\ reads < Len(items) /\ Item.op.kind = "vu"
  /\ Outcome(ReadAsserts(pos, Item.op.len) /\ AlignAssert(pos, Item.op.align),
             pos, pos + Item.op.len)
  /\ UNCHANGED <<setup, items, op, start, off>>

\* process_prefix: the flags are read where the reader stands.
\* Slip: the garbage length does not count its own size.
SkipGarbage(it) == IF Padded THEN it.garbage ELSE IF Named THEN Word + it.name ELSE 0
Skip(it) == IF Padded THEN Word + it.garbage ELSE IF Named THEN Word + it.name ELSE 0

ReadObject ==
  LET skip == Skip(Item) IN
  /\ pc = "read" /\ reads < Len(items) /\ Item.op.kind = "object"
  /\ Outcome(/\ ReadAsserts(pos, Word) /\ AlignAssert(pos, Word)
             /\ skip > 0 => AdvanceAsserts(pos + 2 * Word, skip - Word),
             pos, pos + Word + skip)
  /\ UNCHANGED <<setup, items, op, start, off>>

Done ==
  /\ pc = "read" /\ reads = Len(items)
  /\ pc' = "done"
  /\ UNCHANGED <<setup, items, op, start, off, reads, pos>>

-----------------------------------------------------------------------------
NoOp == [kind |-> "none", align |-> 1, len |-> 0]

Init ==
  /\ setup \in Setups
  /\ items = <<>> /\ op = NoOp /\ start = 0 /\ off = 0
  /\ pc = "choose" /\ reads = 0 /\ pos = 0

Step == Pad \/ WriteValue \/ WriteObject

Next == (\E o \in Ops : Write(o)) \/ Step \/ Finish \/ ReadValue \/ ReadVu \/ ReadObject \/ Done

Spec == Init /\ [][Next]_vars
\* The write of a value runs to its end once it is started.
FairSpec == Spec /\ WF_vars(Step)

-----------------------------------------------------------------------------
(* Properties.                                                             *)

\* The state of the writer and of the reader, and what has been written.
TypeOK ==
  /\ setup \in Setups
  /\ items \in Seq([op : Ops, start : Nat, head : Nat, end : Nat, garbage : Nat, name : Nat])
  /\ op \in Ops \cup {NoOp} /\ start \in Nat /\ off \in Nat
  /\ pc \in {"choose", "align", "read", "done", "lost", "write_abort", "read_abort"}
  /\ reads \in 0 .. Len(items) /\ pos \in Nat

\* After every item the reader stands exactly where the writer stood after
\* it, although each computes alignment, garbage length and padding by
\* itself; and it has read the stream to the end when it is done.  The one
\* way to fall out of step is an object prefix whose padding it never skips.
ReaderInStep ==
  /\ pc \in {"read", "done"} => pos = IF reads = 0 THEN 0 ELSE items[reads].end
  /\ pc = "done" => pos = off
  /\ pc = "lost" => Item.op.kind = "object" /\ ~Aligned(Item.start, Word)

\* Each value and each object begins at the first multiple of its alignment,
\* though the code pads in rounds; with align_object, an object's data begins at
\* the first multiple of forced_align behind its prefix.
FirstMultiple ==
  \A i \in DOMAIN items : LET it == items[i] IN
    /\ it.op.kind # "vu" /\ it.op.align \in PowersOfTwo =>
         it.head % it.op.align = 0 /\ it.head - it.start \in 0 .. it.op.align - 1
    /\ it.op.kind = "object" /\ Padded =>
         LET full == it.head + 2 * Word
                     + IF Named THEN Word + it.name ELSE 0
         IN it.end % ForcedAlign = 0 /\ it.end - full \in 0 .. ForcedAlign - 1

\* A started write comes to an end.
WriterFinishes == pc = "align" ~> pc # "align"
=============================================================================
