# Formal models of pulmotor

pulmotor is a C++17 serialization library: programs say `ar | x`, the library
writes `x` to a stream or reads it back. It is sequential. What is hard in it
is not threads but protocols: a reader that must repeat, without any index in
the stream, every alignment decision the writer made; cursors that outlive the
window they point into; destructors, deallocators and constructors that have
to run in the right order on memory that may or may not hold an object; system
calls that fail half-way.

This directory holds TLA+ models of that code, configurations that check them
with TLC, and proofs for TLAPS. Paths below are relative to the repository.

## The system

| Part | Source | State | Operations |
|---|---|---|---|
| Byte sources | `src/pulmotor/stream.hpp`, `stream.cpp` | window `m_bloff`, `m_blsize`, `m_data`, cursor `m_cur`; file size, block size, descriptor, mapping, istream | `fetch`, `advance`, `make_available` (3 sources), `prefetch`, `map`, `unmap`, destructor |
| Stream format | `archive.hpp` (`archive_write_util`, `archive_write_version_util`, `archive_read_util`) | offset of the writer, offset of the reader | `align_stream` (one for each side), `write_object_prefix`, `process_prefix`, reads and writes |
| Reading archives | `archive.hpp` (`archive_whole`, `archive_chunked`, `archive_istream`, `archive_vector_in`) | a source or an offset, `ec_` | `advance`, `read_basic`, `read_data` |
| Writing archives, sinks | `archive.hpp` (`archive_vector_out`, `archive_sink`), `stream.cpp` (`sink_ostream`) | the bytes, or how many were written | `write_basic`, `write_data` |
| Object serialization | `serialize.hpp` | the user's pointers and the objects behind them | values, `T*`, `alloc`, `place`, `construct`, `construct` without a pointer, arrays, `base` |
| Variable-length quantities | `serialize.hpp` (`s_vu`), `util.cpp`, `util.hpp` | accumulator and word count of a decoder | `euleb`, `duleb` |
| Pointer table | `archive.hpp` (`archive_pointer_support`) | two maps between pointers and ids | `reg_ptr`, `restore_ptr`, lookups; inherited by archives, called by nothing |
| Standard containers | `std/*.hpp` | the container being loaded | vector, map, string, pair, unique_ptr |
| Legacy blit | `blit.hpp`, `blit.cpp`, `blit_holder.*`, `endian.hpp` | areas, pointers between them, fix-up tables | lays objects out so that a file can be used in place; in no build target |
| Older archives | `archive_std.hpp`, `archive_json.hpp` | | in no build target |

How they interact: `operator|` enters `logic<T>::s_serializable`, which calls
`write_object_prefix` or `process_prefix` of the archive for prefixes,
`align_stream` and `read_basic`/`write_basic`/`read_data`/`write_data` for
primitives, and the class's own `serialize`, `save_construct` or
`load_construct`, which call `operator|` again. An archive calls its source
(`fetch`, `advance`, `avail`, `data`) or sink; a source calls its own virtual
`make_available` when the cursor leaves the window.

What makes each part correct:

- a source hands out the bytes of the stream in order, once each, whichever
  block sizes the windows have, skips exactly what it was told to, and gives
  back every descriptor and mapping even when a call in the middle fails;
- a reader stands, after each item, exactly where the writer stood after it;
- loading never builds an object over a live one, destroys one twice, or frees
  one that lives; it leaks nothing, and yields the objects that were written,
  nulls as nulls;
- a container that is read holds what was written, whatever it held before,
  and after an exception something that can be destroyed or read onto again;
- pointers that were shared are shared again, and no others;
- a number comes back as it was written, in bounded space.

## Modules

| Module | Models |
|---|---|
| `ByteStream` | abstract specification: a stream with a cursor, requests answered in one step |
| `Source` | the byte sources, one action per round of a loop of the code |
| `SourceRefinement` | the refinement mapping from `Source` to `ByteStream` |
| `ArchiveLayout` | writer and reader of the stream format |
| `ArchiveReader` | `archive_sink`, then `archive_chunked` or `archive_whole` over a source: composes `ArchiveLayout` and `Source` |
| `ObjectStream` | object serialization and the memory it manages |
| `Containers` | values made of values: classes, arrays, vector, map, string, unique_ptr, and exceptions |
| `PointerTable` | `archive_pointer_support` in a writing and a reading archive |
| `VarUInt` | `s_vu`, `euleb`, `duleb` |
| `Blit` | the legacy blit code: gathering objects, writing them as a block, loading it |
| `Binary` | the bits of an unsigned number and the bitwise or, for `ArchiveLayout`, `VarUInt` and `Blit` |
| `MC...` | instances for TLC |
| `SourceProofs`, `ArchiveLayoutProofs`, `PointerTableProofs`, `ObjectStreamProofs`, `ArchiveReaderProofs`, `VarUIntProofs`, `BlitProofs` | theorems |
| `BinaryProofs` | lemmas about powers of two, bits and places in a sequence, for `ArchiveLayoutProofs`, `ArchiveReaderProofs`, `VarUIntProofs` and `BlitProofs` |

Operators marked *Slip* are no part of a model. Each is a plausible mistake in
the definition that follows it; replacing that definition by the slip must
make a property fail, which shows that the property watches that code.

### Source

The variables are the members of `block_common` and of the derived classes;
`kind` selects the class. A byte is represented by its position in the file,
so copying from or to the wrong place shows in `dest`. `call` holds the
arguments and the local `copied` of the call in progress, `pc` where it is.
`fetch` is `Fetch`, then `FetchTop` (the test for an empty window),
`FetchCopy` (the memcpy and the cursor), `FetchRefill` (the call of
`make_available` behind it); `advance` is `Advance` and `AdvanceStep`.
`MakeAvailable` has one operator per class. Sizes are unsigned modulo `Width`,
so differences wrap as in the code. `FetchFault` is a memcpy from memory that
no buffer or mapping backs; `pc = "abort"` is the assert in `~source_mmap`.
`open`, `fstat` and `mmap` fail nondeterministically where `SyscallsFail` says
so; `munmap` of length zero always fails, as the kernel specifies.

Assumed: the page size is the right one. `util::get_pagesize` returns 0 in a
build that is neither Windows nor macOS (`util.cpp:18`), where `off % ps`
divides by zero. A user does not `map` a source that is mapped (the code would
lose the first descriptor). `SkipWithin` says how far users skip: to the end
of the window, or as far as they like.

Three sources have a window that is not what its members say. One whose last
`mmap` failed has `MAP_FAILED` for its data and reports no error when it is used
again (`Broken`). One whose block is longer than its file counts bytes the file
does not have (`Overlong`). And one mapped whole, of a file that ends inside a
page other than its first, has a block of no bytes; when it has been read to its
end, `make_available` drops the mapping, and the cursor stands in the middle of
the page, behind an empty window (`Spent`): `avail()` wraps, and the next `fetch`
copies from behind a null pointer (`stream.cpp:158-162`, then `30` and `38`). The
properties name these sources where they do not speak of them. `Adrift` is the
first or the third.

### ArchiveLayout

A stream is the list of writes with where each began, where its bytes begin
and end, and the garbage length and name written in a prefix: reading at any
other place yields other bytes, so `pc = "lost"` is a reader that has fallen
out of step. `Pad` is one round of the writer's `align_stream`; `WriteObject`
is `write_object_prefix_impl` behind the alignment of the flags. `Target` is
the reader's own `align_stream`, `ReadObject` its `process_prefix`. The words of
a variable-length quantity (`kind = "vu"`, `op.len` bytes in words of `op.align`)
are written and read where the stream stands: `s_vu` calls no `align_stream`
(`Aligning`), though `read_basic` asserts that a word is aligned (`ReadVu`). `setup`
chooses the flags of the archive, the reader, and whether asserts are compiled
in; the asserts are modelled as written. `Align` and `Aligned` are `util::align`
and the test for alignment as they are written, on the bits of an `fs_t` of
`OffsetBits`, where an alignment of 12 does something else than arithmetic does.

### ArchiveReader

The composition. Its variables are those of `ArchiveLayout` and of `Source`;
`archive` is the reading archive, `todo` the reads, skips and alignments its
present item still needs (`Calls`: an `operator|` on a value, or
`process_prefix`). A value of `ArchiveLayout` becomes `align_stream` and a
read, a quantity a `read_basic` for each word, an object's prefix becomes a read of the flags, then of the garbage or
name length, then a skip. Each read and skip is `fetch` or `advance` of
`Source`, executed in its own rounds (`SourceStep`) between the reader's
steps. The sink may lose the last bytes (`Losses`): `sink_ostream` does not
look at its stream, and `archive_sink` counts on.

A reader whose cursor is elsewhere than it should be (`Missed`) reads other
bytes from there on, and is not followed: `Astray`. Asserts are compiled in.

`ReaderAssumption` asks that windows begin and end at multiples of eight, as
pages do: with another cache size of `source_istream` a primitive may cross
from one window into the next, and the memory of the cache is not aligned like
the stream, which the assert of `read_basic` reports. Writes are aligned as
primitives are, so their alignments divide eight. An `fs_t`, on whose bits the
stream is aligned, is at least as wide as a `size_t`, which counts what is in a
window. A file that is opened (`Suits`) has a length that is a number of
`size_t`; one that is mapped whole is no longer than a page or ends with one, so
that its source does not end as `Spent` above.

### ObjectStream

The stream is a list of prefixes and bodies. `prog` fixes how the program
writes and reads the class (see `ProgramType`). Memory blocks are free, raw or
live; `Allocated`, `Built`, `Destroyed`, `Freed` and `Used` record a fault
when they are applied to a block in another state than they need. `Prepare` is
`prepare_area` (or the first half of `construct`), `Load` the second half of
the statement, `LoadThrows` an exception out of the class's own code.
`alloc_construct_if_null` allocates memory and calls a default constructor in it:
`ConstructorThrows` is the exception out of that constructor, after which no
pointer has the memory (`serialize.hpp:362-363`).

### Containers

A type is a tree of classes and containers, a value a tree of the same shape.
`Body` and `ByValue` are the writer, complete in one step; the reader is a
stack of calls (`frames`), one for each `operator|` in progress, with what its
variable holds so far. `how` distinguishes where a call reads to: into its
holder, so that an exception leaves there what has been read, or into a local
variable or constructor arguments, so that it does not, or behind the raw
pointer of `serialize_load` of `unique_ptr`, so that it is lost. `Throw` can
happen in any member of any class and at the resize of a vector or a string;
`Unwind` passes one call at a time. A string is read in three steps, its size
(`ReadStringSize`), `resize` (`ResizeString`) and its characters (`ReadString`);
`ThrowInString` stops after some of the characters, the rest staying as `resize`
left them. A number is read whole or not at all. Default constructors do not throw
here, neither of elements nor behind the raw pointer of a `unique_ptr`, where
memory would be lost as in `ObjectStream`. Base classes are written like members
(`s_serializable` of `base_t`), so they are members here. Keys are numbers.

### PointerTable

The two maps of the writing archive and of the reading one. A pointer is
registered, with or without being written, and its id is sent; the reader
looks an id up, and restores it for a fresh object where it is new. These are
the calls that the grammar in the repository's README provides for
(`PTR-ID?`); no code of this commit makes them. A table that is both restored
into and registered in is outside the model: `reg_ptr` takes the size of a map
plus one for an id, which may then be taken (`archive.hpp:256`).

### VarUInt

`EncodeWord` is one round of `euleb_impl`, `DecodeWord` one call of
`duleb_impl`. The accumulator, `size_t u` in `s_vu`, is not initialized
(`serialize.hpp:496`): `Starts` is what its memory may hold, `Get` takes any of it
for each number, and `found` records, for the property only, what it was.

### Blit

`blit` of an object calls `serialize` of its class, which blits its members,
which follow their pointers; writing recurses along the pointers again. `todo`
is that call stack, the innermost call first, and an action is what one call
does before it makes the next. `infos`, `objects` and `parents` are
`class_infos_`, `objects_` and `type_parents_`; `buffer`, `placed` and `refs`
the buffer, `file_offsets` and `ptr_refs` of `write_state`. `Parts` stands for
the `serialize` of a class and for what `blit_impl` of a pointer does inside
its area. A byte of the block is represented by the address it was copied
from, so a swap shows as an exchange of addresses. `slots` is what
`set_offsets`, and after loading `fixup_pointers`, store in the pointers.
A program is its memory: `heap` has every value in it with its type, the parts
of classes and arrays included, and `memory` what the pointers among them hold;
`ProgramAssumption` says that the two agree, and that numbers and pointers do not
overlap. `AlignOn` is `align_on` on the bits of a `size_t` of `SizeBits`, with its
wrap at an empty buffer; `Fits` is the bound on the block: `size_t` can count it.
`ObjectAlign` is the alignment that `get_class_info` gives every class, 4, whatever
its own is. Target and machine have pointers of the same size. The header and the
section offsets of the file are left out, and so are pointers with count zero,
for which the code registers an object each time it meets the address.

## What the runs show

Passing runs:

| Run | Question | Bounds |
|---|---|---|
| `source_whole` | Does a source with the whole stream in its window implement `ByteStream`, with fairness, when any system call may fail? | files of 0 to 8 bytes, page of 4, requests of 0 to 9 |
| `source_chunk` | What holds when a window is moved along a longer stream, and any system call may fail? | istream caches of 1 to 4 bytes over files of 0 to 9, mappings of one and two pages, and of the whole file, over files of 3 to 12 |
| `layout` | Do reader and writer stay in step? | three writes, of sizes 1 to 8, strings, `char[64]`, quantities of one and two words, objects with long and short names; 7 setups, with every reader |
| `reader` | Do archives over windows of a source read what was written, all or in part? | three writes of seven kinds, a `vu<u16>` of two words among them; buffers, istreams and mappings, whole or in windows of 8 and 16 bytes; the last 0, 1 or 5 bytes lost; 4 setups |
| `objects` | Is memory handled soundly, and does the reader get what was written? | 4 objects or nulls, 5 blocks, all programs of `Sound`, loaders and default constructors that throw |
| `blit` | Has a loaded block the shape of the objects in memory? | three nodes that refer to each other in every way, a class with an array of pointers, an array of numbers and an embedded node, one with strings and arrays behind pointers, one with the head of a ring; targets of both byte orders |
| `pointers` | Are shared objects shared again? | three objects, five pointers written, all orders (symmetric in the objects) |
| `containers` | What do containers hold after loads that end and that throw? | 13 types, three loads of up to three values each, exceptions anywhere |
| `varuint` | Do numbers survive? | all 6-bit numbers in 3-bit words, two in a stream; an accumulator that holds no bit, all of them, or every other one |

Why these bounds are enough: every page-related decision in the code compares
positions inside one page and in neighbouring pages, so files of up to three
pages, with requests of more than two, meet each case: inside a page, ending
on its end, crossing one and crossing two. Alignment is periodic in 64, and
two writes before a third reach every residue the sizes allow. Loading depends
only on the current null flag and on what the pointer held, so the fourth
object repeats a situation. Three nodes give chains, shared nodes, and cycles
of length one to three; `MaxDepth` is above every call stack the programs of
`blit` need: if it were not, `BlitEnds` would fail. The items of `reader` end
inside a window, on its end and behind it, with a window to come or none. What
a load onto a variable does depends on the present value and the new one, so a
load after a whole one, and after a torn one, are all there are. Three-bit words and a
six-bit `size_t` stand to each other as `u32` to a 64-bit one.

Runs that end in a violation, each a disagreement between the code and what
the repository says of it:

- `source_dest` (`FetchInOrder`): `fetch` never moves `dest` on
  (`stream.cpp:38`), so a fetch across a block copies both parts to the start
  of the buffer.
- `objects_destroy` (`ObjectsSound`): null read over a plain pointer to an
  object of a class with `load_construct` destroys it twice
  (`serialize.hpp:349`, then `387`).
- `varuint_buffer` (`BufferFits`): `euleb_count` counts all bits of a word,
  `euleb` uses one less (`util.hpp:127`).

Restrictions in passing runs follow from these and from what is listed below.
`source_whole` has no file that is mapped whole and ends inside a later page
(`WholeUsed`): at the end of such a file a source is no stream. In `source_chunk`
users skip inside the window (`SkipWithin = "avail"`), so `CallsReturn` says
nothing there of longer skips, which only `reader` makes
(`SkipWithin = "unchecked"`). `BlockFetchInOrder` is about fetches inside a block.
`Sound` leaves out the program of `Zb` in the tests
(`src/tests/serialize.tests.cpp:619-632`), whose deallocator destroys an object
the library has destroyed before: it goes wrong as that of `objects_destroy` does.
`ReaderInStep` exempts an object behind data that ends off a multiple of four; the
tests come near it with `map<string, X>`
(`src/tests/serialize.tests.cpp:1242-1252`), where objects follow strings.
`ReadsWhatWasWritten` exempts the two programs of `Carried`: a placed object
that is serialized and null (the area is not null, so a body is read that was
never written, `serialize.hpp:341`), and values without a version read by a
pure construct (which always reads a prefix, `serialize.hpp:421`). The last is
also what `ReadsBack` exempts in `containers`: a vector or map of such values
gets lost. In `reader`, `OnlyPrefixesLeadAstray` says exactly which skips go
wrong, `RefusedForACause` which complete streams an assert refuses, and
`ItemsEnd` exempts a skip that has gone too far (`Overshot`).

In `blit`, three exemptions are written into the properties: `CopiedOnce` does
not speak of programs with a pointer into the middle of an object, or whose root
lies in the middle of one (`has_registered`, `blit.hpp:674`, finds only objects that begin at or behind
an address, so such an object is copied once more and sharing is lost, though
the comment above it says it may be passed such a pointer);
`NumbersCopied` not of arrays of even length inside a class (swapped as a whole
once per element, `blit.hpp:1051`, hence not at all); `PointersFollowed` not of
pointers behind a null one in an array (`blit.hpp:1225` leaves the loop).

Met while modelling, and covered by no run of their own:

- `advance` adds the distance again after the window has moved
  (`stream.cpp:19`), so a skip that leaves the window goes twice as far, or
  further, and does not return if it passes the end of the stream
  (`stream.cpp:17`). In
  `reader` this is why names and garbage lead astray. The prefix format relies on
  exact skips (`pulmotor_types.hpp:41`).
- A C array is aligned to the size of the whole array (`serialize.hpp:559`);
  for `u32[3]` the padding loop of the writer does not end (`WriterFinishes`
  fails with a value of alignment 12 among `Ops`).
- The writer aligns before the flags of an object (`archive.hpp:143`), the
  reader does not (`archive.hpp:219-220`), so a string whose length is no
  multiple of four puts the reader of a following object out of step.
  `ReaderInStep` says that this is the only way to fall out of step; without
  its third conjunct's exemption the run fails.
- Blit: a pointer that lies in a larger class and holds its own address, as the
  head of an empty ring does, refers into its own area: `begin_area` makes no object of what
  it refers to (`blit.hpp:732`), `has_registered` does not find it, and gathering
  follows the pointer again without end (`blit.hpp:1435`). The `blit` run has such
  a program; `BlitEnds` exempts it (`EmptyRing`), and fails without the exemption.
- Blit: a pointer with count zero completes its class before any member has been
  seen (`blit.hpp:752-757`); a pointer to several objects is not followed if the
  first is registered as a single one (`blit.hpp:1435`); of an array of arrays
  in a class only the first elements are processed (`blit.hpp:1409` records the
  outer extent); `set_offsets` switches on a size in bytes where `target_traits`
  documents bits (`blit.cpp:23`, `pulmotor_types.hpp:65`).
- `construct` writes the version of its wrapper type, not of the class
  (`serialize.hpp:439`), so a loader is handed version 0. The runs use classes
  of version 0 or none with it; adding another to `Constructed` violates
  `ReadsWhatWasWritten`.
- `size_t u` in `s_vu` is not initialized and `duleb` ors into it
  (`serialize.hpp:496`), so a number arrives with whatever bits were there.
  `RoundTrip` says exactly that, and that a number comes back as it was written
  if there were none.
- `s_vu` writes and reads its words without `align_stream`
  (`serialize.hpp:492-508`), and `read_basic` asserts that they are aligned
  (`archive.hpp:290`, `324`): a quantity behind a string of odd length stops a
  build with asserts. It is one of the three causes of `RefusedForACause`.
- A default constructor that throws in `alloc_construct_if_null` loses the memory
  just allocated (`serialize.hpp:362-363`). `NothingLeaked` says that nothing else
  is lost.
- Blit: every class has the alignment 4 (`blit.hpp:664`), so an object whose type
  needs more may be misplaced. `CopiesAligned` is about what `align_on` does with
  the 4.
- `archive_whole::advance` asserts `offset + s <= avail()`
  (`archive.hpp:283`): an absolute offset against what is left. The layout run
  lets such a reader stop. `char[64]` at an odd offset needs more than the 32
  bytes of padding that `align_stream` asserts (`archive.hpp:83`).
- A file mapped whole (`mmap_block_size` 0) that ends inside its second or a
  later page: when the cursor reaches the end, the window is rebuilt with a
  block of 0, `avail()` wraps (`stream.cpp:158-162`), and the next `fetch` faults
  (`stream.cpp:30`, `38`). The tests expect `avail() == 0` and a `fetch` that
  returns 0 there (`src/tests/stream.tests.cpp:44`, `48-49`), of a file whose
  length is a multiple of the page. Such files are in `source_chunk`; `NoFault`,
  `AvailIsInStream` and `CallsReturn` name them (`Spent`), and fail without that.
- A block longer than the file (`stream.cpp:112-116`): `m_blsize` counts bytes
  the file does not have, and a fetch of a page behind its end faults. Such
  files are in `source_chunk`; `NoFault`, `AvailIsInStream` and
  `BlockFetchInOrder` name them (`Overlong`).
- A failed `mmap` in `make_available` leaves `MAP_FAILED` in `m_mmap`; the
  destructor then trips over its assert (`stream.cpp:81`).

## Fairness

`FairSpec` of `Source` and of `ArchiveLayout` adds weak fairness on `Step`,
the continuation of a call that has been made: the call runs on the caller's
thread and nothing in the code can suspend it. No fairness is put on the
user's decision to make a call, to map, to write or to stop. `ByteStream`
asks the same of `Answer`. `CallsReturn` and `WriterFinishes` are liveness
properties of these modules; `ObjectStream` and `VarUInt` need none.

`FairSpec` of `ArchiveReader` has weak fairness on `Reading`, the steps of the
archive and of its source: once a program reads an item it does so on its own
thread, to the end of the call. Nothing forces it to write or to open a file.

`FairSpec` of `Blit` has weak fairness on `Next`: once called, blitting,
writing and loading are plain function calls, and `BlitEnds` says they return.

Deadlock checking is off where a program may stop: after a failed assert, a
failed call or a fault, when a stream has been read, when a block is loaded, or
when a loader has thrown. `source_whole` checks for deadlock.

## What is proved

`SourceProofs`, for every set of sources, arguments, request sizes, page size
and failures that `SourceAssumption` admits:

- `SourceTypeCorrect`: `Spec => []TypeOK`;
- `SourceFetchAccounting`: `Spec => []FetchAccounting`;
- `SourceNothingLeaked`: `Spec => []NothingLeaked`.

They follow from `SourceInvariant`, the inductive invariant `SourceInv`. The
properties alone are not inductive: that `make_available` keeps the offset
needs the window's bounds below `Width` and the base of a mapping at a page,
and that nothing leaks needs to know, for each state of `m_fd` and `m_data`,
what `m_blsize` may be: a destructor that reaches `munmap` must do so with the
length that was mapped, and a source without a descriptor has no mapping. The
proof has one lemma per operation and joins them in the theorem. It rests on
`Width % PageSize = 0` (both are powers of two) and on the constants being in
range.

Its second part says what bytes a source delivers. For the sources that
`WellUsed` describes:

- `SourceNoFault`: `Spec => []NoFault`;
- `SourceAvailIsInStream`: `Spec => []AvailIsInStream`;
- `SourceShortOnlyAtEnd`: `Spec => []ShortOnlyAtEnd`;
- `SourceBlockFetchInOrder`: `Spec => []BlockFetchInOrder`.

The invariant is `ContentInv`, proved inductive by `ContentInvariant`. To
`SourceInv` it adds where the window lies (`StreamInv`: in which blocks of the
file it begins and ends, for each class of source), where the cursor is in a
call (`CursorInv`: in front of the copy there is something to copy, behind it
the window is used up or the call is done), and what has been delivered
(`DeliveryInv`: byte `i` of the destination is byte `start + i` of the stream as
far as the call has come, if one window holds all the call asks for). A fetch's rounds hang
together only through all three: a refill moves the window without moving the
offset, which needs to know that the window was used up, which a copy
establishes only because it never stops in the middle of a window without having
delivered what was asked.

`WellUsed` has a part for each thing that the code leaves to its user: skips
stay inside the window (`advance` adds the distance twice otherwise); a map
starts at a multiple of its block (otherwise the windows after the first are not
the blocks that `BlockFetchInOrder` speaks of); a map of a whole file starts with
the file; and the end of the first window is no more than a `size_t` holds.
TLC evaluates it on the objects and maps of both passing source runs
(`MCSource`). Files may have any length: blocks longer than the file stay inside
the theorems, as `Overlong`, and so do files mapped whole that end inside a later
page, as `Spent`.

The third part of `SourceProofs` is the refinement: `WholeImplementsByteStream`, which
says that a source with the whole stream in its window (`WholeUsed`, which also
asks that a mapped file is no longer than a page or ends with one) implements
the safety part of `ByteStream`: `Spec => Abstract!SafeSpec`. Each operation of
the user is an `Attach`, `Request` or nothing, each round of a call an `Answer`
when it is the last one and a stutter when it is not. `WholeInv` adds to
`ContentInv` that such a source neither faults nor aborts and that the cursor,
while a call runs, is as far from the call's start as the bytes it has copied.
The fairness of the refinement (that `Answer` happens) is left to TLC
(`source_whole`). `WholeFetchInOrder` follows: the property that `source_dest`
shows to be false of sources with several windows holds of every source with
one.

`ArchiveLayoutProofs`, for every set of writes, flags, readers and alignments
that `LayoutAssumption` admits, and streams of any length up to `MaxOffset`:

- `LayoutTypeCorrect`: `Spec => []TypeOK`;
- `LayoutReaderInStep`: `Spec => []ReaderInStep`;
- `LayoutFirstMultiple`: `Spec => []FirstMultiple`.

The invariant `LayoutInv` says that items lie end to end, that an item's head
is where a reader standing at its start aligns to, and that during padding the
writer's offset still leads to that same place. The last part is needed
because the writer pads in rounds of 32 bytes and the reader jumps. For
`FirstMultiple` the invariant `PlacesInv` adds, of each item, that its head is
aligned and that whatever was aligned, to that head or to the object's data, lay
within `MaxOffset`: the operators work on `OffsetBits` bits, and beyond those
they would say nothing.

That what the code does to bits is arithmetic (`DisjointFromMask`: an offset
without bits in `align - 1` is a multiple of it; `OrMask`: `(o - 1 | align - 1) + 1`
is the next one) is proved for powers of two of any width, in `BinaryProofs`.
`LayoutAssumption` still assumes two things of an alignment that is no
power of two, such as the 12 of `u32[3]`, where the code does not compute the
next multiple: aligning never goes back, and a round of padding does not change
where it leads. No such alignment is in the passing runs (the code does not
terminate on 12, see above).

`PointerTableProofs`, for every set of objects and copies and any number of
pointers:

- `PointerTablesSound`: `Spec => []TablesSound`;
- `PointerSharing`: `Spec => []SameSharing`.

`TablesSound` alone is not inductive, and says nothing of what was sent and
received: the invariant adds that every pointer sent has the id the writer's
table gives its object, and that every pointer read is what the reader's table
gives that id. Then equal objects, equal ids and equal copies are the same
thing, through two one-to-one tables. That a new id is new rests on the ids
being `1 .. n`, a fact about cardinalities.

`ObjectStreamProofs`, for every set of classes and ways to load them, any
number of objects, and any memory. For programs whose deallocators fit
(`Fitting`):

- `ObjectTypeCorrect`: `Spec => []TypeOK`;
- `ObjectsStaySound`: `Spec => []ObjectsSound`;
- `ObjectPointerSound`: `Spec => []PointerSound`;
- `ObjectNothingLeaked`: `Spec => []NothingLeaked`.

The invariant `ObjectInv` adds `PointerHolds`: what the pointer points to
before, between and after the two halves of a statement (`prepare_area` turns a
live object of a class that wants construction into raw memory, and leaves the
objects of others alone), for each way of reading; and that the memory a throwing
constructor leaves is the one block that is not free. Bodies are numbered from one,
so no object is taken for null, and nothing has been read while the stream is
written. `Fitting` says that the deallocator of `alloc` finds raw memory if the
class wants construction and a live object if it does not, and that of
`construct` a live object. It is necessary: `objects_destroy` runs a program
that does not fit. All programs of the `objects` run fit.

And for programs whose loaders expect the version that is written
(`VersionFits`), whatever their deallocators do:

- `ObjectsReadAsWritten`: `Spec => []ReadsWhatWasWritten`.

The invariant `ReadInv` relates the stream to the objects that went into it: it
can be cut into pieces (`Divides`), one for each object, each of which is what
the program writes for that object (`Stands`: a prefix outside, a prefix inside,
a body, each where the program calls for it), and the reader always stands at
a cut, or behind the prefixes of the piece it is in, with what it has read so
far agreeing with that piece (`Follows`). The cut is not a variable of the model
but bound by an existential: the code keeps no index of where objects begin, and the proof
shows that the reader needs none. The programs of `Carried` are exempt in the
property itself, for the reasons above. `VersionFits` is necessary, since
`construct` writes the version of its wrapper (`serialize.hpp:439`).

`ArchiveReaderProofs`, for the composition: for every set of writes and files,
windows of any size `ReaderAssumption` admits, `archive_chunked` and
`archive_whole`, streams of any length up to `MaxOffset`, and any loss at their
end:

- `ReaderValuesDelivered`: `Spec /\ []NoWrap => []ValuesDelivered`;
- `ReaderOnlyPrefixesLeadAstray`: `Spec /\ []NoWrap => []OnlyPrefixesLeadAstray`;
- `ReaderLossNoticed`: `Spec /\ []NoWrap => []LossNoticed`;
- `ReaderRefusedForACause`: `Spec /\ []NoWrap => []RefusedForACause`;
- `ReaderImplementsLayout`: `Spec /\ []NoWrap => ImplementsLayout`.

The last one says that what the reader and its source do, round by round, is
what `ArchiveLayout` says of a reader that answers in one step: each item that is
completed is one `ReadValue` or `ReadObject`, and all else is a stutter. The
invariant `ReaderInv` (`ReaderInvariant`) is put together from the invariants of
the parts, by `INSTANCE`: `LP!LayoutInv` for the layout, `SP!ContentInv` for the
source, with the lengths of `Suits` in `Fits`, so that no source is `Adrift`. What
it adds ties them: which reads, skips and alignments an item still
needs at each point of it and where in the item the cursor is then (`ReadingInv`,
`Todo`, `Place`), what the last read has put into `dest` (`DestInv`), what the
constructors leave (`Opened`), and what has become of a skip that left its
window (`Left`, `Gone`), the only way in which the source stops keeping
`ContentInv` with the cursor where the layout has it. The argument on the way is
one about alignment:
padding before a primitive never leaves a window, a primitive lies in one
window, and memory is aligned like the stream (`CursorAligned`), all because
windows begin and end where primitives may; so neither the padding nor the
asserts on pointers can fail, and only the skip over a name or over garbage can
go wrong.

`NoWrap` says that a skip in progress has not come so far that its next round
would go beyond the largest `size_t`. The asserts keep calls within the stream,
so this concerns only a skip that has left its window, passed the end of the
stream and does not return: with 64 bits it would have to go on for some 2^60
rounds. Once round, it
is in windows that begin anywhere and may even end where it was asked to, and the
argument does not apply to it. Up to such a round the theorems say that the
properties hold (`Spec` has no fairness, so every beginning of a behaviour is one
itself). TLC checks the properties in `reader` without the hypothesis: with
`Width` 256 skips do go round there, and they hold even so.

`VarUIntProofs`, for words of any width from two bits, any wider type of quantity
and any `size_t` that holds it, and every list of numbers:

- `VarUIntTypeCorrect`: `Spec => []TypeOK`;
- `VarUIntShiftDefined`: `Spec => []ShiftDefined`;
- `VarUIntCompact`: `Spec => []Compact`;
- `VarUIntRoundTrip`: `Spec => []RoundTrip`.

The invariant `VarUIntInv` says, of the encoder, which word of the number it is at
and that those before it are the right ones; and of the stream, that it can be cut
into pieces, one for each number. The cut is bound by an existential, as in
`ReadInv`: the stream holds no lengths, only a bit in each word. A decoder that has
read `k` words of a piece holds what it found in its accumulator (`found`) or-ed
with the number modulo `2^(k * VBits)`: by `OrAssociates` the or that adds a word
can be taken of the words alone, where it is a sum, since the word is shifted above
those before it (`OrAdds`), and no bit leaves the `size_t`, since the words were cut
from a number it holds. That is also why no shift is undefined, and why the end of a
piece is found: the encoder stopped where nothing was left. Nothing is assumed of
the accumulator, which the code leaves uninitialized (`serialize.hpp:496`).

`BlitProofs`, for every set of types, every program whose memory is as
`ProgramAssumption` says, targets of both byte orders, and any power of two for the alignment of
`class_info`:

- `BlitTypeCorrect`: `Spec => []TypeOK`;
- `BlitCopiesAligned`: `Spec => []CopiesAligned`;
- `BlitCopiedOnce`: `Spec => []CopiedOnce`;
- `BlitPointersLead`: `Spec => []PointersLead`.

The invariant `BlitInv` has two halves. While objects are gathered (`GatherInv`) the
calls of `todo` correspond to the areas of `parents`: each call is one that the
area at its level makes (`Below`), for a value of memory that is there, and an
area that is ended is the one that was begun. The levels are bound by an
existential, since the code keeps the correspondence in its call stack only. What
it is needed for is `ObjectsInv`, that two objects share memory only if a pointer
leads into one of them. An area becomes an object when it is outside the area around it,
and the proof has to show that what is outside the innermost area has not been
registered: the blit of a pointer asks `has_registered`, and other calls stay
inside. While objects are written (`WriteInv`), each call is about a place in the block
that is a copy of values of a known type (`Copied`), so what `fetch_pointer` reads
there is an address; copies lie apart (`PlacesInv`); pointers are where they were,
and what is swapped is not among them (`BytesInv`). A swap is a permutation of the
bytes, its own inverse (`ReversedTwice`), which is why nothing is in the block twice
after it. That copies are aligned rests on `align_on` computing the next multiple of a
power of two: `AfterMask` of `BinaryProofs` says so of its or, and an empty buffer,
where `addr - 1` is all ones, gives zero. `AlignAssumption` asks for the power of
two, and `Fits`, a guard of `WriteObject`, for a block that a `size_t` can count.

`PointersLead` is one half of `PointersFollowed`: in a block that has been written,
a pointer that has been set leads to the copy of what it referred to, whatever
the references that were made to and from other places. That every pointer that is
not null has been set, and once, needs the members recorded of a class to be
complete, that is, the exemptions of `PointersFollowed`; that half, and `NumbersCopied`, stay
with TLC.

`BinaryProofs` has the lemmas on powers of two and bits that these need, and a few on
places in a sequence, on which the provers are slow when powers are among the facts.
Where they need induction they use the least element of a set of numbers (`Induct`),
since an induction rule over predicates cannot be instantiated here. `Doubling`,
that `2^(i + 1)` is `2 * 2^i` up to the width used, is their only premise on
arithmetic, because the provers know powers of numerals only; TLC evaluates it with
the assumptions of `layout`, `reader`, `blit` and the `varuint` runs.

Only model-checked: the liveness properties (`CallsReturn`, `WriterFinishes`,
`ItemsEnd`, `BlitEnds`) and the fairness in the refinement of `ByteStream`
(liveness and `ENABLED` are outside TLAPS); `Containers`, whose types are
recursive (and its operators `RECURSIVE`); and of `Blit` the two properties that
say that nothing has been left out, `PointersFollowed` and `NumbersCopied`.

## Plan

Done: `Source` with its abstract specification, because every reader stands on
it; `ArchiveLayout`; `ObjectStream`; `VarUInt`; `Blit`; `PointerTable`; the
composition `ArchiveReader`; `Containers`; proofs about `Source` (its resources,
its bytes, and the refinement of `ByteStream`), `ArchiveLayout`, `PointerTable`,
`ObjectStream` (its memory, and what it reads), `ArchiveReader` (its safety,
and the refinement of `ArchiveLayout`), `VarUInt`, and `Blit` (what it gathers and
copies, and where its pointers lead).

Left, in this order:

1. For `Blit`: that every pointer has been set, from the completeness of the
   members recorded of a class; the header and sections of the file.
2. For `Containers`: a formulation without recursive operators that theorems could
   be stated about.

## Not modelled

`hexdump`, demangling and `romu3` format text or make test data. The detection
of member functions at compile time decides which class a program has, and
appears as the choice of program or type. `archive_json` and `archive_std`
include files that are not in the repository, as does the part of `archive.hpp`
under `#if 0`. `file_size` asks the file system and keeps no state, and
no code uses the file `header` of `stream.hpp`. `blit_holder` owns a buffer and no more.
