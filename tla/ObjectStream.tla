---------------------------- MODULE ObjectStream ----------------------------
(***************************************************************************)
(* How pulmotor writes objects of a class, and loads them again (logic in  *)
(* serialize.hpp): by value, through a pointer whose memory the library    *)
(* allocates (T*, alloc), in place (place), or through a function that     *)
(* makes the object (construct, and construct without a pointer, "pure").  *)
(* The stream is a sequence of prefixes (version and null flag) and bodies *)
(* (what serialize, save_construct and load_construct handle).  Loading    *)
(* works on the objects that are there: memory is allocated, raw or holds  *)
(* a live object, and destructors, deallocators and constructors run on it.*)
(*                                                                         *)
(* A definition marked "Slip" is not part of the model: it is a mistake    *)
(* that could be made in the definition after it, kept to test that the    *)
(* properties notice it.                                                   *)
(***************************************************************************)
EXTENDS Integers, Sequences

CONSTANTS
  Programs,   \* how a program stores a class: [wants, version, write, read,
              \* dealloc, nulls], see ProgramType
  Blocks,     \* pieces of memory
  MaxOps      \* how many objects the stream holds

NoVersion == -1   \* pulmotor::no_version
Null == 0

\* A class wants_construct or is serialized into an existing object; it has a
\* version or none.  dealloc says what the deallocator given to alloc or
\* construct does: delete the object, free its memory, destroy it in place, or
\* nothing (none was given).  nulls: null pointers are written.
ProgramType ==
  [wants : BOOLEAN, version : {NoVersion} \cup Nat,
   write : {"value", "pointer", "construct"},
   read  : {"value", "pointer", "place", "construct", "pure"},
   dealloc : {"delete", "free", "destroy", "none"}, nulls : BOOLEAN]

\* What compiles: a class that wants construction is not read by value, another
\* one has no load_construct; a value and a pure construct are not null.
ASSUME ObjectAssumption ==
  /\ Programs \subseteq ProgramType /\ MaxOps \in Nat
  /\ Blocks \subseteq Nat \ {Null} /\ 1 \in Blocks
  /\ \A p \in Programs :
       /\ p.read = "value" => ~p.wants
       /\ "construct" \in {p.read, p.write} \/ p.read = "pure" => p.wants
       /\ p.write = "value" <=> p.read \in {"value", "pure"}
       /\ p.write = "value" => ~p.nulls

VARIABLES
  prog,     \* the program
  stream,   \* what was written, as tokens
  sent,     \* for each object written: TRUE, or FALSE for a null pointer
  pos,      \* tokens read
  meta,     \* the object_meta the statement being read has got
  ptr,      \* the reader's pointer, or the area of place()
  heap,     \* [mem : what each block holds, faults : what was done to it]
  pc,
  got       \* for each object read: which one, and the version the loader saw

vars == <<prog, stream, sent, pos, meta, ptr, heap, pc, got>>

Versioned == prog.version # NoVersion
\* Slip: no_version is taken for a version.
MetaUnchecked == prog.version
\* The version bits of get_meta.
Meta == IF Versioned THEN prog.version ELSE 0

-----------------------------------------------------------------------------
(* Writing.                                                                *)

Prefix(null, ver) == [t |-> "prefix", null |-> null, ver |-> ver]
Body(i) == [t |-> "body", obj |-> i]

\* A class by value: its version is left out if it has none.
ByValue(i) == (IF Versioned THEN <<Prefix(FALSE, Meta)>> ELSE <<>>) \o <<Body(i)>>

\* Through a pointer the prefix is always written.
ByPointer(i, obj) ==
  <<Prefix(~obj, Meta)>> \o CASE ~obj -> <<>>
                              [] obj /\ prog.wants -> <<Body(i)>>
                              [] obj /\ ~prog.wants -> ByValue(i)

\* construct: the version is that of the wrapper, not of the class.
ByConstruct(i, obj) == <<Prefix(~obj, 0)>> \o IF obj THEN <<Body(i)>> ELSE <<>>

Write(obj) ==
  LET i == Len(sent) + 1 IN
  /\ pc = "write" /\ Len(sent) < MaxOps
  /\ prog.nulls \/ obj
  /\ stream' = stream \o CASE prog.write = "value" -> ByValue(i)
                           [] prog.write = "pointer" -> ByPointer(i, obj)
                           [] prog.write = "construct" -> ByConstruct(i, obj)
  /\ sent' = Append(sent, obj)
  /\ UNCHANGED <<prog, pos, meta, ptr, heap, pc, got>>

Close ==
  /\ pc = "write" /\ pc' = "prefix"
  /\ UNCHANGED <<prog, stream, sent, pos, meta, ptr, heap, got>>

-----------------------------------------------------------------------------
(* Memory.                                                                 *)

Held(h, b, state, ok, fault) ==
  [mem |-> [h.mem EXCEPT ![b] = state],
   faults |-> IF h.mem[b] = ok THEN h.faults ELSE h.faults \cup {fault}]
Allocated(h, b) == Held(h, b, "raw", "free", "allocated twice")
Built(h, b)     == Held(h, b, "live", "raw", "built over an object")
Destroyed(h, b) == Held(h, b, "raw", "live", "destroyed twice")
Freed(h, b)     == Held(h, b, "free", "raw", "freed with an object in it")
Used(h, b)      == Held(h, b, h.mem[b], "live", "used dead")
Released(h, b) ==
  CASE prog.dealloc = "delete"  -> Freed(Destroyed(h, b), b)
    [] prog.dealloc = "free"    -> Freed(h, b)
    [] prog.dealloc = "destroy" -> Destroyed(h, b)
    [] prog.dealloc = "none"    -> h

FreeBlocks == {b \in Blocks : heap.mem[b] = "free"}

-----------------------------------------------------------------------------
(* Loading one object.                                                     *)

At(i, t) == i \in DOMAIN stream /\ stream[i].t = t

\* s_version and process_prefix: by value, only a class with a version has one.
HasPrefix == prog.read # "value" \/ Versioned

Lost == pc' = "lost" /\ UNCHANGED <<prog, stream, sent, pos, meta, ptr, heap, got>>

AreaReady == prog.read = "place" /\ prog.wants => heap.mem[ptr] = "raw"

ReadPrefix ==
  /\ pc = "prefix" /\ Len(got) < Len(sent) /\ AreaReady
  /\ \/ /\ ~HasPrefix
        /\ meta' = Prefix(FALSE, Meta)
        /\ pc' = "prepare" /\ UNCHANGED pos
     \/ /\ HasPrefix /\ At(pos + 1, "prefix")
        /\ meta' = stream[pos + 1]
        /\ pc' = "prepare" /\ pos' = pos + 1
  /\ UNCHANGED <<prog, stream, sent, ptr, heap, got>>

ReadPrefixLost ==
  /\ pc = "prefix" /\ Len(got) < Len(sent) /\ AreaReady
  /\ HasPrefix /\ ~At(pos + 1, "prefix")
  /\ Lost

\* prepare_area for a class that wants construction.
DestructOrAlloc ==
  \/ /\ ptr # Null /\ ~meta.null
     /\ heap' = Destroyed(heap, ptr) /\ UNCHANGED ptr
  \/ /\ ptr # Null /\ meta.null
     /\ heap' = Released(Destroyed(heap, ptr), ptr) /\ ptr' = Null
  \/ /\ ptr = Null /\ ~meta.null
     /\ \E b \in FreeBlocks : heap' = Allocated(heap, b) /\ ptr' = b
  \/ /\ ptr = Null /\ meta.null /\ UNCHANGED <<heap, ptr>>

\* prepare_area for a class that does not.  It allocates, then constructs by
\* default; ConstructorThrows is that second step failing.
AllocConstructIfNull ==
  \/ /\ ptr = Null /\ ~meta.null
     /\ \E b \in FreeBlocks : heap' = Built(Allocated(heap, b), b) /\ ptr' = b
  \/ /\ ptr # Null /\ meta.null
     /\ heap' = Released(heap, ptr) /\ ptr' = Null
  \/ /\ ptr = Null <=> meta.null
     /\ UNCHANGED <<heap, ptr>>

\* Slip: the pointer to a deallocated object is kept.
OldStays == UNCHANGED ptr /\ heap' = IF ptr = Null THEN heap ELSE Released(heap, ptr)
\* Slip: the old object is forgotten without its deallocator.
ForgetOld == ptr' = Null /\ UNCHANGED heap

\* construct gives the old object to its deallocator.
DropOld == ptr' = Null /\ heap' = IF ptr = Null THEN heap ELSE Released(heap, ptr)

\* Slip: every object is prepared the way of a class that is not constructed.
PrepareAlike ==
  /\ pc = "prepare" /\ pc' = "load"
  /\ CASE prog.read = "pointer" -> AllocConstructIfNull
       [] prog.read = "construct" -> DropOld
       [] prog.read \in {"place", "pure", "value"} -> UNCHANGED <<heap, ptr>>
  /\ UNCHANGED <<prog, stream, sent, pos, meta, got>>

Prepare ==
  /\ pc = "prepare" /\ pc' = "load"
  /\ CASE prog.read = "pointer" /\ prog.wants  -> DestructOrAlloc
       [] prog.read = "pointer" /\ ~prog.wants -> AllocConstructIfNull
       [] prog.read = "construct" -> DropOld
       [] prog.read \in {"place", "pure", "value"} -> UNCHANGED <<heap, ptr>>
  /\ UNCHANGED <<prog, stream, sent, pos, meta, got>>

\* The default constructor of a new object throws.  Only a local variable of
\* alloc_construct_if_null has the address of the memory: it is lost.
ConstructorThrows ==
  /\ pc = "prepare" /\ pc' = "thrown"
  /\ prog.read = "pointer" /\ ~prog.wants
  /\ ptr = Null /\ ~meta.null
  /\ \E b \in FreeBlocks : heap' = Allocated(heap, b)
  /\ UNCHANGED <<prog, stream, sent, pos, meta, ptr, got>>

\* Slip: the null flag is not asked.
LoadsAlways == TRUE
\* Whether a body is read: s_pointer asks the null flag for a class that wants
\* construction, the pointer for another; a pure construct asks nothing.
Loads ==
  CASE prog.read \in {"pointer", "place"} /\ prog.wants  -> ~meta.null
    [] prog.read \in {"pointer", "place"} /\ ~prog.wants -> ptr # Null
    [] prog.read = "construct" -> ~meta.null
    [] prog.read \in {"pure", "value"} -> TRUE

\* An object that is not constructed is read by value behind its pointer.
Inner == IF prog.read \in {"pointer", "place"} /\ ~prog.wants /\ Versioned THEN 1 ELSE 0

\* What loading does to the memory.
Stored ==
  CASE prog.read \in {"pointer", "place"} /\ prog.wants ->
         heap' = Built(heap, ptr) /\ UNCHANGED ptr
    [] prog.read \in {"pointer", "place"} /\ ~prog.wants ->
         heap' = Used(heap, ptr) /\ UNCHANGED ptr
    [] prog.read = "construct" ->
         \E b \in FreeBlocks : heap' = Built(Allocated(heap, b), b) /\ ptr' = b
    [] prog.read \in {"pure", "value"} -> UNCHANGED <<heap, ptr>>

Load ==
  LET seen == IF Inner = 1 THEN stream[pos + 1].ver
              ELSE IF prog.wants \/ prog.read = "value" THEN meta.ver ELSE Meta
  IN
  /\ pc = "load" /\ Loads
  /\ Inner = 1 => At(pos + 1, "prefix")
  /\ At(pos + Inner + 1, "body")
  /\ Stored
  /\ got' = Append(got, [obj |-> stream[pos + Inner + 1].obj, ver |-> seen])
  /\ pos' = pos + Inner + 1
  /\ pc' = "prefix"
  /\ UNCHANGED <<prog, stream, sent, meta>>

LoadLost ==
  /\ pc = "load" /\ Loads
  /\ (Inner = 1 /\ ~At(pos + 1, "prefix")) \/ ~At(pos + Inner + 1, "body")
  /\ Lost

LoadNull ==
  /\ pc = "load" /\ ~Loads
  /\ got' = Append(got, [obj |-> Null, ver |-> meta.ver])
  /\ pc' = "prefix"
  /\ UNCHANGED <<prog, stream, sent, pos, meta, ptr, heap>>

\* The class's own code throws while it loads.
LoadThrows ==
  /\ pc = "load" /\ Loads
  /\ pc' = "thrown"
  /\ UNCHANGED <<prog, stream, sent, pos, meta, ptr, heap, got>>

\* With place(), the program ends the life of the object in its area before
\* the next one is constructed there.
Clear ==
  /\ pc = "prefix" /\ ~AreaReady
  /\ heap' = Destroyed(heap, ptr)
  /\ UNCHANGED <<prog, stream, sent, pos, meta, ptr, pc, got>>

-----------------------------------------------------------------------------
\* The reader's pointer is null or owns an object; the area of place() is
\* empty for a class that wants construction.
Init ==
  /\ prog \in Programs
  /\ stream = <<>> /\ sent = <<>> /\ pos = 0 /\ got = <<>>
  /\ meta = Prefix(FALSE, 0) /\ pc = "write"
  /\ ptr \in IF prog.read = "place" THEN {1} ELSE {Null, 1}
  /\ heap = [mem |-> [b \in Blocks |->
                        IF b # ptr THEN "free"
                        ELSE IF prog.read = "place" /\ prog.wants THEN "raw" ELSE "live"],
             faults |-> {}]

Next ==
  \/ \E obj \in BOOLEAN : Write(obj)
  \/ Close
  \/ ReadPrefix \/ ReadPrefixLost
  \/ Prepare \/ ConstructorThrows
  \/ Load \/ LoadLost \/ LoadNull \/ LoadThrows
  \/ Clear

Spec == Init /\ [][Next]_vars

-----------------------------------------------------------------------------
(* Properties.                                                             *)

Token == [t : {"prefix"}, null : BOOLEAN, ver : Nat] \cup [t : {"body"}, obj : Nat]

\* Every variable stays in its type; versions stay in the bits of ver_mask.
TypeOK ==
  /\ prog \in Programs /\ sent \in Seq(BOOLEAN) /\ stream \in Seq(Token)
  /\ pos \in 0 .. Len(stream)
  /\ meta \in [t : {"prefix"}, null : BOOLEAN, ver : Nat]
  /\ ptr \in Blocks \cup {Null}
  /\ heap.mem \in [Blocks -> {"free", "raw", "live"}]
  /\ pc \in {"write", "prefix", "prepare", "load", "lost", "thrown"}
  /\ got \in Seq([obj : Nat, ver : Nat])

\* Over any sequence of loads onto the same pointer, constructors run on raw
\* memory only, destructors and the class's own code on live objects only, and
\* memory is freed when no object lives in it.
ObjectsSound == heap.faults = {}

\* Between loads the pointer is null or points to a live object, and it is
\* null exactly if the object last read was.
PointerSound ==
  pc = "prefix" /\ got # <<>> /\ prog.read \in {"pointer", "construct"} =>
    /\ ptr = Null <=> got[Len(got)].obj = Null
    /\ ptr # Null => heap.mem[ptr] = "live"

\* A default constructor has thrown: the load ended before there was an object.
Unborn == pc = "thrown" /\ prog.read = "pointer" /\ ~prog.wants /\ ptr = Null

\* However loading goes, thrown out of or not, what is allocated is held by
\* the pointer, unless the program gave no way to free it.  The one exception
\* is the memory of an object whose default constructor threw, which the code
\* loses: one raw block, and nothing besides it.
NothingLeaked ==
  prog.dealloc \in {"delete", "free"} =>
    \/ \A b \in Blocks : heap.mem[b] # "free" => b = ptr
    \/ /\ Unborn
       /\ \E lost \in Blocks :
            heap.mem = [b \in Blocks |-> IF b = lost THEN "raw" ELSE "free"]

\* Two ways of loading the format cannot follow: a pure construct always reads
\* a prefix, and a value without a version has none; a placed object that is
\* serialized is read although null was written for it.
Carried == /\ prog.read = "pure" => Versioned
           /\ prog.read = "place" /\ prog.nulls => prog.wants

\* All other programs get the objects that were written, in their order, null
\* where null was written, each with the version of its class, and have read
\* the whole stream when they have read the last one.
ReadsWhatWasWritten ==
  Carried =>
    /\ pc # "lost"
    /\ \A i \in DOMAIN got :
         /\ got[i].obj = IF sent[i] THEN i ELSE Null
         /\ sent[i] => got[i].ver = Meta
    /\ pc = "prefix" /\ Len(got) = Len(sent) => pos = Len(stream)
=============================================================================
