------------------------- MODULE ObjectStreamProofs -------------------------
(***************************************************************************)
(* Theorems about ObjectStream, for any number of objects: what loading    *)
(* does to memory, for every set of programs that use fitting              *)
(* deallocators, and what it yields, for every set of programs.            *)
(***************************************************************************)
EXTENDS ObjectStream, SequenceTheorems, TLAPS

-----------------------------------------------------------------------------
(* The inductive invariant.                                                *)

\* What the deallocator of a program finds: prepare_area destroys an object
\* that wants construction before it calls the deallocator, and no other one
\* (destruct_or_alloc, alloc_construct_if_null); construct hands over a live
\* object.
Fitting(p) ==
  /\ p.read = "pointer" /\ p.wants  => p.dealloc \in {"free", "none"}
  /\ p.read = "pointer" /\ ~p.wants => p.dealloc \in {"delete", "destroy", "none"}
  /\ p.read = "construct"           => p.dealloc \in {"delete", "destroy", "none"}

PrefixToken == [t : {"prefix"}, null : BOOLEAN, ver : Nat]
BodyToken   == [t : {"body"}, obj : Nat \ {0}]

\* Bodies are numbered from one, so that no object read is mistaken for null.
StreamTyped ==
  /\ prog \in Programs /\ sent \in Seq(BOOLEAN)
  /\ stream \in Seq(PrefixToken \cup BodyToken)
  /\ pos \in 0 .. Len(stream)
  /\ meta \in PrefixToken
  /\ pc \in {"write", "prefix", "prepare", "load", "lost", "thrown"}
  /\ got \in Seq([obj : Nat, ver : Nat])

HeapTyped ==
  /\ ptr \in Blocks \cup {Null}
  /\ heap.mem \in [Blocks -> {"free", "raw", "live"}]

\* What the pointer points to in each phase of a load.
PointerHolds ==
  CASE prog.read = "pointer" ->
         /\ pc \in {"write", "prefix", "prepare"} /\ ptr # Null => heap.mem[ptr] = "live"
         /\ pc = "load" => /\ ptr = Null <=> meta.null
                           /\ ptr # Null => heap.mem[ptr] = IF prog.wants THEN "raw" ELSE "live"
    [] prog.read = "construct" ->
         /\ pc \in {"write", "prefix", "prepare"} /\ ptr # Null => heap.mem[ptr] = "live"
         /\ pc = "load" => ptr = Null
    [] prog.read = "place" ->
         /\ ptr # Null
         /\ ~prog.wants => heap.mem[ptr] = "live"
         /\ prog.wants => /\ heap.mem[ptr] # "free"
                          /\ pc \in {"prepare", "load"} => heap.mem[ptr] = "raw"
    [] prog.read \in {"value", "pure"} -> TRUE

\* Nothing is read before all is written.
ReadsAfterWriting == pc = "write" => got = <<>>

HeapInv == HeapTyped /\ PointerHolds /\ ObjectsSound /\ NothingLeaked

ObjectInv == StreamTyped /\ HeapInv /\ ReadsAfterWriting /\ PointerSound

-----------------------------------------------------------------------------
(* Lemmas.                                                                 *)

\* What Init and the constants make of a program.
LEMMA ProgramTyped ==
  ASSUME prog \in Programs
  PROVE  prog \in ProgramType
  BY ObjectAssumption

\* The version that is written is a number.
LEMMA MetaNat == ASSUME prog \in Programs PROVE Meta \in Nat
  BY ProgramTyped DEF Meta, Versioned, NoVersion, ProgramType

\* The elements of a longer sequence.
LEMMA Bigger ==
  ASSUME NEW A, NEW B, A \subseteq B, NEW s \in Seq(A)
  PROVE  s \in Seq(B)
  OBVIOUS

\* Writing appends tokens of the stream.
LEMMA WriteTyped ==
  ASSUME StreamTyped, NEW obj \in BOOLEAN, Write(obj)
  PROVE  StreamTyped'
<1> DEFINE T == PrefixToken \cup BodyToken
           i == Len(sent) + 1
<1>1. i \in Nat \ {0} /\ Meta \in Nat /\ prog \in ProgramType
  BY MetaNat, ProgramTyped DEF StreamTyped
<1>2. /\ \A n \in BOOLEAN, v \in Nat : Prefix(n, v) \in T
      /\ Body(i) \in T
  BY <1>1 DEF Prefix, Body, PrefixToken, BodyToken
<1>3. /\ \A n \in BOOLEAN, v \in Nat : <<Prefix(n, v)>> \in Seq(T)
      /\ <<Body(i)>> \in Seq(T) /\ <<>> \in Seq(T)
  BY <1>2
<1>4. \A a, b \in Seq(T) : a \o b \in Seq(T) /\ Len(a) <= Len(a \o b)
  BY ConcatProperties
<1>5. ByValue(i) \in Seq(T)
  <2>1. (IF Versioned THEN <<Prefix(FALSE, Meta)>> ELSE <<>>) \in Seq(T)
    BY <1>1, <1>3
  <2>2. QED BY <1>3, <1>4, <2>1 DEF ByValue
<1>6. ByPointer(i, obj) \in Seq(T)
  <2>1. (CASE ~obj -> <<>>
           [] obj /\ prog.wants -> <<Body(i)>>
           [] obj /\ ~prog.wants -> ByValue(i)) \in Seq(T)
    BY <1>1, <1>3, <1>5 DEF ProgramType
  <2>2. <<Prefix(~obj, Meta)>> \in Seq(T)
    BY <1>1, <1>3
  <2>3. QED BY <1>4, <2>1, <2>2 DEF ByPointer
<1>7. ByConstruct(i, obj) \in Seq(T)
  <2>1. <<Prefix(~obj, 0)>> \in Seq(T)
    BY <1>3
  <2>2. (IF obj THEN <<Body(i)>> ELSE <<>>) \in Seq(T)
    BY <1>3
  <2>3. QED BY <1>4, <2>1, <2>2 DEF ByConstruct
<1>8. PICK s \in Seq(T) : stream' = stream \o s
  BY <1>1, <1>5, <1>6, <1>7 DEF Write, ProgramType
<1>9. stream' \in Seq(T) /\ Len(stream) <= Len(stream')
  BY <1>4, <1>8 DEF StreamTyped
<1>10. sent' \in Seq(BOOLEAN)
  BY DEF Write, StreamTyped
<1>11. UNCHANGED <<prog, pos, meta, pc, got>>
  BY DEF Write
<1>12. pos \in 0 .. Len(stream')
  BY <1>9 DEF StreamTyped
<1>13. QED BY <1>9, <1>10, <1>11, <1>12 DEF StreamTyped

\* A token that has the tag of a prefix is one, and likewise for bodies.
LEMMA TokenAt ==
  ASSUME StreamTyped, NEW i
  PROVE  /\ At(i, "prefix") => i \in DOMAIN stream /\ stream[i] \in PrefixToken
         /\ At(i, "body") => i \in DOMAIN stream /\ stream[i] \in BodyToken
<1>1. i \in DOMAIN stream => stream[i] \in PrefixToken \cup BodyToken
  BY DEF StreamTyped
<1>2. \A x \in PrefixToken : x.t = "prefix"
  BY DEF PrefixToken
<1>3. \A x \in BodyToken : x.t = "body"
  BY DEF BodyToken
<1>4. QED BY <1>1, <1>2, <1>3 DEF At

\* The steps of reading keep to the types.
LEMMA ReadTyped ==
  ASSUME StreamTyped,
         ReadPrefix \/ Prepare \/ Load \/ LoadNull \/ Clear
  PROVE  StreamTyped'
<1>1. Meta \in Nat /\ pos \in 0 .. Len(stream) /\ Len(stream) \in Nat
      /\ DOMAIN stream = 1 .. Len(stream)
  BY MetaNat DEF StreamTyped
<1>2. CASE ReadPrefix
  <2>1. CASE ~HasPrefix
    <3>1. meta' = Prefix(FALSE, Meta) /\ pos' = pos
      BY <1>2, <2>1 DEF ReadPrefix
    <3>2. meta' \in PrefixToken
      BY <1>1, <3>1 DEF Prefix, PrefixToken
    <3>3. QED BY <1>2, <3>1, <3>2 DEF ReadPrefix, StreamTyped
  <2>2. CASE HasPrefix
    <3>1. At(pos + 1, "prefix") /\ meta' = stream[pos + 1] /\ pos' = pos + 1
      BY <1>2, <2>2 DEF ReadPrefix
    <3>2. meta' \in PrefixToken /\ pos' \in 0 .. Len(stream)
      BY <1>1, <3>1, TokenAt
    <3>3. QED BY <1>2, <3>2 DEF ReadPrefix, StreamTyped
  <2>3. QED BY <2>1, <2>2
<1>3. CASE Prepare
  BY <1>3 DEF Prepare, StreamTyped
<1>4. CASE Load
  <2> DEFINE seen == IF Inner = 1 THEN stream[pos + 1].ver
                     ELSE IF prog.wants \/ prog.read = "value" THEN meta.ver ELSE Meta
  <2>1. /\ Inner = 1 => At(pos + 1, "prefix")
        /\ At(pos + Inner + 1, "body")
        /\ got' = Append(got, [obj |-> stream[pos + Inner + 1].obj, ver |-> seen])
        /\ pos' = pos + Inner + 1
    BY <1>4 DEF Load
  <2>2. Inner \in {0, 1}
    BY DEF Inner
  <2>3. seen \in Nat
    <3>1. Inner = 1 => stream[pos + 1] \in PrefixToken
      BY <2>1, TokenAt
    <3>2. meta.ver \in Nat
      BY DEF StreamTyped, PrefixToken
    <3>3. QED BY <1>1, <3>1, <3>2 DEF PrefixToken
  <2>4. stream[pos + Inner + 1].obj \in Nat /\ pos + Inner + 1 \in 1 .. Len(stream)
    BY <1>1, <2>1, TokenAt DEF BodyToken
  <2>5. got' \in Seq([obj : Nat, ver : Nat])
    BY <2>1, <2>3, <2>4 DEF StreamTyped
  <2>6. QED BY <1>4, <2>1, <2>4, <2>5 DEF Load, StreamTyped
<1>5. CASE LoadNull
  <2>1. meta.ver \in Nat
    BY DEF StreamTyped, PrefixToken
  <2>2. got' \in Seq([obj : Nat, ver : Nat])
    BY <1>5, <2>1 DEF LoadNull, StreamTyped, Null
  <2>3. QED BY <1>5, <2>2 DEF LoadNull, StreamTyped
<1>6. CASE Clear
  BY <1>6 DEF Clear, StreamTyped
<1>7. QED BY <1>2, <1>3, <1>4, <1>5, <1>6

-----------------------------------------------------------------------------
(* The heap.                                                               *)

\* A null pointer is no block.
LEMMA NullIsNoBlock == Null \notin Blocks
  BY ObjectAssumption

\* Preparing the area of a class that wants construction leaves the pointer at
\* raw memory, or null with nothing behind it.
LEMMA DestructOrAllocSound ==
  ASSUME StreamTyped, HeapInv, Fitting(prog), pc = "prepare",
         prog.read = "pointer", prog.wants, DestructOrAlloc
  PROVE  /\ HeapTyped' /\ heap'.faults = {}
         /\ ptr' = Null <=> meta.null
         /\ ptr' # Null => heap'.mem[ptr'] = "raw"
         /\ prog.dealloc \in {"delete", "free"} =>
              \A b \in Blocks : heap'.mem[b] # "free" => b = ptr'
<1>1. /\ heap.mem \in [Blocks -> {"free", "raw", "live"}] /\ ptr \in Blocks \cup {Null}
      /\ heap.faults = {}
      /\ ptr # Null => heap.mem[ptr] = "live"
      /\ prog.dealloc \in {"free", "none"}
      /\ meta.null \in BOOLEAN
      /\ prog.dealloc = "free" => \A b \in Blocks : heap.mem[b] # "free" => b = ptr
  BY DEF HeapInv, HeapTyped, PointerHolds, ObjectsSound, NothingLeaked, Unborn, Fitting,
         StreamTyped, PrefixToken
<1>2. CASE ptr # Null /\ ~meta.null
  <2>1. heap' = Destroyed(heap, ptr) /\ ptr' = ptr
    BY <1>2 DEF DestructOrAlloc
  <2>2. heap'.mem = [heap.mem EXCEPT ![ptr] = "raw"] /\ heap'.faults = {}
    BY <1>1, <1>2, <2>1 DEF Destroyed, Held
  <2>3. QED BY <1>1, <1>2, <2>1, <2>2 DEF HeapTyped
<1>3. CASE ptr # Null /\ meta.null
  <2> DEFINE h == Destroyed(heap, ptr)
  <2>1. heap' = Released(h, ptr) /\ ptr' = Null
    BY <1>3 DEF DestructOrAlloc
  <2>2. h.mem = [heap.mem EXCEPT ![ptr] = "raw"] /\ h.faults = {}
    BY <1>1, <1>3 DEF Destroyed, Held
  <2>3. h.mem[ptr] = "raw"
    BY <1>1, <1>3, <2>2
  <2> HIDE DEF h
  <2>4. CASE prog.dealloc = "free"
    <3>1. heap' = Freed(h, ptr)
      BY <2>1, <2>4 DEF Released
    <3>2. heap'.mem = [h.mem EXCEPT ![ptr] = "free"] /\ heap'.faults = {}
      BY <2>2, <2>3, <3>1 DEF Freed, Held
    <3>3. QED BY <1>1, <1>3, <2>1, <2>2, <2>4, <3>2 DEF HeapTyped
  <2>5. CASE prog.dealloc = "none"
    <3>1. heap' = h
      BY <2>1, <2>5 DEF Released
    <3>2. QED BY <1>1, <1>3, <2>1, <2>2, <2>5, <3>1 DEF HeapTyped
  <2>6. QED BY <1>1, <2>4, <2>5
<1>4. CASE ptr = Null /\ ~meta.null
  <2>1. PICK b \in FreeBlocks : heap' = Allocated(heap, b) /\ ptr' = b
    BY <1>4 DEF DestructOrAlloc
  <2>2. b \in Blocks /\ heap.mem[b] = "free" /\ b # Null
    BY NullIsNoBlock DEF FreeBlocks
  <2>3. heap'.mem = [heap.mem EXCEPT ![b] = "raw"] /\ heap'.faults = {}
    BY <1>1, <2>1, <2>2 DEF Allocated, Held
  <2>4. QED BY <1>1, <1>4, <2>1, <2>2, <2>3, NullIsNoBlock DEF HeapTyped
<1>5. CASE ptr = Null /\ meta.null
  BY <1>1, <1>5 DEF DestructOrAlloc, HeapTyped
<1>6. QED BY <1>1, <1>2, <1>3, <1>4, <1>5

\* Giving a live object to a deallocator that deletes it, destroys it or does
\* nothing is sound, and leaves the block free in the first case.
LEMMA ReleasedLive ==
  ASSUME HeapTyped, heap.faults = {}, ptr # Null, heap.mem[ptr] = "live",
         prog.dealloc \in {"delete", "destroy", "none"}
  PROVE  /\ Released(heap, ptr).faults = {}
         /\ Released(heap, ptr).mem \in [Blocks -> {"free", "raw", "live"}]
         /\ \A b \in Blocks : b # ptr => Released(heap, ptr).mem[b] = heap.mem[b]
         /\ prog.dealloc = "delete" => Released(heap, ptr).mem[ptr] = "free"
<1> DEFINE h == Destroyed(heap, ptr)
<1>1. ptr \in Blocks /\ heap.mem \in [Blocks -> {"free", "raw", "live"}]
  BY DEF HeapTyped
<1>2. h.mem = [heap.mem EXCEPT ![ptr] = "raw"] /\ h.faults = {}
  BY DEF Destroyed, Held
<1>3. h.mem[ptr] = "raw"
  BY <1>1, <1>2
<1>4. CASE prog.dealloc = "delete"
  <2> HIDE DEF h
  <2>1. Released(heap, ptr) = Freed(h, ptr)
    BY <1>4 DEF Released, h
  <2>2. Freed(h, ptr).mem = [h.mem EXCEPT ![ptr] = "free"] /\ Freed(h, ptr).faults = {}
    BY <1>2, <1>3 DEF Freed, Held
  <2>3. QED BY <1>1, <1>2, <2>1, <2>2
<1>5. CASE prog.dealloc = "destroy"
  <2>1. Released(heap, ptr) = h
    BY <1>5 DEF Released
  <2>2. QED BY <1>1, <1>2, <1>5, <2>1
<1>6. CASE prog.dealloc = "none"
  BY <1>1, <1>6 DEF Released
<1>7. QED BY <1>4, <1>5, <1>6

\* Allocating and building in a free block is sound.
LEMMA BuiltNew ==
  ASSUME HeapTyped, heap.faults = {}, NEW b \in FreeBlocks
  PROVE  /\ b \in Blocks /\ b # Null
         /\ Built(Allocated(heap, b), b).faults = {}
         /\ Built(Allocated(heap, b), b).mem = [heap.mem EXCEPT ![b] = "live"]
<1> DEFINE h == Allocated(heap, b)
<1>1. b \in Blocks /\ heap.mem[b] = "free" /\ b # Null
      /\ heap.mem \in [Blocks -> {"free", "raw", "live"}]
  BY NullIsNoBlock DEF FreeBlocks, HeapTyped
<1>2. h.mem = [heap.mem EXCEPT ![b] = "raw"] /\ h.faults = {}
  BY <1>1 DEF Allocated, Held
<1>3. h.mem[b] = "raw"
  BY <1>1, <1>2
<1> HIDE DEF h
<1>4. Built(h, b).mem = [h.mem EXCEPT ![b] = "live"] /\ Built(h, b).faults = {}
  BY <1>2, <1>3 DEF Built, Held
<1>5. QED BY <1>1, <1>2, <1>4 DEF h

\* Preparing the area of a class that is serialized leaves the pointer at a
\* live object, or null.
LEMMA AllocConstructSound ==
  ASSUME StreamTyped, HeapInv, Fitting(prog), pc = "prepare",
         prog.read = "pointer", ~prog.wants, AllocConstructIfNull
  PROVE  /\ HeapTyped' /\ heap'.faults = {}
         /\ ptr' = Null <=> meta.null
         /\ ptr' # Null => heap'.mem[ptr'] = "live"
         /\ prog.dealloc \in {"delete", "free"} =>
              \A b \in Blocks : heap'.mem[b] # "free" => b = ptr'
<1>1. /\ heap.mem \in [Blocks -> {"free", "raw", "live"}] /\ ptr \in Blocks \cup {Null}
      /\ HeapTyped /\ heap.faults = {}
      /\ ptr # Null => heap.mem[ptr] = "live"
      /\ prog.dealloc \in {"delete", "destroy", "none"}
      /\ meta.null \in BOOLEAN
      /\ prog.dealloc = "delete" => \A b \in Blocks : heap.mem[b] # "free" => b = ptr
  BY DEF HeapInv, HeapTyped, PointerHolds, ObjectsSound, NothingLeaked, Unborn, Fitting,
         StreamTyped, PrefixToken
<1>2. CASE ptr = Null /\ ~meta.null
  <2>1. PICK b \in FreeBlocks : heap' = Built(Allocated(heap, b), b) /\ ptr' = b
    BY <1>2 DEF AllocConstructIfNull
  <2>2. b \in Blocks /\ b # Null /\ heap'.faults = {}
        /\ heap'.mem = [heap.mem EXCEPT ![b] = "live"]
    BY <1>1, <2>1, BuiltNew
  <2>3. QED BY <1>1, <1>2, <2>1, <2>2, NullIsNoBlock DEF HeapTyped
<1>3. CASE ptr # Null /\ meta.null
  <2>1. heap' = Released(heap, ptr) /\ ptr' = Null
    BY <1>3 DEF AllocConstructIfNull
  <2>2. QED BY <1>1, <1>3, <2>1, ReleasedLive DEF HeapTyped
<1>4. CASE ptr = Null <=> meta.null
  BY <1>1, <1>4 DEF AllocConstructIfNull, HeapTyped
<1>5. QED BY <1>1, <1>2, <1>3, <1>4

\* prepare_area, or the first half of construct, on whatever the pointer holds.
LEMMA PrepareSound ==
  ASSUME StreamTyped, HeapInv, Fitting(prog), Prepare
  PROVE  HeapInv'
<1>1. /\ pc = "prepare" /\ pc' = "load" /\ prog' = prog /\ meta' = meta
      /\ prog \in ProgramType
  BY ProgramTyped DEF Prepare, StreamTyped
<1>2. CASE prog.read = "pointer" /\ prog.wants
  <2>1. DestructOrAlloc
    BY <1>2 DEF Prepare
  <2>2. QED BY <1>1, <1>2, <2>1, DestructOrAllocSound
            DEF HeapInv, PointerHolds, ObjectsSound, NothingLeaked, Unborn
<1>3. CASE prog.read = "pointer" /\ ~prog.wants
  <2>1. AllocConstructIfNull
    BY <1>3 DEF Prepare
  <2>2. QED BY <1>1, <1>3, <2>1, AllocConstructSound
            DEF HeapInv, PointerHolds, ObjectsSound, NothingLeaked, Unborn
<1>4. CASE prog.read = "construct"
  <2>1. ptr' = Null /\ heap' = IF ptr = Null THEN heap ELSE Released(heap, ptr)
    BY <1>4 DEF Prepare, DropOld
  <2>2. HeapTyped /\ heap.faults = {} /\ (ptr # Null => heap.mem[ptr] = "live")
        /\ prog.dealloc \in {"delete", "destroy", "none"}
        /\ (prog.dealloc = "delete" => \A b \in Blocks : heap.mem[b] # "free" => b = ptr)
    BY <1>1, <1>4 DEF HeapInv, PointerHolds, ObjectsSound, NothingLeaked, Unborn, Fitting
  <2>3. /\ heap'.mem \in [Blocks -> {"free", "raw", "live"}] /\ heap'.faults = {}
        /\ prog.dealloc = "delete" => \A b \in Blocks : heap'.mem[b] = "free"
    <3>1. CASE ptr = Null
      BY <2>1, <2>2, <3>1, NullIsNoBlock DEF HeapTyped
    <3>2. CASE ptr # Null
      BY <2>1, <2>2, <3>2, ReleasedLive DEF HeapTyped
    <3>3. QED BY <3>1, <3>2
  <2>4. QED BY <1>1, <1>4, <2>1, <2>2, <2>3
            DEF HeapInv, HeapTyped, PointerHolds, ObjectsSound, NothingLeaked, Unborn
<1>5. CASE prog.read \in {"place", "pure", "value"}
  <2>1. heap' = heap /\ ptr' = ptr
    BY <1>5 DEF Prepare
  <2>2. QED BY <1>1, <1>5, <2>1
            DEF HeapInv, HeapTyped, PointerHolds, ObjectsSound, NothingLeaked, Unborn
<1>6. QED BY <1>1, <1>2, <1>3, <1>4, <1>5 DEF ProgramType

\* An object whose default constructor throws leaves a raw block behind, the
\* only one: the pointer was null.
LEMMA ThrowSound ==
  ASSUME StreamTyped, HeapInv, ConstructorThrows
  PROVE  HeapInv'
<1>1. /\ pc = "prepare" /\ pc' = "thrown" /\ prog' = prog /\ ptr' = Null /\ ptr = Null
      /\ prog.read = "pointer" /\ ~prog.wants
  BY DEF ConstructorThrows
<1>2. PICK b \in FreeBlocks : heap' = Allocated(heap, b)
  BY DEF ConstructorThrows
<1>3. /\ heap.mem \in [Blocks -> {"free", "raw", "live"}] /\ heap.faults = {}
      /\ b \in Blocks /\ heap.mem[b] = "free"
      /\ prog.dealloc \in {"delete", "free"} => \A c \in Blocks : heap.mem[c] = "free"
  BY <1>1, NullIsNoBlock DEF HeapInv, HeapTyped, ObjectsSound, NothingLeaked, Unborn, FreeBlocks
<1>4. heap'.mem = [heap.mem EXCEPT ![b] = "raw"] /\ heap'.faults = {}
  BY <1>2, <1>3 DEF Allocated, Held
<1>5. HeapTyped' /\ ObjectsSound' /\ PointerHolds'
  BY <1>1, <1>3, <1>4 DEF HeapTyped, ObjectsSound, PointerHolds
<1>6. NothingLeaked'
  <2>. SUFFICES ASSUME prog.dealloc \in {"delete", "free"} PROVE NothingLeaked'
    BY <1>1 DEF NothingLeaked
  <2>1. heap'.mem = [c \in Blocks |-> IF c = b THEN "raw" ELSE "free"]
    BY <1>3, <1>4
  <2>. QED  BY <1>1, <1>3, <2>1 DEF NothingLeaked, Unborn
<1>7. QED BY <1>5, <1>6 DEF HeapInv

\* The second half of a load builds an object on the raw memory the first half
\* left, or uses the live one.
LEMMA LoadSound ==
  ASSUME StreamTyped, HeapInv, Fitting(prog), Load
  PROVE  HeapInv' /\ (prog.read \in {"pointer", "construct"} => ptr' # Null)
<1>1. /\ pc = "load" /\ pc' = "prefix" /\ prog' = prog /\ meta' = meta
      /\ prog \in ProgramType /\ Loads /\ Stored /\ meta.null \in BOOLEAN
  BY ProgramTyped DEF Load, StreamTyped, PrefixToken
<1>2. /\ heap.mem \in [Blocks -> {"free", "raw", "live"}] /\ ptr \in Blocks \cup {Null}
      /\ HeapTyped /\ heap.faults = {}
      /\ prog.dealloc \in {"delete", "free"} => \A b \in Blocks : heap.mem[b] # "free" => b = ptr
  BY <1>1 DEF HeapInv, HeapTyped, ObjectsSound, NothingLeaked, Unborn
<1>3. CASE prog.read \in {"pointer", "place"} /\ prog.wants
  <2>1. heap' = Built(heap, ptr) /\ ptr' = ptr /\ ~meta.null
    BY <1>1, <1>3 DEF Stored, Loads
  <2>2. ptr # Null /\ heap.mem[ptr] = "raw"
    BY <1>1, <1>3, <2>1 DEF HeapInv, PointerHolds
  <2>3. heap'.mem = [heap.mem EXCEPT ![ptr] = "live"] /\ heap'.faults = {}
    BY <1>2, <2>1, <2>2 DEF Built, Held
  <2>4. heap'.mem \in [Blocks -> {"free", "raw", "live"}] /\ heap'.mem[ptr] = "live"
        /\ \A b \in Blocks : b # ptr => heap'.mem[b] = heap.mem[b]
    BY <1>2, <2>2, <2>3
  <2>5. QED BY <1>1, <1>2, <1>3, <2>1, <2>2, <2>3, <2>4
            DEF HeapInv, HeapTyped, PointerHolds, ObjectsSound, NothingLeaked, Unborn
<1>4. CASE prog.read \in {"pointer", "place"} /\ ~prog.wants
  <2>1. heap' = Used(heap, ptr) /\ ptr' = ptr /\ ptr # Null
    BY <1>1, <1>4 DEF Stored, Loads
  <2>2. heap.mem[ptr] = "live"
    BY <1>1, <1>4, <2>1 DEF HeapInv, PointerHolds
  <2>3. heap'.mem = heap.mem /\ heap'.faults = {}
    BY <1>2, <2>1, <2>2 DEF Used, Held
  <2>4. QED BY <1>1, <1>2, <1>4, <2>1, <2>2, <2>3
            DEF HeapInv, HeapTyped, PointerHolds, ObjectsSound, NothingLeaked, Unborn
<1>5. CASE prog.read = "construct"
  <2>1. PICK b \in FreeBlocks : heap' = Built(Allocated(heap, b), b) /\ ptr' = b
    BY <1>1, <1>5 DEF Stored
  <2>2. b \in Blocks /\ b # Null /\ heap'.faults = {}
        /\ heap'.mem = [heap.mem EXCEPT ![b] = "live"]
    BY <1>2, <2>1, BuiltNew
  <2>3. ptr = Null
    BY <1>1, <1>5 DEF HeapInv, PointerHolds
  <2>4. heap'.mem \in [Blocks -> {"free", "raw", "live"}] /\ heap'.mem[b] = "live"
        /\ \A c \in Blocks : c # b => heap'.mem[c] = heap.mem[c]
    BY <1>2, <2>2
  <2>5. QED BY <1>1, <1>2, <1>5, <2>1, <2>2, <2>3, <2>4, NullIsNoBlock
            DEF HeapInv, HeapTyped, PointerHolds, ObjectsSound, NothingLeaked, Unborn
<1>6. CASE prog.read \in {"pure", "value"}
  <2>1. heap' = heap /\ ptr' = ptr
    BY <1>1, <1>6 DEF Stored
  <2>2. QED BY <1>1, <1>6, <2>1
            DEF HeapInv, HeapTyped, PointerHolds, ObjectsSound, NothingLeaked, Unborn
<1>7. QED BY <1>1, <1>3, <1>4, <1>5, <1>6 DEF ProgramType

\* The program empties the area of place().
LEMMA ClearSound ==
  ASSUME StreamTyped, HeapInv, Clear
  PROVE  HeapInv'
<1>1. /\ pc = "prefix" /\ pc' = "prefix" /\ prog' = prog /\ ptr' = ptr
      /\ prog.read = "place" /\ prog.wants /\ heap.mem[ptr] # "raw"
      /\ heap' = Destroyed(heap, ptr)
  BY DEF Clear, AreaReady
<1>2. /\ heap.mem \in [Blocks -> {"free", "raw", "live"}] /\ ptr \in Blocks
      /\ heap.mem[ptr] = "live" /\ heap.faults = {}
      /\ prog.dealloc \in {"delete", "free"} => \A b \in Blocks : heap.mem[b] # "free" => b = ptr
  BY <1>1 DEF HeapInv, HeapTyped, PointerHolds, ObjectsSound, NothingLeaked, Unborn
<1>3. heap'.mem = [heap.mem EXCEPT ![ptr] = "raw"] /\ heap'.faults = {}
  BY <1>1, <1>2 DEF Destroyed, Held
<1>4. heap'.mem \in [Blocks -> {"free", "raw", "live"}] /\ heap'.mem[ptr] = "raw"
      /\ \A b \in Blocks : b # ptr => heap'.mem[b] = heap.mem[b]
  BY <1>2, <1>3
<1>5. ptr # Null
  BY <1>2, NullIsNoBlock
<1>6. QED BY <1>1, <1>2, <1>3, <1>4, <1>5
          DEF HeapInv, HeapTyped, PointerHolds, ObjectsSound, NothingLeaked, Unborn

\* The other steps leave the heap and the pointer as they are, in a phase that
\* asks no more of them.
LEMMA OthersSound ==
  ASSUME StreamTyped, HeapInv,
         \/ \E obj \in BOOLEAN : Write(obj)
         \/ Close \/ ReadPrefix \/ ReadPrefixLost \/ LoadLost \/ LoadNull \/ LoadThrows
         \/ UNCHANGED vars
  PROVE  HeapInv'
<1>1. /\ heap' = heap /\ ptr' = ptr /\ prog' = prog
      /\ prog \in ProgramType
  BY ProgramTyped DEF Write, Close, ReadPrefix, ReadPrefixLost, LoadLost, LoadNull, LoadThrows,
                      Lost, vars, StreamTyped
<1>2. (HeapTyped /\ ObjectsSound /\ NothingLeaked)'
  <2>1. pc # "thrown" \/ pc' = pc
    BY DEF Write, Close, ReadPrefix, ReadPrefixLost, LoadLost, LoadNull, LoadThrows, vars
  <2>2. NothingLeaked'
    BY <1>1, <2>1 DEF HeapInv, NothingLeaked, Unborn
  <2>. QED  BY <1>1, <2>2 DEF HeapInv, HeapTyped, ObjectsSound
<1>3. CASE LoadNull
  <2>1. pc = "load" /\ pc' = "prefix" /\ ~Loads /\ meta' = meta
    BY <1>3 DEF LoadNull
  <2>2. QED BY <1>1, <1>2, <2>1 DEF HeapInv, PointerHolds, Loads, ProgramType
<1>4. CASE ReadPrefix
  <2>1. pc = "prefix" /\ pc' = "prepare" /\ AreaReady
    BY <1>4 DEF ReadPrefix
  <2>2. QED BY <1>1, <1>2, <2>1 DEF HeapInv, PointerHolds, AreaReady, ProgramType
<1>5. CASE Close \/ \E obj \in BOOLEAN : Write(obj)
  <2>1. pc = "write" /\ pc' \in {"write", "prefix"}
    BY <1>5 DEF Write, Close
  <2>2. QED BY <1>1, <1>2, <2>1 DEF HeapInv, PointerHolds, ProgramType
<1>6. CASE ReadPrefixLost \/ LoadLost \/ LoadThrows
  <2>1. pc' \in {"lost", "thrown"}
    BY <1>6 DEF ReadPrefixLost, LoadLost, LoadThrows, Lost
  <2>2. QED BY <1>1, <1>2, <2>1 DEF HeapInv, PointerHolds, ProgramType
<1>7. CASE UNCHANGED vars
  BY <1>1, <1>2, <1>7 DEF HeapInv, PointerHolds, ProgramType, vars
<1>8. QED BY <1>3, <1>4, <1>5, <1>6, <1>7

\* What was read last is null exactly if the pointer is.
LEMMA LastRead ==
  ASSUME StreamTyped, HeapInv, HeapInv', ReadsAfterWriting, PointerSound,
         Fitting(prog), Next \/ UNCHANGED vars
  PROVE  PointerSound' /\ ReadsAfterWriting'
<1>1. CASE Load
  <2>1. /\ pc' = "prefix" /\ prog' = prog /\ At(pos + Inner + 1, "body")
        /\ \E v : got' = Append(got, [obj |-> stream[pos + Inner + 1].obj, ver |-> v])
    BY <1>1 DEF Load
  <2>2. stream[pos + Inner + 1].obj # Null
    BY <2>1, TokenAt DEF BodyToken, Null
  <2>3. got'[Len(got')].obj # Null /\ got' # <<>>
    <3>1. got \in Seq([obj : Nat, ver : Nat])
      BY DEF StreamTyped
    <3>2. QED BY <2>1, <2>2, <3>1
  <2>4. prog.read \in {"pointer", "construct"} => ptr' # Null
    BY <1>1, LoadSound
  <2>5. QED BY <2>1, <2>3, <2>4 DEF PointerSound, ReadsAfterWriting, HeapInv, PointerHolds
<1>2. CASE LoadNull
  <2>1. /\ pc = "load" /\ pc' = "prefix" /\ ~Loads /\ prog' = prog /\ ptr' = ptr
        /\ got' = Append(got, [obj |-> Null, ver |-> meta.ver])
    BY <1>2 DEF LoadNull
  <2>2. got'[Len(got')].obj = Null
    BY <2>1 DEF StreamTyped
  <2>3. prog.read \in {"pointer", "construct"} => ptr = Null
    BY <2>1, ProgramTyped DEF HeapInv, PointerHolds, Loads, StreamTyped, ProgramType
  <2>4. QED BY <2>1, <2>2, <2>3 DEF PointerSound, ReadsAfterWriting
<1>3. CASE Clear
  BY <1>3 DEF Clear, AreaReady, PointerSound, ReadsAfterWriting
<1>4. CASE Close
  BY <1>4 DEF Close, PointerSound, ReadsAfterWriting
<1>5. CASE \E obj \in BOOLEAN : Write(obj)
  BY <1>5 DEF Write, PointerSound, ReadsAfterWriting
<1>6. CASE ReadPrefix \/ ReadPrefixLost \/ Prepare \/ ConstructorThrows \/ LoadLost \/ LoadThrows
  <2>1. pc' \in {"prepare", "load", "lost", "thrown"}
    BY <1>6 DEF ReadPrefix, ReadPrefixLost, Prepare, LoadLost, LoadThrows, ConstructorThrows,
               Lost
  <2>2. QED BY <2>1 DEF PointerSound, ReadsAfterWriting
<1>7. CASE UNCHANGED vars
  BY <1>7 DEF vars, PointerSound, ReadsAfterWriting
<1>8. QED BY <1>1, <1>2, <1>3, <1>4, <1>5, <1>6, <1>7 DEF Next

-----------------------------------------------------------------------------
(* Theorems.  They speak of programs with fitting deallocators: with       *)
(* another one the library destroys an object twice, as objects_destroy    *)
(* shows for the one that T* gives.                                        *)

\* The invariant of the heap and the stream.
THEOREM ObjectInvariant ==
  ASSUME \A p \in Programs : Fitting(p)
  PROVE  Spec => []ObjectInv
<1>1. Init => ObjectInv
  <2> SUFFICES ASSUME Init PROVE ObjectInv
    OBVIOUS
  <2>1. prog \in ProgramType /\ prog \in Programs
    BY ProgramTyped DEF Init
  <2>2. StreamTyped /\ ReadsAfterWriting /\ PointerSound
    BY <2>1 DEF Init, StreamTyped, ReadsAfterWriting, PointerSound, Prefix, PrefixToken
  <2>3. ptr \in Blocks \cup {Null} /\ 1 \in Blocks /\ Null \notin Blocks /\ Null # 1
    BY NullIsNoBlock, ObjectAssumption DEF Init, Null
  <2>4. HeapTyped /\ ObjectsSound /\ NothingLeaked
    BY <2>3 DEF Init, HeapTyped, ObjectsSound, NothingLeaked, Unborn
  <2>5. PointerHolds
    BY <2>1, <2>3 DEF Init, PointerHolds, ProgramType
  <2>6. QED BY <2>2, <2>4, <2>5 DEF ObjectInv, HeapInv
<1>2. ObjectInv /\ [Next]_vars => ObjectInv'
  <2> SUFFICES ASSUME ObjectInv, [Next]_vars PROVE ObjectInv'
    OBVIOUS
  <2>1. StreamTyped /\ HeapInv /\ ReadsAfterWriting /\ PointerSound /\ Fitting(prog)
    BY DEF ObjectInv, StreamTyped
  <2>2. StreamTyped'
    <3>1. CASE \E obj \in BOOLEAN : Write(obj)
      BY <2>1, <3>1, WriteTyped
    <3>2. CASE ReadPrefix \/ Prepare \/ Load \/ LoadNull \/ Clear
      BY <2>1, <3>2, ReadTyped
    <3>3. CASE \/ Close \/ ReadPrefixLost \/ LoadLost \/ LoadThrows
               \/ ConstructorThrows \/ UNCHANGED vars
      BY <2>1, <3>3 DEF Close, ReadPrefixLost, LoadLost, LoadThrows, ConstructorThrows,
                           Lost, vars, StreamTyped
    <3>4. QED BY <3>1, <3>2, <3>3 DEF Next
  <2>3. HeapInv'
    BY <2>1, PrepareSound, ThrowSound, LoadSound, ClearSound, OthersSound DEF Next
  <2>4. PointerSound' /\ ReadsAfterWriting'
    BY <2>1, <2>3, LastRead
  <2>5. QED BY <2>2, <2>3, <2>4 DEF ObjectInv
<1>3. QED BY <1>1, <1>2, PTL DEF Spec

\* Every variable of a program that stores objects stays in its type.
THEOREM ObjectTypeCorrect ==
  ASSUME \A p \in Programs : Fitting(p)
  PROVE  Spec => []TypeOK
<1>1. ObjectInv => TypeOK
  <2> SUFFICES ASSUME ObjectInv PROVE TypeOK
    OBVIOUS
  <2>1. PrefixToken \cup BodyToken \subseteq Token
    BY DEF PrefixToken, BodyToken, Token
  <2>2. stream \in Seq(Token)
    BY <2>1, Bigger DEF ObjectInv, StreamTyped
  <2>3. QED BY <2>2 DEF ObjectInv, StreamTyped, HeapInv, HeapTyped, PrefixToken, TypeOK
<1>2. QED BY <1>1, ObjectInvariant, PTL

\* Constructors, destructors, deallocators and the class's own code run only on
\* memory that is in the state they need, over any sequence of loads.
THEOREM ObjectsStaySound ==
  ASSUME \A p \in Programs : Fitting(p)
  PROVE  Spec => []ObjectsSound
<1>1. ObjectInv => ObjectsSound
  BY DEF ObjectInv, HeapInv
<1>2. QED BY <1>1, ObjectInvariant, PTL

\* Between loads the pointer is null or points to a live object, as the object
\* last read was null or not.
THEOREM ObjectPointerSound ==
  ASSUME \A p \in Programs : Fitting(p)
  PROVE  Spec => []PointerSound
<1>1. ObjectInv => PointerSound
  BY DEF ObjectInv
<1>2. QED BY <1>1, ObjectInvariant, PTL

\* What is allocated is held by the pointer, unless the program gave no way to
\* free it; an exception in the class's own code changes nothing of that.
THEOREM ObjectNothingLeaked ==
  ASSUME \A p \in Programs : Fitting(p)
  PROVE  Spec => []NothingLeaked
<1>1. ObjectInv => NothingLeaked
  BY DEF ObjectInv, HeapInv
<1>2. QED BY <1>1, ObjectInvariant, PTL
-----------------------------------------------------------------------------
(* What is read is what was written.                                       *)

\* The format carries the version a construct writes, the wrapper's, which is
\* zero: the class has that version, or none.
VersionFits(p) == p.write = "construct" => p.version \in {NoVersion, 0}

\* A prefix is written unless a class without a version goes by value; behind
\* the prefix of a pointer, a class that is serialized with a version has
\* another one.
Outer == IF prog.write # "value" \/ Versioned THEN 1 ELSE 0
Behind == IF prog.write = "pointer" /\ ~prog.wants /\ Versioned THEN 1 ELSE 0

\* The version in the outer prefix.
Stamp == IF prog.write = "construct" THEN 0 ELSE Meta

\* Object i stands in the stream between two tokens.
Stands(i, from, to) ==
  /\ Outer = 1 => stream[from + 1] = Prefix(~sent[i], Stamp)
  /\ ~sent[i] => to = from + Outer
  /\ sent[i] => /\ to = from + Outer + Behind + 1
                /\ Behind = 1 => stream[from + Outer + 1] = Prefix(FALSE, Meta)
                /\ stream[to] = Body(i)

\* cut divides the stream into the objects written.
Divides(cut) ==
  /\ cut[0] = 0 /\ cut[Len(sent)] = Len(stream)
  /\ \A i \in 1 .. Len(sent) :
       /\ Stands(i, cut[i - 1], cut[i])
       /\ prog.write = "value" \/ ~prog.nulls => sent[i]

\* The reader stands at a cut, or behind the outer prefix of the next object,
\* which it has in meta.
Follows(cut) ==
  /\ Len(got) <= Len(sent)
  /\ pc = "write" => got = <<>>
  /\ pc \in {"write", "prefix"} => pos = cut[Len(got)]
  /\ pc \in {"prepare", "load"} =>
       /\ Len(got) < Len(sent)
       /\ pos = cut[Len(got)] + Outer
       /\ meta = Prefix(~sent[Len(got) + 1], Stamp)

Delivered ==
  \A i \in DOMAIN got : /\ got[i].obj = IF sent[i] THEN i ELSE Null
                        /\ sent[i] => got[i].ver = Meta

\* What Loads asks of the pointer.
PointerFollows ==
  /\ prog.read = "pointer" /\ pc = "load" => (ptr = Null <=> meta.null)
  /\ prog.read = "place" => ptr # Null

ReadInv ==
  /\ StreamTyped /\ PointerFollows
  /\ \E cut \in [0 .. Len(sent) -> 0 .. Len(stream)] :
       /\ Divides(cut)
       /\ Carried => Follows(cut) /\ Delivered /\ pc # "lost"
\* A token before a sequence of tokens.
LEMMA Headed ==
  ASSUME NEW S, NEW a \in S, NEW s \in Seq(S)
  PROVE  /\ <<a>> \o s \in Seq(S) /\ Len(<<a>> \o s) = Len(s) + 1
         /\ (<<a>> \o s)[1] = a
         /\ Len(s) >= 1 => (<<a>> \o s)[2] = s[1]
         /\ Len(s) >= 2 => (<<a>> \o s)[3] = s[2]
<1> DEFINE h == <<a>>
<1>1. h \in Seq(S) /\ Len(h) = 1 /\ h[1] = a
  OBVIOUS
<1>2. Len(s) \in Nat
  OBVIOUS
<1> HIDE DEF h
<1>3. /\ h \o s \in Seq(S) /\ Len(h \o s) = Len(h) + Len(s)
      /\ \A k \in 1 .. Len(h) + Len(s) : (h \o s)[k] = IF k <= Len(h) THEN h[k] ELSE s[k - Len(h)]
  BY <1>1, ConcatProperties
<1>4. /\ (h \o s)[1] = a
      /\ Len(s) >= 1 => (h \o s)[2] = s[1]
      /\ Len(s) >= 2 => (h \o s)[3] = s[2]
  BY <1>1, <1>2, <1>3
<1>5. QED BY <1>1, <1>2, <1>3, <1>4 DEF h

\* What Write appends stands as object i would.
LEMMA Encoded ==
  ASSUME StreamTyped, NEW obj \in BOOLEAN, Write(obj)
  PROVE  /\ prog.write = "value" \/ ~prog.nulls => obj
         /\ \E e \in Seq(PrefixToken \cup BodyToken) :
              /\ stream' = stream \o e
              /\ Len(e) = IF obj THEN Outer + Behind + 1 ELSE Outer
              /\ Outer = 1 => e[1] = Prefix(~obj, Stamp)
              /\ obj => /\ Behind = 1 => e[Outer + 1] = Prefix(FALSE, Meta)
                        /\ e[Outer + Behind + 1] = Body(Len(sent) + 1)
<1> DEFINE T == PrefixToken \cup BodyToken
           Shaped(e, i) ==
             /\ Len(e) = IF obj THEN Outer + Behind + 1 ELSE Outer
             /\ Outer = 1 => e[1] = Prefix(~obj, Stamp)
             /\ obj => /\ Behind = 1 => e[Outer + 1] = Prefix(FALSE, Meta)
                       /\ e[Outer + Behind + 1] = Body(i)
<1>1. PICK i \in Nat \ {0} : i = Len(sent) + 1
  BY DEF StreamTyped
<1>2. /\ Meta \in Nat /\ prog \in ProgramType /\ (prog.nulls \/ obj)
      /\ prog.write = "value" => ~prog.nulls
      /\ prog.write = "construct" => prog.wants
      /\ Outer \in {0, 1} /\ Behind \in {0, 1}
  BY MetaNat, ProgramTyped, ObjectAssumption DEF StreamTyped, Write, Outer, Behind
<1>3. /\ \A n \in BOOLEAN, v \in Nat : Prefix(n, v) \in T
      /\ Body(i) \in T
  BY <1>1 DEF Prefix, Body, PrefixToken, BodyToken
<1>4. /\ <<Body(i)>> \in Seq(T) /\ Len(<<Body(i)>>) = 1 /\ <<Body(i)>>[1] = Body(i)
      /\ <<>> \in Seq(T) /\ Len(<<>>) = 0
  BY <1>3
<1> HIDE DEF T
<1>5. \A n \in BOOLEAN, v \in Nat, s \in Seq(T) :
        /\ <<Prefix(n, v)>> \o s \in Seq(T) /\ Len(<<Prefix(n, v)>> \o s) = Len(s) + 1
        /\ (<<Prefix(n, v)>> \o s)[1] = Prefix(n, v)
        /\ Len(s) >= 1 => (<<Prefix(n, v)>> \o s)[2] = s[1]
        /\ Len(s) >= 2 => (<<Prefix(n, v)>> \o s)[3] = s[2]
  BY <1>3, Headed
<1>6. /\ ByValue(i) \in Seq(T)
      /\ Versioned => /\ Len(ByValue(i)) = 2
                      /\ ByValue(i)[1] = Prefix(FALSE, Meta) /\ ByValue(i)[2] = Body(i)
      /\ ~Versioned => Len(ByValue(i)) = 1 /\ ByValue(i)[1] = Body(i)
  <2>1. CASE Versioned
    <3>1. ByValue(i) = <<Prefix(FALSE, Meta)>> \o <<Body(i)>>
      BY <2>1 DEF ByValue
    <3>2. PICK b \in Seq(T) : b = <<Body(i)>> /\ Len(b) = 1 /\ b[1] = Body(i)
      BY <1>4
    <3>3. PICK f \in BOOLEAN : f = FALSE
      OBVIOUS
    <3>4. PICK w : w = <<Prefix(f, Meta)>> \o b
      OBVIOUS
    <3>5. w \in Seq(T) /\ Len(w) = 2 /\ w[1] = Prefix(f, Meta) /\ w[2] = Body(i)
      BY <1>2, <1>5, <3>2, <3>4
    <3>6. ByValue(i) = w /\ Prefix(f, Meta) = Prefix(FALSE, Meta)
      BY <3>1, <3>2, <3>3, <3>4
    <3>7. QED BY <2>1, <3>5, <3>6
  <2>2. CASE ~Versioned
    <3>1. ByValue(i) = <<>> \o <<Body(i)>>
      BY <2>2 DEF ByValue
    <3>2. ByValue(i) = <<Body(i)>>
      BY <1>4, <3>1, ConcatEmptySeq
    <3>3. QED BY <1>4, <2>2, <3>2
  <2>3. QED BY <2>1, <2>2
<1>7. \E e \in Seq(T) : stream' = stream \o e /\ Shaped(e, i)
  <2>1. CASE prog.write = "value"
    <3>1. obj /\ Stamp = Meta /\ Behind = 0 /\ Outer = IF Versioned THEN 1 ELSE 0
      BY <1>2, <2>1 DEF Stamp, Behind, Outer
    <3>2. stream' = stream \o ByValue(i)
      BY <1>1, <2>1 DEF Write
    <3>3. Prefix(~obj, Stamp) = Prefix(FALSE, Meta)
      BY <3>1 DEF Prefix
    <3>4. Shaped(ByValue(i), i)
      <4>1. CASE Versioned
        <5>1. Outer = 1 /\ Outer + Behind + 1 = 2
          BY <3>1, <4>1
        <5>2. ByValue(i)[Outer + Behind + 1] = Body(i)
          BY <1>6, <4>1, <5>1
        <5>3. Len(ByValue(i)) = IF obj THEN Outer + Behind + 1 ELSE Outer
          BY <1>6, <3>1, <4>1, <5>1
        <5>4. ByValue(i)[1] = Prefix(~obj, Stamp)
          BY <1>6, <3>3, <4>1
        <5>5. QED BY <3>1, <5>2, <5>3, <5>4
      <4>2. CASE ~Versioned
        <5>1. Outer = 0 /\ Outer + Behind + 1 = 1
          BY <3>1, <4>2
        <5>2. QED BY <1>6, <3>1, <3>3, <4>2, <5>1
      <4>3. QED BY <4>1, <4>2
    <3> HIDE DEF Shaped
    <3>5. QED BY <1>6, <3>2, <3>4
  <2>2. CASE prog.write = "pointer" /\ (prog.wants \/ ~obj)
    <3>1. Stamp = Meta /\ Outer = 1 /\ (obj => Behind = 0)
      BY <2>2 DEF Stamp, Behind, Outer
    <3>2. PICK s : /\ s = IF obj THEN <<Body(i)>> ELSE <<>>
                   /\ ByPointer(i, obj) = <<Prefix(~obj, Meta)>> \o s
      BY <2>2 DEF ByPointer
    <3>3. stream' = stream \o ByPointer(i, obj)
      BY <1>1, <2>2 DEF Write
    <3>4. s \in Seq(T) /\ Len(s) = (IF obj THEN 1 ELSE 0) /\ (obj => s[1] = Body(i))
      BY <1>4, <3>2
    <3>5. PICK w \in Seq(T) : w = <<Prefix(~obj, Stamp)>> \o s
      BY <1>2, <1>5, <3>1, <3>4
    <3>6. stream' = stream \o w
      BY <3>1, <3>2, <3>3, <3>5
    <3>7. Len(w) = Len(s) + 1 /\ w[1] = Prefix(~obj, Stamp) /\ (Len(s) >= 1 => w[2] = s[1])
      BY <1>2, <1>5, <3>1, <3>4, <3>5
    <3>8. Shaped(w, i)
      <4>1. CASE obj
        <5>1. Behind = 0 /\ Outer + Behind + 1 = 2 /\ Len(s) >= 1
          BY <3>1, <3>4, <4>1
        <5>2. QED BY <3>1, <3>4, <3>7, <4>1, <5>1
      <4>2. CASE ~obj
        <5>1. Len(w) = IF obj THEN Outer + Behind + 1 ELSE Outer
          BY <3>1, <3>4, <3>7, <4>2
        <5>2. QED BY <3>7, <4>2, <5>1
      <4>3. QED BY <4>1, <4>2
    <3> HIDE DEF Shaped
    <3>9. QED BY <3>6, <3>8
  <2>3. CASE prog.write = "pointer" /\ ~prog.wants /\ obj
    <3>1. Stamp = Meta /\ Outer = 1 /\ Behind = IF Versioned THEN 1 ELSE 0
      BY <2>3 DEF Stamp, Behind, Outer
    <3>2. stream' = stream \o (<<Prefix(~obj, Meta)>> \o ByValue(i))
      BY <1>1, <2>3 DEF Write, ByPointer
    <3>3. PICK w \in Seq(T) : w = <<Prefix(~obj, Stamp)>> \o ByValue(i)
      BY <1>2, <1>5, <1>6, <3>1
    <3>4. stream' = stream \o w
      BY <3>1, <3>2, <3>3
    <3>5. /\ Len(w) = Len(ByValue(i)) + 1 /\ w[1] = Prefix(~obj, Stamp)
          /\ Len(ByValue(i)) >= 1 => w[2] = ByValue(i)[1]
          /\ Len(ByValue(i)) >= 2 => w[3] = ByValue(i)[2]
      BY <1>2, <1>5, <1>6, <3>1, <3>3
    <3>6. Shaped(w, i)
      <4>1. CASE Versioned
        <5>1. Outer + Behind + 1 = 3 /\ Outer + 1 = 2 /\ Behind = 1 /\ obj
          BY <2>3, <3>1, <4>1
        <5>2. Len(ByValue(i)) = 2
          BY <1>6, <4>1
        <5>3. Len(w) = 3 /\ w[2] = ByValue(i)[1] /\ w[3] = ByValue(i)[2]
          BY <3>5, <5>2
        <5>4. w[2] = Prefix(FALSE, Meta) /\ w[3] = Body(i)
          BY <1>6, <4>1, <5>3
        <5>5. QED BY <3>5, <5>1, <5>3, <5>4
      <4>2. CASE ~Versioned
        <5>1. Outer + Behind + 1 = 2 /\ Behind = 0 /\ obj
          BY <2>3, <3>1, <4>2
        <5>2. Len(ByValue(i)) = 1
          BY <1>6, <4>2
        <5>3. Len(w) = 2 /\ w[2] = ByValue(i)[1]
          BY <3>5, <5>2
        <5>4. Len(w) = IF obj THEN Outer + Behind + 1 ELSE Outer
          BY <5>1, <5>3
        <5>5. w[Outer + Behind + 1] = Body(i)
          BY <1>6, <4>2, <5>1, <5>3
        <5>6. QED BY <3>5, <5>1, <5>4, <5>5
      <4>3. QED BY <4>1, <4>2
    <3> HIDE DEF Shaped
    <3>7. QED BY <3>4, <3>6
  <2>4. CASE prog.write = "construct"
    <3>1. Stamp = 0 /\ Outer = 1 /\ Behind = 0
      BY <2>4 DEF Stamp, Behind, Outer
    <3>2. PICK s : /\ s = IF obj THEN <<Body(i)>> ELSE <<>>
                   /\ ByConstruct(i, obj) = <<Prefix(~obj, 0)>> \o s
      BY DEF ByConstruct
    <3>3. stream' = stream \o ByConstruct(i, obj)
      BY <1>1, <2>4 DEF Write
    <3>4. s \in Seq(T) /\ Len(s) = (IF obj THEN 1 ELSE 0) /\ (obj => s[1] = Body(i))
      BY <1>4, <3>2
    <3>5. PICK w \in Seq(T) : w = <<Prefix(~obj, Stamp)>> \o s
      BY <1>2, <1>5, <3>1, <3>4
    <3>6. stream' = stream \o w
      BY <3>1, <3>2, <3>3, <3>5
    <3>7. Len(w) = Len(s) + 1 /\ w[1] = Prefix(~obj, Stamp) /\ (Len(s) >= 1 => w[2] = s[1])
      BY <1>2, <1>5, <3>1, <3>4, <3>5
    <3>8. Shaped(w, i)
      <4>1. CASE obj
        <5>1. Behind = 0 /\ Outer + Behind + 1 = 2 /\ Len(s) >= 1
          BY <3>1, <3>4, <4>1
        <5>2. QED BY <3>1, <3>4, <3>7, <4>1, <5>1
      <4>2. CASE ~obj
        <5>1. Len(w) = IF obj THEN Outer + Behind + 1 ELSE Outer
          BY <3>1, <3>4, <3>7, <4>2
        <5>2. QED BY <3>7, <4>2, <5>1
      <4>3. QED BY <4>1, <4>2
    <3> HIDE DEF Shaped
    <3>9. QED BY <3>6, <3>8
  <2> HIDE DEF Shaped
  <2>5. QED BY <1>2, <2>1, <2>2, <2>3, <2>4 DEF ProgramType
<1>8. QED BY <1>1, <1>2, <1>7 DEF T

\* Writing an object puts a cut behind it.
LEMMA WriteDivides ==
  ASSUME ReadInv, NEW obj \in BOOLEAN, Write(obj)
  PROVE  ReadInv'
<1>1. PICK cut \in [0 .. Len(sent) -> 0 .. Len(stream)] :
        Divides(cut) /\ (Carried => Follows(cut) /\ Delivered /\ pc # "lost")
  BY DEF ReadInv
<1>2. StreamTyped /\ PointerFollows /\ StreamTyped'
  BY WriteTyped DEF ReadInv
<1>3. PICK e \in Seq(PrefixToken \cup BodyToken) :
        /\ stream' = stream \o e
        /\ Len(e) = IF obj THEN Outer + Behind + 1 ELSE Outer
        /\ Outer = 1 => e[1] = Prefix(~obj, Stamp)
        /\ obj => /\ Behind = 1 => e[Outer + 1] = Prefix(FALSE, Meta)
                  /\ e[Outer + Behind + 1] = Body(Len(sent) + 1)
  BY <1>2, Encoded
<1>4. PICK n \in Nat, m \in Nat : n = Len(sent) /\ m = Len(stream)
  BY <1>2 DEF StreamTyped
<1>5. /\ sent' \in Seq(BOOLEAN) /\ Len(sent') = n + 1 /\ sent'[n + 1] = obj
      /\ \A i \in 1 .. n : sent'[i] = sent[i]
  BY <1>2, <1>4 DEF StreamTyped, Write
<1>6. /\ Len(stream') = m + Len(e) /\ Len(e) \in Nat
      /\ \A k \in 1 .. m : stream'[k] = stream[k]
      /\ \A k \in 1 .. Len(e) : stream'[m + k] = e[k]
  <2>1. stream \in Seq(PrefixToken \cup BodyToken) /\ Len(e) \in Nat
    BY <1>2 DEF StreamTyped
  <2> HIDE DEF PrefixToken, BodyToken
  <2>2. /\ Len(stream \o e) = m + Len(e)
        /\ \A k \in 1 .. m + Len(e) : (stream \o e)[k] = IF k <= m THEN stream[k] ELSE e[k - m]
    BY <1>4, <2>1, ConcatProperties
  <2>3. \A k \in 1 .. Len(e) : m + k \in 1 .. m + Len(e) /\ ~(m + k <= m) /\ (m + k) - m = k
    BY <1>4, <2>1
  <2>4. \A k \in 1 .. m : k \in 1 .. m + Len(e) /\ k <= m
    BY <1>4, <2>1
  <2>5. stream' = stream \o e
    BY <1>3
  <2>6. /\ \A k \in 1 .. m : (stream \o e)[k] = stream[k]
        /\ \A k \in 1 .. Len(e) : (stream \o e)[m + k] = e[k]
    BY <2>2, <2>3, <2>4
  <2>7. QED BY <2>1, <2>2, <2>5, <2>6
<1>7. /\ UNCHANGED <<prog, pos, meta, ptr, pc, got>> /\ pc = "write"
      /\ Outer' = Outer /\ Behind' = Behind /\ Stamp' = Stamp /\ Meta' = Meta
      /\ Outer \in {0, 1} /\ Behind \in {0, 1}
      /\ prog \in ProgramType
  BY <1>2, ProgramTyped DEF Write, Outer, Behind, Stamp, Meta, Versioned, StreamTyped
<1>8. PICK new : new = [k \in 0 .. n + 1 |-> IF k <= n THEN cut[k] ELSE m + Len(e)]
  OBVIOUS
<1>9. /\ new \in [0 .. Len(sent') -> 0 .. Len(stream')]
      /\ new[n + 1] = Len(stream') /\ new[n] = m
      /\ \A k \in 0 .. n : new[k] = cut[k] /\ cut[k] \in 0 .. m
  <2>1. cut \in [0 .. n -> 0 .. m] /\ cut[n] = m
    BY <1>1, <1>4 DEF Divides
  <2>2. Len(e) \in Nat /\ n + 1 \in 0 .. n + 1 /\ n \in 0 .. n + 1
    BY <1>4, <1>6
  <2>3. new[n + 1] = m + Len(e) /\ new[n] = cut[n]
    BY <1>4, <1>8, <2>2
  <2>4. \A k \in 0 .. n : new[k] = cut[k] /\ cut[k] \in 0 .. m
    BY <1>4, <1>8, <2>1
  <2>5. \A k \in 0 .. n + 1 : new[k] \in 0 .. m + Len(e)
    <3>1. \A k \in 0 .. n : new[k] \in 0 .. m + Len(e)
      BY <1>4, <2>2, <2>4
    <3>2. new[n + 1] \in 0 .. m + Len(e)
      BY <1>4, <2>2, <2>3
    <3>3. \A k \in 0 .. n + 1 : k \in 0 .. n \/ k = n + 1
      BY <1>4
    <3>4. QED BY <3>1, <3>2, <3>3
  <2>6. QED BY <1>5, <1>6, <1>8, <2>1, <2>3, <2>4, <2>5
<1>10. ASSUME NEW i \in 1 .. n + 1
       PROVE  /\ Stands(i, new[i - 1], new[i])'
              /\ (prog.write = "value" \/ ~prog.nulls => sent[i])'
  <2>1. CASE i = n + 1
    <3>1. i - 1 = n /\ new[i - 1] = m /\ new[i] = m + Len(e) /\ sent'[i] = obj
      BY <1>4, <1>5, <1>6, <1>9, <2>1
    <3>2. prog.write = "value" \/ ~prog.nulls => obj
      BY <1>2, Encoded
    <3>3. Outer = 1 => stream'[m + 1] = Prefix(~obj, Stamp)
      BY <1>3, <1>4, <1>6, <1>7
    <3>4. obj => /\ Behind = 1 => stream'[m + Outer + 1] = Prefix(FALSE, Meta)
                 /\ stream'[m + Len(e)] = Body(i)
      <4>1. CASE obj
        <5>1. Len(e) = Outer + Behind + 1 /\ Outer + Behind + 1 \in 1 .. Len(e)
          BY <1>3, <1>7, <4>1
        <5>2. Behind = 1 => Outer + 1 \in 1 .. Len(e)
          BY <1>7, <5>1
        <5>3. m + Outer + 1 = m + (Outer + 1)
          BY <1>4, <1>7
        <5>4. QED BY <1>3, <1>4, <1>6, <2>1, <4>1, <5>1, <5>2, <5>3
      <4>2. QED BY <4>1
    <3>5. QED BY <1>3, <1>4, <1>7, <3>1, <3>2, <3>3, <3>4 DEF Stands, Prefix, Body
  <2>2. CASE i \in 1 .. n
    <3>1. /\ i - 1 \in 0 .. n /\ i \in 0 .. n
          /\ new[i - 1] = cut[i - 1] /\ new[i] = cut[i] /\ sent'[i] = sent[i]
          /\ cut[i - 1] \in 0 .. m /\ cut[i] \in 0 .. m
      BY <1>5, <1>9, <2>2
    <3>2. Stands(i, cut[i - 1], cut[i]) /\ (prog.write = "value" \/ ~prog.nulls => sent[i])
      BY <1>1, <1>4, <2>2 DEF Divides
    <3>3. sent[i] \in BOOLEAN
      BY <1>2, <1>4, <2>2 DEF StreamTyped
    <3>4. Outer = 1 => stream'[cut[i - 1] + 1] = Prefix(~sent[i], Stamp)
      <4>1. ~sent[i] \/ sent[i]
        BY <3>3
      <4>2. cut[i] = cut[i - 1] + Outer \/ cut[i] = cut[i - 1] + Outer + Behind + 1
        BY <3>2, <4>1 DEF Stands
      <4>3. Outer = 1 => cut[i - 1] + 1 \in 1 .. m
        BY <1>4, <1>7, <3>1, <4>2
      <4>4. QED BY <1>6, <3>2, <4>3 DEF Stands
    <3>5. sent[i] => /\ Behind = 1 => stream'[cut[i - 1] + Outer + 1] = Prefix(FALSE, Meta)
                     /\ stream'[cut[i]] = Body(i)
      <4>1. CASE sent[i]
        <5>1. cut[i] = cut[i - 1] + Outer + Behind + 1
          BY <3>2, <4>1 DEF Stands
        <5>2. cut[i] \in 1 .. m
          BY <1>4, <1>7, <3>1, <5>1
        <5>3. Behind = 1 => cut[i - 1] + Outer + 1 \in 1 .. m
          BY <1>4, <1>7, <3>1, <5>1
        <5>4. QED BY <1>6, <3>2, <4>1, <5>2, <5>3 DEF Stands
      <4>2. QED BY <4>1
    <3>6. QED BY <1>7, <3>1, <3>2, <3>4, <3>5 DEF Stands, Prefix, Body
  <2>3. QED BY <1>4, <2>1, <2>2
<1>11. Divides(new)'
  BY <1>1, <1>4, <1>5, <1>9, <1>10 DEF Divides
<1>12. Carried' => Follows(new)' /\ Delivered' /\ pc' # "lost"
  <2>1. CASE Carried
    <3>1. got = <<>> /\ Len(got) = 0 /\ pos = cut[0]
      BY <1>1, <1>7, <2>1 DEF Follows
    <3>2. Follows(new)'
      BY <1>4, <1>5, <1>7, <1>9, <3>1 DEF Follows
    <3>3. Delivered' /\ pc' # "lost"
      BY <1>7, <3>1 DEF Delivered
    <3>4. QED BY <3>2, <3>3
  <2>2. CASE ~Carried
    BY <1>7, <2>2 DEF Carried, Versioned
  <2>3. QED BY <2>1, <2>2
<1>13. PointerFollows'
  BY <1>2, <1>7 DEF PointerFollows
<1>14. QED BY <1>2, <1>9, <1>11, <1>12, <1>13 DEF ReadInv
\* Where the format carries what a program does, its reader expects the
\* prefixes that its writer wrote.
LEMMA ReaderFits ==
  ASSUME prog \in Programs, VersionFits(prog), Carried
  PROVE  /\ Outer \in {0, 1} /\ Behind \in {0, 1}
         /\ HasPrefix <=> Outer = 1
         /\ Inner = Behind /\ Stamp = Meta
         /\ Outer = 0 => prog.write = "value"
         /\ prog.read = "place" /\ ~prog.wants => ~prog.nulls
         /\ prog.read \in {"pure", "value"} => prog.write = "value"
         /\ Inner = 1 => ~prog.wants /\ prog.read # "value"
<1>1. /\ prog \in ProgramType
      /\ prog.read = "value" => ~prog.wants
      /\ "construct" \in {prog.read, prog.write} \/ prog.read = "pure" => prog.wants
      /\ prog.write = "value" <=> prog.read \in {"value", "pure"}
  BY ObjectAssumption
<1>2. /\ prog.write \in {"value", "pointer", "construct"} /\ prog.wants \in BOOLEAN
      /\ prog.read \in {"value", "pointer", "place", "construct", "pure"}
      /\ prog.nulls \in BOOLEAN
  BY <1>1 DEF ProgramType
<1>3. Outer \in {0, 1} /\ Behind \in {0, 1} /\ Inner \in {0, 1}
  BY DEF Outer, Behind, Inner
<1>4. (HasPrefix <=> Outer = 1) /\ (Outer = 0 => prog.write = "value")
  BY <1>1, <1>2 DEF HasPrefix, Outer, Carried
<1>5. Inner = 1 <=> Behind = 1
  BY <1>1, <1>2 DEF Inner, Behind
<1>6. Stamp = Meta
  BY DEF Stamp, Meta, Versioned, VersionFits, NoVersion
<1>7. QED BY <1>1, <1>2, <1>3, <1>4, <1>5, <1>6 DEF Carried, Inner

\* The object that is read next, between its two cuts.
LEMMA NextObject ==
  ASSUME StreamTyped, NEW cut \in [0 .. Len(sent) -> 0 .. Len(stream)],
         Divides(cut), Len(got) < Len(sent), NEW i, i = Len(got) + 1
  PROVE  /\ i \in 1 .. Len(sent) /\ sent[i] \in BOOLEAN
         /\ prog.write = "value" \/ ~prog.nulls => sent[i]
         /\ cut[Len(got)] \in 0 .. Len(stream) /\ cut[i] \in 0 .. Len(stream)
         /\ Stands(i, cut[Len(got)], cut[i])
<1>1. Len(got) \in Nat /\ Len(sent) \in Nat /\ sent \in Seq(BOOLEAN)
  BY DEF StreamTyped
<1>2. /\ i \in 1 .. Len(sent) /\ Len(got) = i - 1
      /\ i \in 0 .. Len(sent) /\ Len(got) \in 0 .. Len(sent)
  BY <1>1
<1>3. QED BY <1>1, <1>2 DEF Divides

\* The reader finds the prefix it expects, and has it in meta afterwards.
LEMMA PrefixFollows ==
  ASSUME StreamTyped, NEW cut \in [0 .. Len(sent) -> 0 .. Len(stream)],
         Divides(cut), Follows(cut), Carried, VersionFits(prog)
  PROVE  /\ ~ReadPrefixLost
         /\ ReadPrefix => /\ pos' = cut[Len(got)] + Outer
                          /\ meta' = Prefix(~sent[Len(got) + 1], Stamp)
<1>1. SUFFICES ASSUME pc = "prefix", Len(got) < Len(sent)
               PROVE  /\ HasPrefix => At(pos + 1, "prefix")
                      /\ ReadPrefix => /\ pos' = cut[Len(got)] + Outer
                                       /\ meta' = Prefix(~sent[Len(got) + 1], Stamp)
  BY DEF ReadPrefixLost, ReadPrefix
<1>2. PICK i : i = Len(got) + 1
  OBVIOUS
<1>3. /\ i \in 1 .. Len(sent) /\ sent[i] \in BOOLEAN
      /\ prog.write = "value" \/ ~prog.nulls => sent[i]
      /\ cut[Len(got)] \in 0 .. Len(stream) /\ cut[i] \in 0 .. Len(stream)
      /\ Stands(i, cut[Len(got)], cut[i])
  BY <1>1, <1>2, NextObject
<1>4. /\ Outer \in {0, 1} /\ Behind \in {0, 1} /\ (HasPrefix <=> Outer = 1)
      /\ Stamp = Meta /\ (Outer = 0 => prog.write = "value")
  BY ReaderFits DEF StreamTyped
<1>5. pos = cut[Len(got)] /\ Len(stream) \in Nat /\ DOMAIN stream = 1 .. Len(stream)
  BY <1>1 DEF Follows, StreamTyped
<1>6. CASE HasPrefix
  <2>1. Outer = 1 /\ stream[pos + 1] = Prefix(~sent[i], Stamp)
    BY <1>3, <1>4, <1>5, <1>6 DEF Stands
  <2>2. cut[i] = pos + Outer \/ cut[i] = pos + Outer + Behind + 1
    BY <1>3, <1>5 DEF Stands
  <2>3. pos + 1 \in DOMAIN stream
    BY <1>3, <1>4, <1>5, <2>1, <2>2
  <2>4. At(pos + 1, "prefix")
    BY <2>1, <2>3 DEF At, Prefix
  <2>5. ReadPrefix => pos' = pos + 1 /\ meta' = stream[pos + 1]
    BY <1>6 DEF ReadPrefix
  <2>6. QED BY <1>2, <1>5, <2>1, <2>4, <2>5
<1>7. CASE ~HasPrefix
  <2>1. Outer = 0 /\ sent[i] = TRUE
    BY <1>3, <1>4, <1>7
  <2>2. Prefix(FALSE, Meta) = Prefix(~sent[i], Stamp)
    BY <1>4, <2>1 DEF Prefix
  <2>3. ReadPrefix => pos' = pos /\ meta' = Prefix(FALSE, Meta)
    BY <1>7 DEF ReadPrefix
  <2>4. cut[Len(got)] + Outer = pos
    BY <1>3, <1>5, <2>1
  <2>5. QED BY <1>2, <1>7, <2>2, <2>3, <2>4
<1>8. QED BY <1>6, <1>7

\* A body is read exactly for an object that was written, and it is there,
\* with the version of the class.
LEMMA LoadFollows ==
  ASSUME StreamTyped, PointerFollows, NEW cut \in [0 .. Len(sent) -> 0 .. Len(stream)],
         Divides(cut), Follows(cut), Carried, VersionFits(prog), pc = "load",
         NEW i, i = Len(got) + 1
  PROVE  /\ i \in 1 .. Len(sent) /\ sent[i] \in BOOLEAN
         /\ Loads <=> sent[i]
         /\ ~LoadLost
         /\ Load => /\ pos' = cut[i]
                    /\ got' = Append(got, [obj |-> i, ver |-> Meta])
         /\ ~sent[i] => pos = cut[i]
<1>1. /\ Len(got) < Len(sent) /\ pos = cut[Len(got)] + Outer
      /\ meta = Prefix(~sent[i], Stamp)
  BY DEF Follows
<1>2. /\ i \in 1 .. Len(sent) /\ sent[i] \in BOOLEAN
      /\ prog.write = "value" \/ ~prog.nulls => sent[i]
      /\ cut[Len(got)] \in 0 .. Len(stream) /\ cut[i] \in 0 .. Len(stream)
      /\ Stands(i, cut[Len(got)], cut[i])
  BY <1>1, NextObject
<1>3. /\ Outer \in {0, 1} /\ Behind \in {0, 1} /\ Inner = Behind /\ Stamp = Meta
      /\ prog.read = "place" /\ ~prog.wants => ~prog.nulls
      /\ prog.read \in {"pure", "value"} => prog.write = "value"
      /\ Inner = 1 => ~prog.wants /\ prog.read # "value"
  BY ReaderFits DEF StreamTyped
<1>4. prog \in ProgramType
  BY ProgramTyped DEF StreamTyped
<1>5. meta.null = ~sent[i] /\ meta.ver = Meta
  BY <1>1, <1>3 DEF Prefix
<1>6. Loads <=> sent[i]
  <2>1. CASE prog.read \in {"pointer", "place"} /\ prog.wants
    BY <1>2, <1>5, <2>1 DEF Loads
  <2>2. CASE prog.read = "pointer" /\ ~prog.wants
    BY <1>2, <1>5, <2>2 DEF Loads, PointerFollows
  <2>3. CASE prog.read = "place" /\ ~prog.wants
    BY <1>2, <1>3, <2>3 DEF Loads, PointerFollows
  <2>4. CASE prog.read = "construct"
    BY <1>2, <1>5, <2>4 DEF Loads
  <2>5. CASE prog.read \in {"pure", "value"}
    BY <1>2, <1>3, <2>5 DEF Loads
  <2>6. QED BY <1>4, <2>1, <2>2, <2>3, <2>4, <2>5 DEF ProgramType
<1>7. Len(stream) \in Nat /\ DOMAIN stream = 1 .. Len(stream) /\ pos \in Nat
  BY DEF StreamTyped
<1>8. ASSUME sent[i]
      PROVE  /\ At(pos + Inner + 1, "body") /\ stream[pos + Inner + 1].obj = i
             /\ Inner = 1 => At(pos + 1, "prefix") /\ stream[pos + 1].ver = Meta
             /\ pos + Inner + 1 = cut[i]
  <2>1. /\ cut[i] = cut[Len(got)] + Outer + Behind + 1 /\ stream[cut[i]] = Body(i)
        /\ Behind = 1 => stream[cut[Len(got)] + Outer + 1] = Prefix(FALSE, Meta)
    BY <1>2, <1>8 DEF Stands
  <2>2. pos + Inner + 1 = cut[i]
    BY <1>1, <1>2, <1>3, <2>1
  <2>3. pos + Inner + 1 \in DOMAIN stream /\ (Inner = 1 => pos + 1 \in DOMAIN stream)
    BY <1>2, <1>3, <1>7, <2>2
  <2>4. At(pos + Inner + 1, "body") /\ stream[pos + Inner + 1].obj = i
    BY <2>1, <2>2, <2>3 DEF At, Body
  <2>5. Inner = 1 => stream[pos + 1] = Prefix(FALSE, Meta)
    BY <1>1, <1>3, <2>1
  <2>6. Inner = 1 => At(pos + 1, "prefix") /\ stream[pos + 1].ver = Meta
    BY <2>3, <2>5 DEF At, Prefix
  <2>7. QED BY <2>2, <2>4, <2>6
<1>9. ~LoadLost
  BY <1>6, <1>8 DEF LoadLost
<1>10. Load => pos' = cut[i] /\ got' = Append(got, [obj |-> i, ver |-> Meta])
  <2> SUFFICES ASSUME Load
               PROVE  pos' = cut[i] /\ got' = Append(got, [obj |-> i, ver |-> Meta])
    OBVIOUS
  <2> DEFINE seen == IF Inner = 1 THEN stream[pos + 1].ver
                     ELSE IF prog.wants \/ prog.read = "value" THEN meta.ver ELSE Meta
  <2>1. /\ Loads /\ pos' = pos + Inner + 1
        /\ got' = Append(got, [obj |-> stream[pos + Inner + 1].obj, ver |-> seen])
    BY DEF Load
  <2>2. seen = Meta
    BY <1>5, <1>6, <1>8, <2>1
  <2>3. QED BY <1>6, <1>8, <2>1, <2>2
<1>11. ~sent[i] => pos = cut[i]
  BY <1>1, <1>2 DEF Stands
<1>12. QED BY <1>2, <1>6, <1>9, <1>10, <1>11

\* What Loads asks of the pointer, step by step.
LEMMA PointerStep ==
  ASSUME StreamTyped, PointerFollows, Next \/ UNCHANGED vars
  PROVE  PointerFollows'
<1>1. prog' = prog /\ prog \in ProgramType /\ Null \notin Blocks
  BY ProgramTyped, NullIsNoBlock
     DEF Next, Write, Close, ReadPrefix, ReadPrefixLost, Prepare, Load, LoadLost, LoadNull,
         LoadThrows, ConstructorThrows, Clear, Lost, vars, StreamTyped
<1>2. CASE Prepare
  <2>1. meta' = meta /\ meta.null \in BOOLEAN
    BY <1>2 DEF Prepare, StreamTyped, PrefixToken
  <2>2. CASE prog.read = "pointer" /\ prog.wants
    <3>1. DestructOrAlloc
      BY <1>2, <2>2 DEF Prepare
    <3>2. ptr' = Null <=> meta.null
      BY <1>1, <2>1, <3>1 DEF DestructOrAlloc, FreeBlocks
    <3>3. QED BY <1>1, <2>1, <2>2, <3>2 DEF PointerFollows
  <2>3. CASE prog.read = "pointer" /\ ~prog.wants
    <3>1. AllocConstructIfNull
      BY <1>2, <2>3 DEF Prepare
    <3>2. ptr' = Null <=> meta.null
      BY <1>1, <2>1, <3>1 DEF AllocConstructIfNull, FreeBlocks
    <3>3. QED BY <1>1, <2>1, <2>3, <3>2 DEF PointerFollows
  <2>4. CASE prog.read # "pointer"
    <3>1. prog.read = "place" => ptr' = ptr
      BY <1>2 DEF Prepare
    <3>2. QED BY <1>1, <2>4, <3>1 DEF PointerFollows
  <2>5. QED BY <1>1, <2>2, <2>3, <2>4 DEF ProgramType
<1>3. CASE Load
  <2>1. pc' = "prefix" /\ Stored
    BY <1>3 DEF Load
  <2>2. prog.read = "place" => ptr' = ptr
    BY <1>1, <2>1 DEF Stored, ProgramType
  <2>3. QED BY <1>1, <2>1, <2>2 DEF PointerFollows
<1>4. CASE \/ \E obj \in BOOLEAN : Write(obj)
           \/ Close \/ ReadPrefix \/ ReadPrefixLost \/ LoadLost \/ LoadNull \/ LoadThrows
           \/ ConstructorThrows
  <2>1. ptr' = ptr /\ pc' # "load"
    BY <1>4 DEF Write, Close, ReadPrefix, ReadPrefixLost, LoadLost, LoadNull, LoadThrows,
               ConstructorThrows, Lost
  <2>2. QED BY <1>1, <2>1 DEF PointerFollows
<1>5. CASE Clear \/ UNCHANGED vars
  BY <1>1, <1>5 DEF Clear, vars, PointerFollows
<1>6. QED BY <1>2, <1>3, <1>4, <1>5 DEF Next
\* Reading keeps to the cuts.
LEMMA ReadFollows ==
  ASSUME ReadInv, VersionFits(prog), Next \/ UNCHANGED vars,
         ~(\E obj \in BOOLEAN : Write(obj))
  PROVE  ReadInv'
<1>1. PICK cut \in [0 .. Len(sent) -> 0 .. Len(stream)] :
        Divides(cut) /\ (Carried => Follows(cut) /\ Delivered /\ pc # "lost")
  BY DEF ReadInv
<1>2. StreamTyped /\ PointerFollows
  BY DEF ReadInv
<1>3. prog' = prog /\ stream' = stream /\ sent' = sent
  BY DEF Next, Close, ReadPrefix, ReadPrefixLost, Prepare, Load, LoadLost, LoadNull,
         LoadThrows, ConstructorThrows, Clear, Lost, vars
<1>4. StreamTyped'
  <2>1. CASE ReadPrefix \/ Prepare \/ Load \/ LoadNull \/ Clear
    BY <1>2, <2>1, ReadTyped
  <2>2. CASE \/ Close \/ ReadPrefixLost \/ LoadLost \/ LoadThrows
             \/ ConstructorThrows \/ UNCHANGED vars
    BY <1>2, <2>2 DEF Close, ReadPrefixLost, LoadLost, LoadThrows, ConstructorThrows,
                           Lost, vars, StreamTyped
  <2>3. QED BY <2>1, <2>2 DEF Next
<1>5. PointerFollows'
  BY <1>2, PointerStep
<1>6. /\ Outer' = Outer /\ Behind' = Behind /\ Stamp' = Stamp /\ Meta' = Meta
      /\ Carried' = Carried
  BY <1>3 DEF Outer, Behind, Stamp, Meta, Versioned, Carried
<1>7. Divides(cut)'
  BY <1>1, <1>3, <1>6 DEF Divides, Stands, Prefix, Body
<1>8. ASSUME Carried
      PROVE  (Follows(cut) /\ Delivered /\ pc # "lost")'
  <2>1. Follows(cut) /\ Delivered /\ pc # "lost"
    BY <1>1, <1>8
  <2>2. Len(got) \in Nat /\ Len(sent) \in Nat /\ got \in Seq([obj : Nat, ver : Nat])
    BY <1>2 DEF StreamTyped
  <2>3. CASE Close
    BY <1>3, <1>6, <2>1, <2>3 DEF Close, Follows, Delivered
  <2>4. CASE ReadPrefix
    <3>1. /\ pos' = cut[Len(got)] + Outer /\ meta' = Prefix(~sent[Len(got) + 1], Stamp)
          /\ pc' = "prepare" /\ got' = got /\ Len(got) < Len(sent)
      BY <1>1, <1>2, <1>8, <2>1, <2>4, PrefixFollows DEF ReadPrefix
    <3>2. Prefix(~sent[Len(got) + 1], Stamp)' = Prefix(~sent[Len(got) + 1], Stamp)
      BY <1>3, <1>6, <3>1 DEF Prefix
    <3>3. QED BY <1>3, <1>6, <2>1, <3>1, <3>2 DEF Follows, Delivered
  <2>5. CASE ReadPrefixLost
    BY <1>1, <1>2, <1>8, <2>1, <2>5, PrefixFollows
  <2>6. CASE Prepare
    <3>1. pc = "prepare" /\ pc' = "load" /\ pos' = pos /\ meta' = meta /\ got' = got
      BY <2>6 DEF Prepare
    <3>2. /\ Len(got) < Len(sent) /\ pos = cut[Len(got)] + Outer
          /\ meta = Prefix(~sent[Len(got) + 1], Stamp)
      BY <2>1, <3>1 DEF Follows
    <3>3. Prefix(~sent[Len(got) + 1], Stamp)' = Prefix(~sent[Len(got) + 1], Stamp)
      BY <1>3, <1>6, <3>1 DEF Prefix
    <3>4. QED BY <1>3, <1>6, <2>1, <3>1, <3>2, <3>3 DEF Follows, Delivered
  <2>7. CASE Load \/ LoadNull
    <3>1. pc = "load" /\ pc' = "prefix" /\ Len(got) < Len(sent)
      BY <2>1, <2>7 DEF Load, LoadNull, Follows
    <3>2. PICK i : i = Len(got) + 1
      OBVIOUS
    <3>3. /\ i \in 1 .. Len(sent) /\ sent[i] \in BOOLEAN
          /\ Loads <=> sent[i]
          /\ Load => pos' = cut[i] /\ got' = Append(got, [obj |-> i, ver |-> Meta])
          /\ ~sent[i] => pos = cut[i]
      BY <1>1, <1>2, <1>8, <2>1, <3>1, <3>2, LoadFollows
    <3>4. PICK r \in [obj : Nat, ver : Nat] :
            /\ got' = Append(got, r) /\ pos' = cut[i]
            /\ r.obj = IF sent[i] THEN i ELSE Null
            /\ sent[i] => r.ver = Meta
      <4>1. CASE Load
        <5>1. Loads
          BY <4>1 DEF Load
        <5>2. [obj |-> i, ver |-> Meta] \in [obj : Nat, ver : Nat]
          BY <1>2, <2>2, <3>2, MetaNat DEF StreamTyped
        <5>3. QED BY <3>3, <4>1, <5>1, <5>2
      <4>2. CASE LoadNull
        <5>1. ~Loads /\ got' = Append(got, [obj |-> Null, ver |-> meta.ver]) /\ pos' = pos
          BY <4>2 DEF LoadNull
        <5>2. [obj |-> Null, ver |-> meta.ver] \in [obj : Nat, ver : Nat]
          BY <1>2 DEF StreamTyped, PrefixToken, Null
        <5>3. QED BY <3>3, <5>1, <5>2
      <4>3. QED BY <2>7, <4>1, <4>2
    <3>5. /\ Len(got') = i /\ got'[i] = r /\ DOMAIN got' = 1 .. i /\ DOMAIN got = 1 .. Len(got)
          /\ \A k \in 1 .. Len(got) : got'[k] = got[k]
      BY <2>2, <3>2, <3>4
    <3>6. Follows(cut)'
      BY <1>3, <2>2, <3>1, <3>2, <3>3, <3>4, <3>5 DEF Follows
    <3>7. ASSUME NEW k \in 1 .. i
          PROVE  /\ got'[k].obj = IF sent[k] THEN k ELSE Null
                 /\ sent[k] => got'[k].ver = Meta
      <4>1. CASE k = i
        BY <3>4, <3>5, <4>1
      <4>2. CASE k \in 1 .. Len(got)
        BY <2>1, <3>5, <4>2 DEF Delivered
      <4>3. QED BY <2>2, <3>2, <4>1, <4>2
    <3>8. Delivered'
      BY <1>3, <1>6, <3>5, <3>7 DEF Delivered
    <3>9. QED BY <3>1, <3>6, <3>8
  <2>8. CASE LoadLost
    <3>1. pc = "load"
      BY <2>8 DEF LoadLost
    <3>2. PICK i : i = Len(got) + 1
      OBVIOUS
    <3>3. QED BY <1>1, <1>2, <1>8, <2>1, <2>8, <3>1, <3>2, LoadFollows
  <2>9. CASE LoadThrows \/ ConstructorThrows
    BY <1>3, <1>6, <2>1, <2>9 DEF LoadThrows, ConstructorThrows, Follows, Delivered
  <2>10. CASE Clear \/ UNCHANGED vars
    <3>1. UNCHANGED <<pos, meta, pc, got>>
      BY <2>10 DEF Clear, vars
    <3>2. Len(got) < Len(sent) =>
            Prefix(~sent[Len(got) + 1], Stamp)' = Prefix(~sent[Len(got) + 1], Stamp)
      BY <1>3, <1>6, <3>1 DEF Prefix
    <3>3. QED BY <1>3, <1>6, <2>1, <3>1, <3>2 DEF Follows, Delivered
  <2>11. QED BY <2>3, <2>4, <2>5, <2>6, <2>7, <2>8, <2>9, <2>10 DEF Next
<1>9. cut \in [0 .. Len(sent') -> 0 .. Len(stream')]
  BY <1>3
<1>10. QED BY <1>4, <1>5, <1>6, <1>7, <1>8, <1>9 DEF ReadInv

\* A loader gets the objects that were written, in their order, null where null
\* was written, with the version of their class, and is never lost in the
\* stream: for every set of programs whose constructs have the wrapper's
\* version, whatever their deallocators, and any number of objects.
THEOREM ObjectsReadAsWritten ==
  ASSUME \A p \in Programs : VersionFits(p)
  PROVE  Spec => []ReadsWhatWasWritten
<1>1. Init => ReadInv
  <2> SUFFICES ASSUME Init PROVE ReadInv
    OBVIOUS
  <2>1. prog \in ProgramType /\ prog \in Programs
    BY ProgramTyped DEF Init
  <2>2. StreamTyped
    BY <2>1 DEF Init, StreamTyped, Prefix, PrefixToken
  <2>3. PointerFollows
    BY <2>1 DEF Init, PointerFollows, Null
  <2>4. /\ sent = <<>> /\ stream = <<>> /\ got = <<>> /\ pos = 0 /\ pc = "write"
        /\ Len(sent) = 0 /\ Len(stream) = 0 /\ Len(got) = 0
    BY DEF Init
  <2>5. PICK cut : cut = [k \in 0 .. 0 |-> 0]
    OBVIOUS
  <2>6. cut \in [0 .. Len(sent) -> 0 .. Len(stream)] /\ cut[0] = 0
    BY <2>4, <2>5
  <2>7. Divides(cut)
    BY <2>4, <2>6 DEF Divides
  <2>8. Follows(cut) /\ Delivered /\ pc # "lost"
    BY <2>4, <2>6 DEF Follows, Delivered
  <2>9. QED BY <2>2, <2>3, <2>6, <2>7, <2>8 DEF ReadInv
<1>2. ReadInv /\ [Next]_vars => ReadInv'
  <2> SUFFICES ASSUME ReadInv, [Next]_vars PROVE ReadInv'
    OBVIOUS
  <2>1. VersionFits(prog)
    BY DEF ReadInv, StreamTyped
  <2>2. CASE \E obj \in BOOLEAN : Write(obj)
    BY <2>2, WriteDivides
  <2>3. CASE ~(\E obj \in BOOLEAN : Write(obj))
    BY <2>1, <2>3, ReadFollows
  <2>4. QED BY <2>2, <2>3
<1>3. ReadInv => ReadsWhatWasWritten
  <2> SUFFICES ASSUME ReadInv, Carried
               PROVE  /\ pc # "lost" /\ Delivered
                      /\ pc = "prefix" /\ Len(got) = Len(sent) => pos = Len(stream)
    BY DEF ReadsWhatWasWritten, Delivered
  <2>1. PICK cut \in [0 .. Len(sent) -> 0 .. Len(stream)] :
          Divides(cut) /\ Follows(cut) /\ Delivered /\ pc # "lost"
    BY DEF ReadInv
  <2>2. QED BY <2>1 DEF Divides, Follows
<1>4. QED BY <1>1, <1>2, <1>3, PTL DEF Spec
=============================================================================
