-------------------------------- MODULE Blit --------------------------------
(***************************************************************************)
(* The blit serialization of pulmotor (blit.hpp, blit.cpp): the objects    *)
(* that can be reached from a root are gathered, copied into one block of  *)
(* memory, and their pointers replaced by offsets in it; a program loads   *)
(* the block as it is and adds the address of the block to each pointer.   *)
(* The code recurses; the model holds its call stack in "todo", one action *)
(* is what one call does between two calls it makes.                       *)
(*                                                                         *)
(* A byte of the block is represented by the address it was copied from.   *)
(*                                                                         *)
(* A definition marked "Slip" is not part of the model: it is a mistake    *)
(* that could be made in the definition after it, kept to test that the    *)
(* properties notice it.                                                   *)
(***************************************************************************)
EXTENDS Integers, SequencesExt, Binary

CONSTANTS
  Types,        \* the types of C++, see TypeAssumption
  Programs,     \* what is blitted: [type, addr] of the root, [heap] all values
                \* in memory, [memory] what the pointers among them hold, by
                \* address, [big]: the target is big-endian
  ObjectAlign,  \* the alignment of every class_info, whatever the class's own is: 4
  SizeBits,     \* bits of size_t, and bound on the length of the block
  Base,         \* where the block is loaded
  MaxDepth      \* bound on the call stack

Null == 0
Pad  == -1

Cat(t)  == Types[t].cat
Size(t) == Types[t].size

\* How many elements a field has, and the values that n elements of a type are.
Count(f) == IF f.n = 0 THEN 1 ELSE f.n
Values(t, p, n) == {[type |-> t, addr |-> p + i * Size(t)] : i \in 0 .. n - 1}
Apart(p, m, q, n) == p + m <= q \/ q + n <= p

\* A type has a category and a size; a class has fields (of n elements in an
\* array, 0 if it is none), which lie in it; a pointer refers to n objects of a
\* type.  A pointer to no objects is not modelled: it registers an object for
\* every pointer to the same address.
ASSUME TypeAssumption ==
  /\ \A t \in DOMAIN Types :
       /\ Types[t].cat \in {"number", "pointer", "class"} /\ Types[t].size \in Nat \ {0}
       /\ Types[t].cat = "pointer" =>
            Types[t].to \in DOMAIN Types /\ Types[t].n \in Nat \ {0} /\ Size(t) = Size("pointer")
       /\ Types[t].fields \in Seq([type : DOMAIN Types, off : Nat, n : Nat])
       /\ \A i \in DOMAIN Types[t].fields :
            LET f == Types[t].fields[i] IN f.off + Count(f) * Size(f.type) <= Size(t)
  /\ "pointer" \in DOMAIN Types /\ Cat("pointer") = "pointer"
  /\ Base \in Nat /\ MaxDepth \in Nat

ASSUME AlignAssumption ==
  SizeBits \in Nat /\ Doubling(SizeBits) /\ ObjectAlign \in {2^k : k \in 0 .. SizeBits}

\* The memory of a program holds what its types say, and no two numbers or pointers
\* share a byte of it.
ASSUME ProgramAssumption ==
  \A pr \in Programs :
    /\ [type |-> pr.type, addr |-> pr.addr] \in pr.heap /\ pr.big \in BOOLEAN
    /\ DOMAIN pr.memory = {x.addr : x \in {y \in pr.heap : Cat(y.type) = "pointer"}}
    /\ \A x \in pr.heap :
         /\ x.type \in DOMAIN Types /\ x.addr \in Nat \ {Null}
         /\ Cat(x.type) = "class" => \A i \in DOMAIN Types[x.type].fields :
              LET f == Types[x.type].fields[i] IN
              Values(f.type, x.addr + f.off, Count(f)) \subseteq pr.heap
         /\ Cat(x.type) = "pointer" =>
              /\ pr.memory[x.addr] \in Nat
              /\ pr.memory[x.addr] # Null =>
                   Values(Types[x.type].to, pr.memory[x.addr], Types[x.type].n) \subseteq pr.heap
    /\ \A x, y \in pr.heap : Cat(x.type) # "class" /\ Cat(y.type) # "class" /\ x # y =>
         Apart(x.addr, Size(x.type), y.addr, Size(y.type))

VARIABLES
  prog,
  infos,    \* class_infos_: [members, complete] of each type
  objects,  \* objects_: [type, addr, n]
  parents,  \* type_parents_: [type, addr, size, array]
  todo,     \* the calls to make, the innermost first
  buffer,   \* the bytes of the block
  placed,   \* file_offsets: where the objects written begin
  refs,     \* ptr_refs: [at, to], offsets in the block
  slots,    \* the pointers that have been set in the block
  pc

gathered == <<infos, objects, parents>>
written  == <<buffer, placed, refs>>
vars == <<prog, gathered, todo, written, slots, pc>>

Extent(o) == o.n * Size(o.type)
Holds(o, p) == p >= o.addr /\ p < o.addr + Extent(o)

\* The calls.
BlitOf(t, p) == [do |-> "blit", type |-> t, addr |-> p]
AreaOf(t, p, n) == [do |-> "area", type |-> t, addr |-> p, n |-> n]
EndOf(t) == [do |-> "end", type |-> t]
ObjectOf(o) == [do |-> "object", obj |-> o]
MembersOf(t, at) == [do |-> "members", type |-> t, at |-> at]
PointersOf(at, n) == [do |-> "pointers", at |-> at, n |-> n]
FollowOf(at) == [do |-> "follow", at |-> at]
SwapOf(t, at, n) == [do |-> "swap", type |-> t, at |-> at, n |-> n]
RefOf(at, o, delta) == [do |-> "ref", at |-> at, obj |-> o, delta |-> delta]

Call == Head(todo)
Doing(what) == todo # <<>> /\ Call.do = what

-----------------------------------------------------------------------------
(* Gathering: begin_area, end_area and the blit_impl functions.            *)

Inside(p) == parents # <<>> /\ LET top == Last(parents)
                               IN p >= top.addr /\ p < top.addr + top.size

\* Whether begin_area records a member of type t in the class around it.
Records(t) == LET top == Last(parents) IN
  ~infos[top.type].complete /\ ~top.array /\ Cat(top.type) = "class" /\ top.type # t

\* add_member.
Recorded(t, p, n) ==
  LET top == Last(parents)
      m == [type |-> t, off |-> p - top.addr, n |-> n]
      known == infos[top.type].members
  IN [infos EXCEPT ![top.type].members =
        IF m \in ToSet(known) THEN known ELSE Append(known, m)]

BeginArea(t, p, n, array) ==
  /\ infos' = IF Inside(p) /\ Records(t) THEN Recorded(t, p, n) ELSE infos
  /\ objects' = IF Inside(p) THEN objects
                ELSE objects \cup {[type |-> t, addr |-> p, n |-> n]}
  /\ parents' = Append(parents, [type |-> t, addr |-> p, size |-> n * Size(t), array |-> array])

\* lower_bound: the first object that begins at p or behind it.
Behind(objs, p) == {o \in objs : o.addr >= p}
Lowest(objs) == CHOOSE o \in objs : \A x \in objs : o.addr <= x.addr
\* Slip: objects are registered again.
RegisteredNever(objs, p) == FALSE
Registered(objs, p) == Behind(objs, p) # {} /\ Holds(Lowest(Behind(objs, p)), p)

\* What is blitted inside an object of type t, after its area has begun.
FieldOf(f, p) == IF f.n = 0 THEN BlitOf(f.type, p + f.off) ELSE AreaOf(f.type, p + f.off, f.n)
Parts(t, p) ==
  CASE Cat(t) = "number" -> <<>>
    [] Cat(t) = "class" -> [i \in DOMAIN Types[t].fields |-> FieldOf(Types[t].fields[i], p)]
    [] Cat(t) = "pointer" ->
         IF prog.memory[p] = Null \/ Registered(objects', prog.memory[p]) THEN <<>>
         ELSE <<AreaOf(Types[t].to, prog.memory[p], Types[t].n)>>

Blit ==
  /\ pc = "gather" /\ Doing("blit") /\ Len(todo) < MaxDepth
  /\ BeginArea(Call.type, Call.addr, 1, FALSE)
  /\ todo' = Parts(Call.type, Call.addr) \o <<EndOf(Call.type)>> \o Tail(todo)
  /\ UNCHANGED <<prog, written, slots, pc>>

\* An array, or what a pointer refers to.
BlitArea ==
  /\ pc = "gather" /\ Doing("area") /\ Len(todo) < MaxDepth
  /\ BeginArea(Call.type, Call.addr, Call.n, TRUE)
  /\ todo' = [i \in 1 .. Call.n |-> BlitOf(Call.type, Call.addr + (i - 1) * Size(Call.type))]
               \o <<EndOf(Call.type)>> \o Tail(todo)
  /\ UNCHANGED <<prog, written, slots, pc>>

\* Slip: whatever is around an area is complete when the area ends.
AroundAlways(ps) == IF ps = <<>> THEN {} ELSE {Last(ps).type}
\* end_area completes the element type of an array around it.
Around(ps) == IF ps # <<>> /\ Last(ps).array THEN {Last(ps).type} ELSE {}

EndArea ==
  /\ pc = "gather" /\ Doing("end")
  /\ parents' = Front(parents)
  /\ infos' = [t \in DOMAIN infos |->
                 IF t \in Around(parents') \cup {Call.type}
                 THEN [infos[t] EXCEPT !.complete = TRUE] ELSE infos[t]]
  /\ todo' = Tail(todo)
  /\ UNCHANGED <<prog, objects, written, slots, pc>>

-----------------------------------------------------------------------------
(* Writing: write_out_object, process_object and process_members.          *)

WriteOut ==
  /\ pc = "gather" /\ todo = <<>>
  /\ todo' = <<ObjectOf([type |-> prog.type, addr |-> prog.addr, n |-> 1])>>
  /\ pc' = "write"
  /\ UNCHANGED <<prog, gathered, written, slots>>

\* Slip: the alignment itself is taken for the mask of its lower bits.
AlignOnWhole(n) == (Or((n - 1) % 2^SizeBits, ObjectAlign, SizeBits) + 1) % 2^SizeBits
\* align_on, in size_t: of an empty block it or-s into all ones, and wraps to zero.
AlignOn(n) == (Or((n - 1) % 2^SizeBits, ObjectAlign - 1, SizeBits) + 1) % 2^SizeBits

\* Memory is not exhausted by the block.
Fits(o) == Len(buffer) + ObjectAlign + Extent(o) <= 2^SizeBits

\* process_object.
Contents(o, at) ==
  CASE Cat(o.type) = "pointer" -> <<PointersOf(at, o.n)>>
    [] Cat(o.type) = "class" -> [i \in 1 .. o.n |-> MembersOf(o.type, at + (i - 1) * Size(o.type))]
    [] Cat(o.type) = "number" -> <<SwapOf(o.type, at, o.n)>>

\* Slip: it is not asked whether the object has been written.
WrittenNever(o) == FALSE
Written(o) == o \in DOMAIN placed

WriteObject ==
  LET o == Call.obj
      at == AlignOn(Len(buffer))
  IN
  /\ pc = "write" /\ Doing("object") /\ Len(todo) < MaxDepth
  /\ \/ /\ Written(o) /\ todo' = Tail(todo) /\ UNCHANGED written
     \/ /\ ~Written(o) /\ Fits(o)
        /\ placed' = [x \in DOMAIN placed \cup {o} |-> IF x = o THEN at ELSE placed[x]]
        /\ buffer' = buffer \o [i \in 1 .. at - Len(buffer) |-> Pad]
                            \o [i \in 1 .. Extent(o) |-> o.addr + i - 1]
        /\ todo' = Contents(o, at) \o Tail(todo)
        /\ UNCHANGED refs
  /\ UNCHANGED <<prog, gathered, slots, pc>>

\* fetch_pointer, find_object_at and local_offset.
Fetched(at) == prog.memory[buffer[at + 1]]
Found(p) == p # Null /\ Registered(objects, p)
Target(p) == Lowest(Behind(objects, p))
\* Slip: the address is taken for an offset.
AddressOffset(o, p) == p
LocalOffset(o, p) == p - o.addr

\* An object that is an array of pointers: the loop ends at the first null.
Pointers ==
  LET p == Fetched(Call.at) IN
  /\ pc = "write" /\ Doing("pointers") /\ Len(todo) < MaxDepth
  /\ \/ /\ Call.n = 0
        /\ todo' = Tail(todo)
     \/ /\ Call.n > 0 /\ ~Found(p)
        /\ todo' = Tail(todo)
     \/ /\ Call.n > 0 /\ Found(p)
        /\ todo' = <<ObjectOf(Target(p)), RefOf(Call.at, Target(p), 0),
                     PointersOf(Call.at + Size("pointer"), Call.n - 1)>> \o Tail(todo)
  /\ UNCHANGED <<prog, gathered, written, slots, pc>>

\* The elements of a member m of an object at offset at.  An array of numbers
\* is swapped as a whole, once for each of its elements.
MemberCalls(m, at) ==
  [i \in 1 .. m.n |->
     LET here == at + m.off + (i - 1) * Size(m.type) IN
     CASE Cat(m.type) = "class"   -> MembersOf(m.type, here)
       [] Cat(m.type) = "pointer" -> FollowOf(here)
       [] Cat(m.type) = "number"  -> SwapOf(m.type, at + m.off, m.n)]

Members ==
  /\ pc = "write" /\ Doing("members") /\ Len(todo) < MaxDepth
  /\ todo' = LET ms == infos[Call.type].members IN
             FlattenSeq([i \in DOMAIN ms |-> MemberCalls(ms[i], Call.at)]) \o Tail(todo)
  /\ UNCHANGED <<prog, gathered, written, slots, pc>>

Follow ==
  LET p == Fetched(Call.at) IN
  /\ pc = "write" /\ Doing("follow") /\ Len(todo) < MaxDepth
  /\ todo' = (IF Found(p) THEN <<ObjectOf(Target(p)),
                                 RefOf(Call.at, Target(p), LocalOffset(Target(p), p))>>
              ELSE <<>>) \o Tail(todo)
  /\ UNCHANGED <<prog, gathered, written, slots, pc>>

\* Slip: the elements are swapped with each other.
ReversedWhole(at, size, n, k) == at + (at + size * n - 1 - k)
\* Where the byte at offset k comes from when n elements of a size, from at on,
\* are swapped.
Reversed(at, size, n, k) == LET r == (k - at) % size IN k - r + (size - 1 - r)

Swap ==
  LET size == Size(Call.type)
      swapped == Call.at .. Call.at + Call.n * size - 1
  IN
  /\ pc = "write" /\ Doing("swap")
  /\ buffer' = IF ~prog.big THEN buffer
               ELSE [k \in DOMAIN buffer |->
                       IF k - 1 \in swapped
                       THEN buffer[Reversed(Call.at, size, Call.n, k - 1) + 1] ELSE buffer[k]]
  /\ todo' = Tail(todo)
  /\ UNCHANGED <<prog, gathered, placed, refs, slots, pc>>

\* The call of write_out_object has returned.
Refer ==
  /\ pc = "write" /\ Doing("ref")
  /\ refs' = Append(refs, [at |-> Call.at, to |-> placed[Call.obj] + Call.delta])
  /\ todo' = Tail(todo)
  /\ UNCHANGED <<prog, gathered, buffer, placed, slots, pc>>

\* set_offsets: the last of the references from a place is what it holds.
Offsets ==
  [at \in {refs[i].at : i \in DOMAIN refs} |->
     refs[CHOOSE i \in DOMAIN refs :
            refs[i].at = at /\ \A j \in DOMAIN refs : refs[j].at = at => j <= i].to]

\* The block goes to the file, with the places of the pointers.
SetOffsets ==
  /\ pc = "write" /\ todo = <<>>
  /\ slots' = Offsets
  /\ pc' = "written"
  /\ UNCHANGED <<prog, gathered, todo, written>>

\* fixup_pointers, on a machine that has the byte order of the block.
Fixup ==
  /\ pc = "written" /\ ~prog.big
  /\ slots' = [at \in DOMAIN slots |->
                 slots[at] + Base * Cardinality({i \in DOMAIN refs : refs[i].at = at})]
  /\ pc' = "loaded"
  /\ UNCHANGED <<prog, gathered, todo, written>>

-----------------------------------------------------------------------------
Init ==
  /\ prog \in Programs
  /\ infos = [t \in DOMAIN Types |-> [members |-> <<>>, complete |-> FALSE]]
  /\ objects = {} /\ parents = <<>>
  /\ todo = <<BlitOf(prog.type, prog.addr)>>
  /\ buffer = <<>> /\ placed = <<>> /\ refs = <<>> /\ slots = <<>>
  /\ pc = "gather"

Next ==
  \/ Blit \/ BlitArea \/ EndArea
  \/ WriteOut \/ WriteObject \/ Pointers \/ Members \/ Follow \/ Swap \/ Refer
  \/ SetOffsets \/ Fixup

Spec == Init /\ [][Next]_vars
\* The calls run to their end on the thread that makes them.
FairSpec == Spec /\ WF_vars(Next)

-----------------------------------------------------------------------------
(* Properties.                                                             *)

\* The state of gathering and writing; pointers are set inside the block, and
\* lead into it.
TypeOK ==
  /\ prog \in Programs /\ pc \in {"gather", "write", "written", "loaded"}
  /\ DOMAIN infos = DOMAIN Types
  /\ \A t \in DOMAIN Types : \A m \in ToSet(infos[t].members) :
       m.type \in DOMAIN Types /\ m.off \in 0 .. Size(t) - 1
  /\ \A o \in objects : o.type \in DOMAIN Types /\ o.addr \in Nat /\ o.n \in Nat
  /\ DOMAIN placed \subseteq objects
  /\ \A r \in ToSet(refs) : r.at \in 0 .. Len(buffer) - 1 /\ r.to \in 0 .. Len(buffer) - 1
  /\ \A at \in DOMAIN slots : slots[at] \in Nat

\* What the pointer at offset at holds now.
Pointer(at, source) == IF at \in DOMAIN slots THEN slots[at] ELSE prog.memory[source]

\* A pointer behind a null one in an array of pointers is not followed.
BehindNull(o, s) ==
  /\ Cat(o.type) = "pointer"
  /\ \E q \in o.addr .. s - 1 : q \in DOMAIN prog.memory /\ prog.memory[q] = Null

\* However the objects refer to each other, each pointer of a loaded block leads
\* to the copy of what it referred to, and null pointers are null; the root
\* is at the begin of the block.
PointersFollowed ==
  pc \in {"written", "loaded"} =>
    /\ placed[[type |-> prog.type, addr |-> prog.addr, n |-> 1]] = 0
    /\ \A o \in DOMAIN placed : \A s \in DOMAIN prog.memory :
         Holds(o, s) /\ ~BehindNull(o, s) =>
           LET p == prog.memory[s]
               now == Pointer(placed[o] + s - o.addr, s)
           IN IF p = Null THEN now = Null
              ELSE \E x \in DOMAIN placed :
                     /\ Holds(x, p)
                     /\ now = placed[x] + p - x.addr + IF pc = "loaded" THEN Base ELSE 0

\* Where objects may begin: what is referred to, by the program or by a pointer.
Referred == {prog.addr} \cup {prog.memory[s] : s \in DOMAIN prog.memory}

\* A pointer into the middle of an object is not recognised, and what it leads to
\* becomes an object of its own; so does an object that the root lies in.
NoPointerInside ==
  \A o \in objects : \A p \in Referred : Holds(o, p) => p = o.addr

\* Nothing is copied twice, so what is shared in memory is shared in the block.
CopiedOnce ==
  NoPointerInside =>
    \A i, j \in DOMAIN buffer : buffer[i] = buffer[j] /\ buffer[i] # Pad => i = j

\* An array of numbers in a class is swapped once for each of its elements, so
\* when it has an even number of them it is left as it was.
SwappedBack(o, a) ==
  \E m \in ToSet(infos[o.type].members) :
    /\ Cat(m.type) = "number" /\ m.n % 2 = 0
    /\ \E i \in 0 .. o.n - 1 :
         a \in LET first == o.addr + i * Size(o.type) + m.off IN first .. first + m.n * Size(m.type) - 1

\* In the block every number has the byte order of the target.
NumbersCopied ==
  pc = "written" =>
    \A o \in DOMAIN placed : \A x \in prog.heap :
      Cat(x.type) = "number" /\ Holds(o, x.addr) /\ ~SwappedBack(o, x.addr) =>
        LET size == Size(x.type) IN
        \A k \in 0 .. size - 1 :
          buffer[placed[o] + (x.addr - o.addr) + k + 1] =
            x.addr + IF prog.big THEN size - 1 - k ELSE k

\* Every object in the block begins at a multiple of the alignment that class_info
\* gives every class.  That is not the alignment of the type: a class that needs more
\* may be misplaced.
CopiesAligned == \A o \in DOMAIN placed : placed[o] % ObjectAlign = 0

\* A pointer to its own place, as an empty ring's head in a larger class has: the area
\* it refers to is taken for a part of the pointer, becomes no object, and is
\* followed again without end.
EmptyRing ==
  \E s \in DOMAIN prog.memory :
    prog.memory[s] = s /\ \E x \in prog.heap : x.addr < s /\ s < x.addr + Size(x.type)

\* Blitting ends, whichever other cycles the pointers make.
BlitEnds == ~EmptyRing => <>(pc = IF prog.big THEN "written" ELSE "loaded")
=============================================================================
