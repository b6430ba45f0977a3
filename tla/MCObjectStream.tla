--------------------------- MODULE MCObjectStream ---------------------------
(***************************************************************************)
(* Instances of ObjectStream for TLC: the ways the tests and the README    *)
(* use classes, each over every sequence of objects and null pointers.     *)
(***************************************************************************)
EXTENDS ObjectStream

Program(wants, ver, write, read, dealloc, nulls) ==
  [wants |-> wants, version |-> ver, write |-> write, read |-> read,
   dealloc |-> dealloc, nulls |-> nulls]

\* X* with serialize; alloc with an allocator that deletes.
Plain == {Program(FALSE, v, "pointer", "pointer", "delete", TRUE) : v \in {NoVersion, 0, 1}}
\* alloc with malloc and free, and alloc without a deallocator.
UserAllocated == {Program(TRUE, v, "pointer", "pointer", d, TRUE) :
                 v \in {NoVersion, 1}, d \in {"free", "none"}}
\* Written through a pointer, read by construct with a deleter.
Emplaced == {Program(TRUE, v, "pointer", "construct", "delete", TRUE) : v \in {NoVersion, 1}}
\* Written and read by construct, for a class whose version is zero.
Constructed == {Program(TRUE, v, "construct", "construct", "delete", TRUE) : v \in {NoVersion, 0}}
\* An object in place, never null.
Placed == {Program(w, 1, "pointer", "place", "none", FALSE) : w \in BOOLEAN}
\* Values, and the elements of a vector that emplaces them.
Values == {Program(FALSE, v, "value", "value", "none", FALSE) : v \in {NoVersion, 1}}
            \cup {Program(TRUE, 1, "value", "pure", "none", FALSE)}

\* What the format does not carry: null for a placed object that is not
\* constructed, and values without a version read by a pure construct.
Uncarried == {Program(FALSE, 1, "pointer", "place", "none", TRUE),
              Program(TRUE, NoVersion, "value", "pure", "none", FALSE)}

Sound == Plain \cup UserAllocated \cup Emplaced \cup Constructed \cup Placed \cup Values \cup Uncarried

\* T* for a class that wants construction: delete is the deallocator.
DefaultPointer == {Program(TRUE, 1, "pointer", "pointer", "delete", TRUE)}
\* construct for a class with a version.
VersionedConstruct == {Program(TRUE, 1, "construct", "construct", "delete", TRUE)}
=============================================================================
