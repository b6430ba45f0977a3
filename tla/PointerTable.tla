---------------------------- MODULE PointerTable ----------------------------
(***************************************************************************)
(* archive_pointer_support (archive.hpp): the table by which an archive    *)
(* gives pointers ids and finds pointers by id, so that an object with     *)
(* several pointers to it can be written once.  Two archives are modelled, *)
(* the one that writes and the one that reads: what is said of the table   *)
(* alone matters only if the reader ends up with the same sharing.         *)
(*                                                                         *)
(* A definition marked "Slip" is not part of the model: it is a mistake    *)
(* that could be made in the definition after it, kept to test that the    *)
(* properties notice it.                                                   *)
(***************************************************************************)
EXTENDS Integers, FiniteSets, Sequences

CONSTANTS
  Objects,   \* what the writer's pointers point to
  Copies,    \* the objects the reader can make
  Null,      \* nullptr
  MaxSent    \* how many pointers are written

ASSUME PointerAssumption == Null \notin Objects /\ Null \notin Copies /\ MaxSent \in Nat

VARIABLES
  w, r,     \* the tables: [ids, ptrs] are m_ptrtoid and m_idtoptr
  sent,     \* the pointers written: [obj, id]
  got       \* the pointers read

vars == <<w, r, sent, got>>

-----------------------------------------------------------------------------
(* The table.                                                              *)

\* unordered_map::insert keeps what is there.
Insert(m, k, v) ==
  IF k \in DOMAIN m THEN m
  ELSE [x \in DOMAIN m \cup {k} |-> IF x = k THEN v ELSE m[x]]

\* Slip: ids are counted from zero.
NextIdFromZero(t) == Cardinality(DOMAIN t.ids)
\* The id reg_ptr gives to a new pointer.
NextId(t) == Cardinality(DOMAIN t.ids) + 1

LookupId(t, p)   == IF p \in DOMAIN t.ids THEN t.ids[p] ELSE 0
LookupPtr(t, id) == IF id \in DOMAIN t.ptrs THEN t.ptrs[id] ELSE Null

RegPtr(t, p) ==
  IF p \in DOMAIN t.ids THEN t
  ELSE [ids |-> Insert(t.ids, p, NextId(t)), ptrs |-> Insert(t.ptrs, NextId(t), p)]

\* Slip: the table is filled in one direction.
RestoreOneWay(t, id, p) == [ids |-> Insert(t.ids, p, id), ptrs |-> t.ptrs]
RestorePtr(t, id, p) ==
  [ids |-> Insert(t.ids, p, id), ptrs |-> Insert(t.ptrs, id, p)]

-----------------------------------------------------------------------------
(* The archives.                                                           *)

\* A pointer is registered, which need not mean that it is written.
Register(p) ==
  /\ w' = RegPtr(w, p)
  /\ UNCHANGED <<r, sent, got>>

Send(p) ==
  /\ Len(sent) < MaxSent
  /\ w' = RegPtr(w, p)
  /\ sent' = Append(sent, [obj |-> p, id |-> LookupId(w', p)])
  /\ UNCHANGED <<r, got>>

NextSent == sent[Len(got) + 1].id

\* An id that is known stands for the object it was restored for.
ReceiveKnown ==
  /\ Len(got) < Len(sent)
  /\ LookupPtr(r, NextSent) # Null
  /\ got' = Append(got, LookupPtr(r, NextSent))
  /\ UNCHANGED <<w, r, sent>>

\* Another one comes with an object, which gets memory of its own.
ReceiveNew(c) ==
  /\ Len(got) < Len(sent)
  /\ LookupPtr(r, NextSent) = Null
  /\ LookupId(r, c) = 0
  /\ r' = RestorePtr(r, NextSent, c)
  /\ got' = Append(got, c)
  /\ UNCHANGED <<w, sent>>

Empty == [ids |-> <<>>, ptrs |-> <<>>]

Init == w = Empty /\ r = Empty /\ sent = <<>> /\ got = <<>>

Next ==
  \/ \E p \in Objects : Register(p) \/ Send(p)
  \/ ReceiveKnown
  \/ \E c \in Copies : ReceiveNew(c)

Spec == Init /\ [][Next]_vars

-----------------------------------------------------------------------------
(* Properties.                                                             *)

\* The two maps of a table are each other's inverse.
OneToOne(t) ==
  /\ \A p \in DOMAIN t.ids : t.ids[p] \in DOMAIN t.ptrs /\ t.ptrs[t.ids[p]] = p
  /\ \A id \in DOMAIN t.ptrs : t.ptrs[id] \in DOMAIN t.ids /\ t.ids[t.ptrs[id]] = id

\* Whatever is registered, written and read in whatever order, both tables stay
\* one-to-one, and the writer's ids are 1, 2, ... without a gap: zero, which
\* lookup_id gives for "not there", is nobody's id.
TablesSound ==
  /\ DOMAIN w.ids \subseteq Objects /\ DOMAIN r.ids \subseteq Copies
  /\ OneToOne(w) /\ OneToOne(r)
  /\ DOMAIN w.ptrs = 1 .. Cardinality(DOMAIN w.ids)
  /\ DOMAIN r.ptrs \subseteq DOMAIN w.ptrs

\* Two pointers that were read are the same exactly if they were the same when
\* they were written: shared objects stay shared, others do not become so.
SameSharing ==
  \A i, j \in DOMAIN got : got[i] = got[j] <=> sent[i].obj = sent[j].obj
=============================================================================
