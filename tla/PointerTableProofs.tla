------------------------- MODULE PointerTableProofs -------------------------
(***************************************************************************)
(* Theorems about PointerTable, for any objects of the writer and of the   *)
(* reader, and for any number of pointers: the tables stay one-to-one, and *)
(* what is read shares objects exactly as what was written did.            *)
(***************************************************************************)
EXTENDS PointerTable, FiniteSetTheorems, TLAPS

-----------------------------------------------------------------------------
(* The operations of a table.                                              *)

\* A table in which pointers are only registered.
Registering(t) ==
  /\ IsFiniteSet(DOMAIN t.ids) /\ DOMAIN t.ids \subseteq Objects
  /\ OneToOne(t)
  /\ DOMAIN t.ptrs = 1 .. Cardinality(DOMAIN t.ids)

\* reg_ptr keeps the ids that are given, gives the pointer one, and leaves no
\* gap: the id of a new pointer is one that no pointer has.
LEMMA RegPtrKeeps ==
  ASSUME NEW t, NEW p \in Objects, Registering(t)
  PROVE  /\ Registering(RegPtr(t, p))
         /\ p \in DOMAIN RegPtr(t, p).ids
         /\ \A q \in DOMAIN t.ids : /\ q \in DOMAIN RegPtr(t, p).ids
                                    /\ RegPtr(t, p).ids[q] = t.ids[q]
         /\ DOMAIN t.ptrs \subseteq DOMAIN RegPtr(t, p).ptrs
<1>1. CASE p \in DOMAIN t.ids
  BY <1>1 DEF RegPtr
<1>2. CASE p \notin DOMAIN t.ids
  <2> DEFINE n    == Cardinality(DOMAIN t.ids)
             ids  == Insert(t.ids, p, n + 1)
             ptrs == Insert(t.ptrs, n + 1, p)
             u    == RegPtr(t, p)
  <2>1. u.ids = ids /\ u.ptrs = ptrs
    BY <1>2 DEF RegPtr, NextId
  <2>2. n \in Nat
    BY FS_CardinalityType DEF Registering
  <2>3. n + 1 \notin DOMAIN t.ptrs
    BY <2>2 DEF Registering
  <2>4. /\ DOMAIN ids = DOMAIN t.ids \cup {p}
        /\ \A q \in DOMAIN t.ids : ids[q] = t.ids[q]
        /\ ids[p] = n + 1
    BY <1>2 DEF Insert
  <2>5. /\ DOMAIN ptrs = DOMAIN t.ptrs \cup {n + 1}
        /\ \A i \in DOMAIN t.ptrs : ptrs[i] = t.ptrs[i]
        /\ ptrs[n + 1] = p
    BY <2>3 DEF Insert
  <2>6. IsFiniteSet(DOMAIN ids) /\ Cardinality(DOMAIN ids) = n + 1
    BY <1>2, <2>4, FS_AddElement DEF Registering
  <2>7. DOMAIN ptrs = 1 .. n + 1
    <3>1. DOMAIN t.ptrs = 1 .. n
      BY DEF Registering
    <3> HIDE DEF n, ptrs
    <3>2. QED
      BY <2>2, <2>5, <3>1
  <2> HIDE DEF n, ids, ptrs, u
  <2>8. OneToOne(u)
    BY <1>2, <2>1, <2>3, <2>4, <2>5 DEF OneToOne, Registering
  <2>9. QED
    BY <2>1, <2>4, <2>5, <2>6, <2>7, <2>8 DEF Registering, u
<1>3. QED
  BY <1>1, <1>2

\* restore_ptr of a new id and a new pointer keeps the maps inverse.
LEMMA RestorePtrKeeps ==
  ASSUME NEW t, NEW id, NEW p,
         OneToOne(t), id \notin DOMAIN t.ptrs, p \notin DOMAIN t.ids
  PROVE  /\ OneToOne(RestorePtr(t, id, p))
         /\ DOMAIN RestorePtr(t, id, p).ids = DOMAIN t.ids \cup {p}
         /\ DOMAIN RestorePtr(t, id, p).ptrs = DOMAIN t.ptrs \cup {id}
         /\ \A i \in DOMAIN t.ptrs : RestorePtr(t, id, p).ptrs[i] = t.ptrs[i]
         /\ RestorePtr(t, id, p).ptrs[id] = p
<1> DEFINE ids  == Insert(t.ids, p, id)
           ptrs == Insert(t.ptrs, id, p)
<1>1. RestorePtr(t, id, p).ids = ids /\ RestorePtr(t, id, p).ptrs = ptrs
  BY DEF RestorePtr
<1>2. /\ DOMAIN ids = DOMAIN t.ids \cup {p}
      /\ \A q \in DOMAIN t.ids : ids[q] = t.ids[q]
      /\ ids[p] = id
  BY DEF Insert
<1>3. /\ DOMAIN ptrs = DOMAIN t.ptrs \cup {id}
      /\ \A i \in DOMAIN t.ptrs : ptrs[i] = t.ptrs[i]
      /\ ptrs[id] = p
  BY DEF Insert
<1> HIDE DEF ids, ptrs
<1>4. QED
  BY <1>1, <1>2, <1>3 DEF OneToOne

-----------------------------------------------------------------------------
(* The inductive invariant.  That sharing is kept needs to know what the   *)
(* stream says: an id that was written is, for ever, the one the writer's  *)
(* table has for the object, and a pointer that was read is the one the    *)
(* reader's table has for the id.                                          *)

SentByTable ==
  /\ sent \in Seq([obj : Objects, id : Nat])
  /\ \A i \in 1 .. Len(sent) : /\ sent[i].obj \in DOMAIN w.ids
                               /\ sent[i].id = w.ids[sent[i].obj]

GotByTable ==
  /\ got \in Seq(Copies) /\ Len(got) <= Len(sent)
  /\ \A i \in 1 .. Len(got) : /\ sent[i].id \in DOMAIN r.ptrs
                              /\ got[i] = r.ptrs[sent[i].id]

Restoring == /\ DOMAIN r.ids \subseteq Copies
             /\ OneToOne(r)
             /\ DOMAIN r.ptrs \subseteq DOMAIN w.ptrs

PointerInv == Registering(w) /\ Restoring /\ SentByTable /\ GotByTable

LEMMA PointerInit == Init => PointerInv
<1> SUFFICES ASSUME Init PROVE PointerInv
  OBVIOUS
<1>1. DOMAIN w.ids = {} /\ DOMAIN w.ptrs = {} /\ DOMAIN r.ids = {} /\ DOMAIN r.ptrs = {}
  BY DEF Init, Empty
<1>2. Cardinality({}) = 0 /\ IsFiniteSet({})
  BY FS_EmptySet
<1>3. Registering(w)
  BY <1>1, <1>2 DEF Registering, OneToOne
<1>4. Restoring
  BY <1>1 DEF Restoring, OneToOne
<1>5. SentByTable /\ GotByTable
  BY DEF Init, SentByTable, GotByTable
<1>6. QED
  BY <1>3, <1>4, <1>5 DEF PointerInv

\* Registering a pointer disturbs neither what was sent nor the reader.
LEMMA RegisterKeeps ==
  ASSUME PointerInv, NEW p \in Objects, w' = RegPtr(w, p), r' = r
  PROVE  /\ Registering(w') /\ Restoring'
         /\ p \in DOMAIN w'.ids
         /\ \A q \in DOMAIN w.ids : q \in DOMAIN w'.ids /\ w'.ids[q] = w.ids[q]
<1>1. /\ Registering(w') /\ p \in DOMAIN w'.ids
      /\ \A q \in DOMAIN w.ids : q \in DOMAIN w'.ids /\ w'.ids[q] = w.ids[q]
      /\ DOMAIN w.ptrs \subseteq DOMAIN w'.ptrs
  BY RegPtrKeeps DEF PointerInv
<1>2. Restoring'
  BY <1>1 DEF PointerInv, Restoring, OneToOne
<1>3. QED
  BY <1>1, <1>2

\* The id to be read next is one the writer has given.
LEMMA NextSentGiven ==
  ASSUME PointerInv, Len(got) < Len(sent)
  PROVE  NextSent \in DOMAIN w.ptrs /\ Len(got) + 1 \in 1 .. Len(sent)
<1>1. Len(got) + 1 \in 1 .. Len(sent)
  BY DEF PointerInv, GotByTable, SentByTable
<1>2. QED
  BY <1>1 DEF NextSent, PointerInv, SentByTable, Registering, OneToOne

LEMMA PointerStep == PointerInv /\ [Next]_vars => PointerInv'
<1> SUFFICES ASSUME PointerInv, [Next]_vars PROVE PointerInv'
  OBVIOUS
<1>1. ASSUME NEW p \in Objects, Register(p) PROVE PointerInv'
  <2>1. /\ Registering(w') /\ Restoring'
        /\ \A q \in DOMAIN w.ids : q \in DOMAIN w'.ids /\ w'.ids[q] = w.ids[q]
    BY <1>1, RegisterKeeps DEF Register
  <2>2. SentByTable' /\ GotByTable'
    BY <1>1, <2>1 DEF Register, PointerInv, SentByTable, GotByTable
  <2>3. QED
    BY <2>1, <2>2 DEF PointerInv
<1>2. ASSUME NEW p \in Objects, Send(p) PROVE PointerInv'
  <2>1. /\ Registering(w') /\ Restoring' /\ p \in DOMAIN w'.ids
        /\ \A q \in DOMAIN w.ids : q \in DOMAIN w'.ids /\ w'.ids[q] = w.ids[q]
    BY <1>2, RegisterKeeps DEF Send
  <2> DEFINE s == [obj |-> p, id |-> w'.ids[p]]
  <2>2. sent' = Append(sent, s)
    BY <1>2, <2>1 DEF Send, LookupId
  <2>3. w'.ids[p] \in Nat
    <3>1. w'.ids[p] \in 1 .. Cardinality(DOMAIN w'.ids)
      BY <2>1 DEF Registering, OneToOne
    <3>2. QED
      BY <3>1
  <2>4. sent \in Seq([obj : Objects, id : Nat]) /\ s \in [obj : Objects, id : Nat]
    BY <2>3 DEF PointerInv, SentByTable
  <2> HIDE DEF s
  <2>5. /\ sent' \in Seq([obj : Objects, id : Nat])
        /\ Len(sent') = Len(sent) + 1
        /\ \A i \in 1 .. Len(sent) : sent'[i] = sent[i]
        /\ sent'[Len(sent) + 1] = s
    BY <2>2, <2>4
  <2>6. SentByTable'
    BY <2>1, <2>5 DEF PointerInv, SentByTable, s
  <2>7. GotByTable'
    BY <1>2, <2>5 DEF Send, PointerInv, GotByTable, SentByTable
  <2>8. QED
    BY <2>1, <2>6, <2>7 DEF PointerInv
<1>3. CASE ReceiveKnown
  <2>1. w' = w /\ r' = r /\ sent' = sent
    BY <1>3 DEF ReceiveKnown
  <2>2. Len(got) + 1 \in 1 .. Len(sent)
    BY <1>3, NextSentGiven DEF ReceiveKnown
  <2>3. NextSent \in DOMAIN r.ptrs /\ got' = Append(got, r.ptrs[NextSent])
    BY <1>3 DEF ReceiveKnown, LookupPtr
  <2>4. r.ptrs[NextSent] \in Copies
    BY <2>3 DEF PointerInv, Restoring, OneToOne
  <2>5. GotByTable'
    BY <2>1, <2>2, <2>3, <2>4 DEF PointerInv, GotByTable, SentByTable, NextSent
  <2>6. QED
    BY <2>1, <2>5 DEF PointerInv, Restoring, SentByTable, Registering, OneToOne
<1>4. ASSUME NEW c \in Copies, ReceiveNew(c) PROVE PointerInv'
  <2>1. w' = w /\ sent' = sent /\ r' = RestorePtr(r, NextSent, c) /\ got' = Append(got, c)
    BY <1>4 DEF ReceiveNew
  <2>2. NextSent \in DOMAIN w.ptrs /\ Len(got) + 1 \in 1 .. Len(sent)
    BY <1>4, NextSentGiven DEF ReceiveNew
  <2>3. NextSent \notin DOMAIN r.ptrs
    BY <1>4, PointerAssumption DEF ReceiveNew, LookupPtr, PointerInv, Restoring, OneToOne
  <2>4. c \notin DOMAIN r.ids
    <3>1. \A q \in DOMAIN r.ids : r.ids[q] \in 1 .. Cardinality(DOMAIN w.ids)
      BY DEF PointerInv, Restoring, OneToOne, Registering
    <3>2. QED
      BY <1>4, <3>1 DEF ReceiveNew, LookupId
  <2>5. /\ OneToOne(r')
        /\ DOMAIN r'.ids = DOMAIN r.ids \cup {c}
        /\ DOMAIN r'.ptrs = DOMAIN r.ptrs \cup {NextSent}
        /\ \A i \in DOMAIN r.ptrs : r'.ptrs[i] = r.ptrs[i]
        /\ r'.ptrs[NextSent] = c
    BY <2>1, <2>3, <2>4, RestorePtrKeeps DEF PointerInv, Restoring
  <2>6. Restoring'
    BY <2>1, <2>2, <2>5 DEF PointerInv, Restoring
  <2>7. /\ got' \in Seq(Copies) /\ Len(got') = Len(got) + 1
        /\ \A i \in 1 .. Len(got) : got'[i] = got[i]
        /\ got'[Len(got) + 1] = c
    BY <2>1 DEF PointerInv, GotByTable
  <2>8. GotByTable'
    BY <2>1, <2>2, <2>5, <2>7 DEF PointerInv, GotByTable, NextSent
  <2>9. QED
    BY <2>1, <2>6, <2>8 DEF PointerInv, SentByTable, Registering, OneToOne
<1>5. CASE UNCHANGED vars
  BY <1>5 DEF vars, PointerInv, Registering, Restoring, SentByTable, GotByTable, OneToOne
<1>6. QED
  BY <1>1, <1>2, <1>3, <1>4, <1>5 DEF Next

\* The strengthening of the two properties below, in every reachable state.
THEOREM PointerInvariant == Spec => []PointerInv
BY PointerInit, PointerStep, PTL DEF Spec

-----------------------------------------------------------------------------
\* m_ptrtoid and m_idtoptr of either archive stay inverse to each other, and the
\* ids reg_ptr gives are 1, 2, ... without a gap.
THEOREM PointerTablesSound == Spec => []TablesSound
<1>1. PointerInv => TablesSound
  BY DEF PointerInv, Registering, Restoring, TablesSound
<1>2. QED
  BY <1>1, PointerInvariant, PTL

\* Pointers read through restore_ptr and lookup_ptr are the same exactly if the
\* pointers written through reg_ptr were.
THEOREM PointerSharing == Spec => []SameSharing
<1>1. ASSUME PointerInv PROVE SameSharing
  <2> SUFFICES ASSUME NEW i \in 1 .. Len(got), NEW j \in 1 .. Len(got)
               PROVE  got[i] = got[j] <=> sent[i].obj = sent[j].obj
    BY <1>1 DEF SameSharing, PointerInv, GotByTable
  <2>1. i \in 1 .. Len(sent) /\ j \in 1 .. Len(sent)
    BY <1>1 DEF PointerInv, GotByTable, SentByTable
  <2>2. got[i] = got[j] <=> sent[i].id = sent[j].id
    BY <1>1 DEF PointerInv, GotByTable, Restoring, OneToOne
  <2>3. sent[i].id = sent[j].id <=> sent[i].obj = sent[j].obj
    <3>1. /\ sent[i].obj \in DOMAIN w.ids /\ sent[i].id = w.ids[sent[i].obj]
          /\ sent[j].obj \in DOMAIN w.ids /\ sent[j].id = w.ids[sent[j].obj]
      BY <1>1, <2>1 DEF PointerInv, SentByTable
    <3>2. \A q \in DOMAIN w.ids : w.ptrs[w.ids[q]] = q
      BY <1>1 DEF PointerInv, Registering, OneToOne
    <3>3. QED
      BY <3>1, <3>2
  <2>4. QED
    BY <2>2, <2>3
<1>2. QED
  BY <1>1, PointerInvariant, PTL
=============================================================================
