------------------------- MODULE ArchiveLayoutProofs -------------------------
(***************************************************************************)
(* For every script of writes, every alignment that meets                  *)
(* LayoutAssumption and every choice of flags: the reader stays in step    *)
(* with the writer, up to the one case that ReaderInStep names.            *)
(***************************************************************************)
EXTENDS ArchiveLayout, BinaryProofs

-----------------------------------------------------------------------------
(* What align and is_aligned compute on bits.                              *)

LEMMA Powers ==
  ASSUME NEW al \in PowersOfTwo
  PROVE  /\ OffsetBits \in Nat /\ Doubling(OffsetBits) /\ al \in Nat \ {0} /\ al <= 2^OffsetBits
         /\ \E k \in 0 .. OffsetBits : al = 2^k
<1>1. OffsetBits \in Nat /\ Doubling(OffsetBits)
  BY LayoutAssumption
<1>2. PICK k \in 0 .. OffsetBits : al = 2^k
  BY DEF PowersOfTwo
<1>3. k \in 0 .. OffsetBits + 1 /\ OffsetBits \in 0 .. OffsetBits + 1
  BY <1>1
<1>4. 2^k \in Nat \ {0} /\ 2^OffsetBits \in Nat \ {0}
  BY <1>1, <1>3, PowerType
<1>5. k = OffsetBits \/ 2^k < 2^OffsetBits
  <2>1. k < OffsetBits => 2^k < 2^OffsetBits
    BY <1>1, <1>3, PowerMonotone
  <2>. QED  BY <1>1, <2>1
<1>. QED  BY <1>1, <1>2, <1>4, <1>5

\* The test on bits is the one for divisibility.
LEMMA AlignedIs ==
  ASSUME NEW al \in PowersOfTwo, NEW o \in Nat
  PROVE  Aligned(o, al) <=> o % al = 0
<1>1. PICK k \in 0 .. OffsetBits : al = 2^k
  BY Powers
<1>2. Bits(o, OffsetBits) \cap Bits(2^k - 1, OffsetBits) = {} <=> o % 2^k = 0
  BY DisjointFromMask, Powers
<1>. QED  BY <1>1, <1>2 DEF Aligned

\* Aligning leads to the first multiple at or behind an offset.
LEMMA AlignIs ==
  ASSUME NEW al \in PowersOfTwo, NEW c \in Nat, NEW t \in 0 .. al - 1,
         c * al + t < 2^OffsetBits
  PROVE  Align(c * al + t + 1, al) = c * al + al
<1>1. PICK k \in 0 .. OffsetBits : al = 2^k
  BY Powers
<1>2. al \in Nat \ {0}
  BY Powers
<1>3. PICK m \in Nat : m = c * al + t
  BY <1>2
<1>4. m % al = t
  BY <1>2, <1>3, DivModUnique
<1>5. m \in 0 .. 2^OffsetBits - 1
  <2>1. PICK z \in Nat : z = 2^OffsetBits
    BY Powers, PowerType
  <2>. QED  BY <1>3, <2>1
<1>6. Or(m, 2^k - 1, OffsetBits) = m - (m % 2^k) + (2^k - 1)
  BY <1>5, OrMask, Powers
<1>7. Or(m, al - 1, OffsetBits) + 1 = m - t + al
  <2>1. Or(m, al - 1, OffsetBits) = m - (m % al) + (al - 1)
    BY <1>1, <1>6, Zenon
  <2>2. PICK x : x = Or(m, al - 1, OffsetBits)
    OBVIOUS
  <2>3. x = m - t + (al - 1)
    BY <1>4, <2>1, <2>2
  <2>4. x + 1 = m - t + al
    BY <1>2, <2>3
  <2>. QED  BY <2>2, <2>4
<1>8. m - t + al = c * al + al
  <2>1. PICK x \in Nat : x = c * al
    BY <1>2
  <2>. QED  BY <1>2, <1>3, <2>1
<1>9. PICK o \in Nat : o = c * al + t + 1 /\ o - 1 = m
  <2>1. m + 1 = c * al + t + 1 /\ (m + 1) - 1 = m
    BY <1>2, <1>3
  <2>. QED  BY <2>1
<1>10. Align(o, al) = Or(m, al - 1, OffsetBits) + 1
  BY <1>9 DEF Align
<1>. QED  BY <1>7, <1>8, <1>9, <1>10

\* An offset that is not aligned lies between two multiples, and aligning it leads
\* to the next one.
LEMMA Between ==
  ASSUME NEW al \in PowersOfTwo, NEW o \in 0 .. 2^OffsetBits, ~Aligned(o, al)
  PROVE  \E low \in Nat : /\ low % al = 0 /\ low < o /\ o < low + al
                          /\ (low + al) % al = 0
                          /\ \A u \in Nat : low < u /\ u < low + al => u % al # 0
                          /\ \A u \in Nat : low < u /\ u <= low + al /\ u <= 2^OffsetBits
                                => Align(u, al) = low + al
<1>1. al \in Nat \ {0} /\ o \in Nat
  <2>1. 2^OffsetBits \in Nat
    BY Powers, PowerType
  <2>. QED  BY <2>1, Powers
<1>2. PICK c \in Nat, d \in 0 .. al - 1 : o = c * al + d /\ o % al = d
  BY <1>1, DivMod
<1>3. d # 0
  BY <1>1, <1>2, AlignedIs
<1>4. PICK low \in Nat : low = c * al
  BY <1>1
<1>5. low < o /\ o < low + al
  BY <1>1, <1>2, <1>3, <1>4
<1>6. low % al = 0 /\ (low + al) % al = 0
  <2>1. 0 \in 0 .. al - 1 /\ c + 1 \in Nat /\ (c + 1) * al + 0 = low + al /\ c * al + 0 = low
    BY <1>1, <1>4
  <2>2. (c * al + 0) % al = 0 /\ ((c + 1) * al + 0) % al = 0
    <3>1. PICK e \in Nat : e = c + 1
      OBVIOUS
    <3>2. (c * al + 0) % al = 0 /\ (e * al + 0) % al = 0
      BY <1>1, <2>1, DivModUnique
    <3>. QED  BY <3>1, <3>2
  <2>. QED  BY <2>1, <2>2
<1>7. ASSUME NEW u \in Nat, low < u, u < low + al  PROVE u % al # 0
  <2>1. PICK t \in 1 .. al - 1 : u = low + t
    <3>1. u - low \in 1 .. al - 1 /\ u = low + (u - low)
      BY <1>1, <1>7
    <3>. QED  BY <3>1
  <2>2. (c * al + t) % al = t
    <3>1. t \in 0 .. al - 1
      BY <1>1
    <3>. QED  BY <1>1, <3>1, DivModUnique
  <2>. QED  BY <1>4, <2>1, <2>2
<1>8. ASSUME NEW u \in Nat, low < u, u <= low + al, u <= 2^OffsetBits
      PROVE  Align(u, al) = low + al
  <2>1. PICK t \in 0 .. al - 1 : u = low + t + 1
    <3>1. u - low - 1 \in 0 .. al - 1 /\ u = low + (u - low - 1) + 1
      BY <1>1, <1>8
    <3>. QED  BY <3>1
  <2>2. c * al + t < 2^OffsetBits
    <3>1. PICK z \in Nat : z = 2^OffsetBits
      BY Powers, PowerType
    <3>. QED  BY <1>1, <1>4, <1>8, <2>1, <3>1
  <2>3. Align(c * al + t + 1, al) = c * al + al
    BY <2>2, AlignIs
  <2>. QED  BY <1>4, <2>1, <2>3
<1>. QED  BY <1>5, <1>6, <1>7, <1>8

\* Aligning never moves back, and padding in rounds does not change where it leads:
\* for powers of two a fact, for other alignments an assumption.
LEMMA Alignment ==
  ASSUME NEW p \in Ops, NEW o \in 0 .. MaxOffset, ~Aligned(o, p.align)
  PROVE  /\ o # 0 /\ Align(o, p.align) \in Nat /\ o <= Align(o, p.align)
         /\ Target(o + Padding(o, p.align), p.align) = Target(o, p.align)
<1>. DEFINE al == p.align
<1>1. al \in Nat \ {0} /\ MaxOffset \in Nat /\ MaxOffset + al <= 2^OffsetBits
  BY LayoutAssumption
<1>2. CASE al \notin PowersOfTwo
  <2>1. Aligned(0, al) /\ \A u \in 1 .. MaxOffset : ~Aligned(u, al) =>
            /\ Align(u, al) \in Nat /\ u <= Align(u, al)
            /\ Target(u + Padding(u, al), al) = Target(u, al)
    BY <1>2, LayoutAssumption
  <2>2. o \in 1 .. MaxOffset
    BY <1>1, <2>1
  <2>. QED  BY <2>1, <2>2
<1>3. CASE al \in PowersOfTwo
  <2>. HIDE DEF al
  <2>1. ~Aligned(o, al)
    BY DEF al
  <2>2. PICK z \in Nat : z = 2^OffsetBits
    BY <1>3, Powers, PowerType
  <2>3. o \in 0 .. 2^OffsetBits
    BY <1>1, <2>2
  <2>4. PICK low \in Nat :
          /\ low % al = 0 /\ low < o /\ o < low + al
          /\ (low + al) % al = 0
          /\ \A u \in Nat : low < u /\ u < low + al => u % al # 0
          /\ \A u \in Nat : low < u /\ u <= low + al /\ u <= 2^OffsetBits
                => Align(u, al) = low + al
    BY <1>3, <2>1, <2>3, Between
  <2>5. Align(o, al) = low + al /\ low + al \in Nat
    BY <1>1, <2>2, <2>4
  <2>6. PICK u \in Nat : u = o + Padding(o, al) /\ o < u /\ u <= low + al
    <3>1. Padding(o, al) \in 1 .. low + al - o
      BY <1>1, <2>4, <2>5 DEF Padding, Smaller, PadMax
    <3>. QED  BY <1>1, <2>4, <3>1
  <2>7. u <= 2^OffsetBits
    BY <1>1, <2>2, <2>4, <2>6
  <2>8. Align(u, al) = low + al
    BY <2>4, <2>6, <2>7
  <2>9. u = low + al \/ ~Aligned(u, al)
    <3>1. u < low + al => u % al # 0
      BY <2>4, <2>6
    <3>. QED  BY <1>1, <1>3, <2>6, <3>1, AlignedIs
  <2>10. Target(u, al) = low + al /\ Target(o, al) = low + al
    BY <2>1, <2>5, <2>8, <2>9 DEF Target
  <2>. QED  BY <1>1, <2>4, <2>5, <2>6, <2>10 DEF al
<1>. QED  BY <1>2, <1>3

\* Behind an offset of the stream there is room for an object.
LEMMA ForcedRoom ==
  /\ ForcedAlign \in PowersOfTwo /\ ForcedAlign \in Nat \ {0} /\ MaxOffset \in Nat
  /\ \A o \in Nat : 1 <= o /\ o <= MaxOffset => o \in 1 .. 2^OffsetBits
<1>1. ForcedAlign \in PowersOfTwo /\ MaxOffset \in Nat /\ MaxOffset + ForcedAlign <= 2^OffsetBits
  BY LayoutAssumption
<1>2. ForcedAlign \in Nat \ {0}
  BY <1>1, Powers
<1>3. PICK z \in Nat : z = 2^OffsetBits
  BY <1>1, Powers, PowerType
<1>. QED  BY <1>1, <1>2, <1>3

\* Where align takes an offset that a multiple may follow: to the first one.
LEMMA FirstBehind ==
  ASSUME NEW al \in PowersOfTwo, NEW o \in 1 .. 2^OffsetBits
  PROVE  /\ Align(o, al) \in Nat /\ Align(o, al) % al = 0
         /\ Align(o, al) - o \in 0 .. al - 1 /\ o <= Align(o, al)
<1>1. PICK z \in Nat : z = 2^OffsetBits
  BY Powers, PowerType
<1>2. al \in Nat \ {0} /\ o - 1 \in Nat
  BY <1>1, Powers
<1>3. PICK m \in Nat : m = o - 1
  BY <1>2
<1>4. PICK c \in Nat, t \in 0 .. al - 1 : m = c * al + t
  BY <1>2, DivMod
<1>5. PICK x \in Nat : x = c * al
  BY <1>2
<1>6. o = c * al + t + 1 /\ c * al + t < 2^OffsetBits
  BY <1>1, <1>2, <1>3, <1>4, <1>5
<1>7. Align(o, al) = x + al
  BY <1>5, <1>6, AlignIs
<1>8. (x + al) % al = 0
  <2>1. PICK e \in Nat : e = c + 1
    OBVIOUS
  <2>2. (e * al + 0) % al = 0
    <3>1. 0 \in 0 .. al - 1
      BY <1>2
    <3>. QED  BY <1>2, <3>1, DivModUnique
  <2>3. e * al + 0 = x + al
    BY <1>2, <1>5, <2>1
  <2>. QED  BY <2>2, <2>3
<1>. QED  BY <1>2, <1>5, <1>6, <1>7, <1>8

-----------------------------------------------------------------------------
(* The invariant.                                                          *)

ItemType == [op : Ops, start : Nat, head : Nat, end : Nat, garbage : Nat, name : Nat]

\* Where the stream stands behind the first n items.
Boundary(n) == IF n = 0 THEN 0 ELSE items[n].end

\* Where an operation begins that finds the stream at o: where align_stream takes
\* it, or right there.
Begins(o, p) == IF p.kind = "vu" THEN o ELSE Target(o, p.align)

\* How far an item reaches.
Extent(it) == IF it.op.kind # "object" THEN it.op.len ELSE Word + Skip(it)

\* An item starts where the one before it ends, begins where a reader that stands
\* at its start looks for it, and ends where that reader ends.
ItemInStep(i) ==
  /\ items[i].start = Boundary(i - 1)
  /\ items[i].head = Begins(items[i].start, items[i].op)
  /\ items[i].end = items[i].head + Extent(items[i])

ItemsInv == \A i \in 1 .. Len(items) : ItemInStep(i)

\* The writer stands behind the last item, or is aligning, on a way that
\* still leads where one step of alignment from its start would.
WriteInv ==
  /\ pc = "choose" => off = Boundary(Len(items))
  /\ pc = "align" => /\ start = Boundary(Len(items)) /\ op \in Ops
                     /\ Begins(off, op) = Begins(start, op)

ReadInv ==
  /\ pc \in {"choose", "align", "write_abort"} => reads = 0 /\ pos = 0
  /\ pc \in {"read", "done", "lost", "read_abort"} =>
       off = Boundary(Len(items)) /\ pos = Boundary(reads)
  /\ pc = "done" => reads = Len(items)
  /\ pc = "lost" => /\ reads < Len(items) /\ Item.op.kind = "object"
                    /\ ~Aligned(Item.start, Word)

LayoutInv == TypeOK /\ ItemsInv /\ WriteInv /\ ReadInv

LEMMA InitInv == Init => LayoutInv
<1>. SUFFICES ASSUME Init PROVE LayoutInv
  OBVIOUS
<1>1. items = <<>> /\ Len(items) = 0 /\ items \in Seq(ItemType)
  BY DEF Init
<1>2. TypeOK
  BY <1>1 DEF Init, TypeOK, ItemType
<1>3. ItemsInv /\ WriteInv /\ ReadInv
  BY <1>1 DEF Init, ItemsInv, WriteInv, ReadInv, Boundary
<1>. QED  BY <1>2, <1>3 DEF LayoutInv

\* Adding an item keeps the ones before it, and keeps every boundary.
LEMMA AppendItem ==
  ASSUME TypeOK, ItemsInv, NEW it \in ItemType, items' = Append(items, it),
         UNCHANGED setup,
         it.start = Boundary(Len(items)),
         it.head = Begins(it.start, it.op), it.end = it.head + Extent(it)
  PROVE  /\ items' \in Seq(ItemType) /\ Len(items') = Len(items) + 1
         /\ ItemsInv' /\ Boundary(Len(items))' = it.end
<1>1. /\ items \in Seq(ItemType) /\ Len(items) \in Nat
      /\ items' \in Seq(ItemType) /\ Len(items') = Len(items) + 1
      /\ items'[Len(items) + 1] = it
      /\ \A i \in 1 .. Len(items) : items'[i] = items[i]
  BY DEF TypeOK, ItemType
<1>2. Boundary(Len(items))' = it.end
  BY <1>1 DEF Boundary
<1>3. \A n \in 0 .. Len(items) : (IF n = 0 THEN 0 ELSE items'[n].end) = Boundary(n)
  BY <1>1 DEF Boundary
<1>4. \A x : Extent(x)' = Extent(x)
  BY DEF Extent, Skip, Padded, Named
<1>5. ASSUME NEW i \in 1 .. Len(items)  PROVE ItemInStep(i)'
  <2>1. items'[i] = items[i]
    BY <1>1
  <2>2. Boundary(i - 1)' = Boundary(i - 1)
    BY <1>1, <1>3 DEF Boundary
  <2>3. ItemInStep(i)
    BY DEF ItemsInv
  <2>4. Extent(items[i])' = Extent(items[i])
    BY <2>1 DEF Extent, Skip, Padded, Named
  <2>. QED  BY <2>1, <2>2, <2>3, <2>4 DEF ItemInStep
<1>6. ASSUME NEW i, i = Len(items) + 1  PROVE ItemInStep(i)'
  <2>1. Boundary(i - 1)' = Boundary(Len(items))
    BY <1>1, <1>3, <1>6 DEF Boundary
  <2>2. items'[i] = it
    BY <1>1, <1>6
  <2>3. Extent(items[i])' = Extent(it)
    BY <2>2 DEF Extent, Skip, Padded, Named
  <2>. QED  BY <2>1, <2>2, <2>3 DEF ItemInStep
<1>7. \A i \in 1 .. Len(items') : i \in 1 .. Len(items) \/ i = Len(items) + 1
  BY <1>1
<1>8. ItemsInv'
  BY <1>5, <1>6, <1>7 DEF ItemsInv
<1>. QED  BY <1>1, <1>2, <1>8

\* Starting a write, and a round of its padding.
LEMMA WriteStep ==
  ASSUME LayoutInv, NEW o \in Ops, Write(o)  PROVE LayoutInv'
<1>1. TypeOK'
  BY DEF LayoutInv, TypeOK, Write
<1>2. ItemsInv' /\ Boundary(Len(items))' = Boundary(Len(items))
  BY DEF LayoutInv, Write, ItemsInv, ItemInStep, Boundary, Extent, Skip, Padded, Named
<1>3. WriteInv' /\ ReadInv'
  BY <1>2 DEF LayoutInv, Write, WriteInv, ReadInv
<1>. QED  BY <1>1, <1>2, <1>3 DEF LayoutInv

LEMMA PadStep ==
  ASSUME LayoutInv, Pad  PROVE LayoutInv'
<1>1. /\ op \in Ops /\ off \in Nat /\ start \in Nat /\ off <= MaxOffset
      /\ ~Aligned(off, op.align) /\ op.kind # "vu"
      /\ Target(off, op.align) = Target(start, op.align)
  BY DEF LayoutInv, TypeOK, WriteInv, Pad, Aligning, Begins
<1>2. off \in 0 .. MaxOffset
  BY <1>1, LayoutAssumption
<1>4. /\ Align(off, op.align) \in Nat /\ off <= Align(off, op.align)
      /\ Target(off + Padding(off, op.align), op.align) = Target(start, op.align)
  BY <1>1, <1>2, Alignment
<1>5. Padding(off, op.align) \in Nat
  BY <1>1, <1>4 DEF Padding, Smaller, PadMax
<1>6. ItemsInv' /\ Boundary(Len(items))' = Boundary(Len(items))
  BY DEF LayoutInv, Pad, ItemsInv, ItemInStep, Boundary, Extent, Skip, Padded, Named
<1>7. CASE pc' = "write_abort" /\ UNCHANGED off
  <2>1. TypeOK'
    BY <1>7 DEF LayoutInv, TypeOK, Pad
  <2>2. WriteInv' /\ ReadInv'
    BY <1>7 DEF LayoutInv, Pad, WriteInv, ReadInv
  <2>. QED  BY <1>6, <2>1, <2>2 DEF LayoutInv
<1>8. CASE off' = off + Padding(off, op.align) /\ UNCHANGED pc
  <2>1. TypeOK'
    BY <1>1, <1>5, <1>8 DEF LayoutInv, TypeOK, Pad
  <2>2. WriteInv' /\ ReadInv'
    BY <1>1, <1>4, <1>6, <1>8 DEF LayoutInv, Pad, WriteInv, ReadInv, Begins
  <2>. QED  BY <1>6, <2>1, <2>2 DEF LayoutInv
<1>. QED  BY <1>7, <1>8 DEF Pad

\* A value or a quantity is written: the value begins where the writer stands
\* aligned, the quantity where it stands.
LEMMA WriteValueStep ==
  ASSUME LayoutInv, WriteValue  PROVE LayoutInv'
<1>. DEFINE it == [op |-> op, start |-> start, head |-> off, end |-> off',
                   garbage |-> 0, name |-> 0]
<1>1. /\ op \in Ops /\ off \in Nat /\ start \in Nat /\ op.len \in Nat
      /\ off' = off + op.len /\ off' \in Nat
  BY LayoutAssumption DEF LayoutInv, TypeOK, WriteInv, WriteValue
<1>2. it \in ItemType
  BY <1>1 DEF ItemType
<1>3. /\ it.start = Boundary(Len(items))
      /\ it.head = Begins(it.start, it.op)
  BY DEF LayoutInv, WriteInv, WriteValue, Aligning, Begins, Target
<1>4. it.end = it.head + Extent(it)
  BY <1>1 DEF WriteValue, Extent
<1>5. TypeOK /\ ItemsInv /\ items' = Append(items, it) /\ UNCHANGED setup
  BY DEF LayoutInv, WriteValue
<1>. HIDE DEF it
<1>6. /\ items' \in Seq(ItemType) /\ Len(items') = Len(items) + 1
      /\ ItemsInv' /\ Boundary(Len(items))' = it.end
  BY <1>2, <1>3, <1>4, <1>5, AppendItem
<1>7. it.end = off'
  BY DEF it
<1>8. TypeOK'
  <2>1. reads' = 0 /\ 0 \in 0 .. Len(items')
    BY <1>6, <1>5 DEF LayoutInv, WriteValue, ReadInv, TypeOK
  <2>. QED  BY <1>1, <1>6, <2>1 DEF LayoutInv, TypeOK, WriteValue, ItemType
<1>9. WriteInv' /\ ReadInv'
  BY <1>6, <1>7 DEF LayoutInv, WriteValue, WriteInv, ReadInv
<1>. QED  BY <1>6, <1>8, <1>9 DEF LayoutInv

\* An object's prefix is written: what the reader will skip is what the
\* writer adds behind the flags.
LEMMA WriteObjectStep ==
  ASSUME LayoutInv, WriteObject  PROVE LayoutInv'
<1>. DEFINE name  == IF Named THEN Smaller(op.len, MaxName) ELSE 0
            base  == off + Word
            block == (IF Named THEN Word + name ELSE 0) + (IF Padded THEN Word ELSE 0)
            objs  == ObjectStart(base, block)
            garb  == Garbage(base, objs)
            it == [op |-> op, start |-> start, head |-> off, end |-> objs,
                   garbage |-> garb, name |-> name]
<1>1. /\ op \in Ops /\ off \in Nat /\ start \in Nat /\ op.len \in Nat /\ MaxName \in Nat
  BY LayoutAssumption DEF LayoutInv, TypeOK, WriteInv, WriteObject
<1>2. /\ name \in Nat /\ base \in Nat /\ block \in Nat /\ base >= 4
      /\ Padded => block >= 4
  BY <1>1 DEF Smaller, Word
<1>3. base + block <= MaxOffset
  BY DEF WriteObject
<1>4. objs \in Nat /\ objs >= base + block
  <2>1. CASE Padded
    <3>1. base + block \in 1 .. 2^OffsetBits /\ ForcedAlign \in PowersOfTwo
      BY <1>2, <1>3, ForcedRoom
    <3>2. PICK b \in 1 .. 2^OffsetBits : b = base + block
      BY <3>1
    <3>3. Align(b, ForcedAlign) \in Nat /\ b <= Align(b, ForcedAlign)
      BY <3>1, FirstBehind
    <3>. QED  BY <2>1, <3>2, <3>3 DEF ObjectStart
  <2>2. CASE ~Padded  BY <1>2, <2>2 DEF ObjectStart
  <2>. QED  BY <2>1, <2>2
<1>5. garb \in Nat
  BY <1>2, <1>4 DEF Word, Garbage
<1>6. it \in ItemType
  BY <1>1, <1>2, <1>4, <1>5 DEF ItemType
<1>7. /\ it.start = Boundary(Len(items))
      /\ it.head = Begins(it.start, it.op)
  BY DEF LayoutInv, WriteInv, WriteObject, Aligning, Begins, Target
<1>8. it.end = it.head + Extent(it)
  <2>1. Extent(it) = Word + Skip(it)
    BY DEF WriteObject, Extent
  <2>2. objs = off + (Word + Skip(it))
    <3>1. CASE Padded  BY <1>1, <1>2, <1>4, <3>1 DEF Skip, Word, ObjectStart, Garbage
    <3>2. CASE ~Padded /\ Named  BY <1>1, <1>2, <1>4, <3>2 DEF Skip, Word, ObjectStart, Garbage
    <3>3. CASE ~Padded /\ ~Named  BY <1>1, <1>2, <1>4, <3>3 DEF Skip, Word, ObjectStart, Garbage
    <3>. QED  BY <3>1, <3>2, <3>3
  <2>. QED  BY <2>1, <2>2
<1>9. /\ TypeOK /\ ItemsInv /\ items' = Append(items, it) /\ UNCHANGED setup
      /\ off' = objs
  BY DEF LayoutInv, WriteObject
<1>10. it.end = off' /\ off' \in Nat
  BY <1>4, <1>9
<1>. HIDE DEF it, objs, name, block, base, garb
<1>11. /\ items' \in Seq(ItemType) /\ Len(items') = Len(items) + 1
       /\ ItemsInv' /\ Boundary(Len(items))' = it.end
  BY <1>6, <1>7, <1>8, <1>9, AppendItem
<1>12. TypeOK'
  <2>1. reads' = 0 /\ 0 \in 0 .. Len(items')
    BY <1>11, <1>9 DEF LayoutInv, WriteObject, ReadInv, TypeOK
  <2>. QED  BY <1>1, <1>10, <1>11, <2>1 DEF LayoutInv, TypeOK, WriteObject, ItemType
<1>13. WriteInv' /\ ReadInv'
  BY <1>10, <1>11 DEF LayoutInv, WriteObject, WriteInv, ReadInv
<1>. QED  BY <1>11, <1>12, <1>13 DEF LayoutInv

LEMMA FinishStep ==
  ASSUME LayoutInv, Finish  PROVE LayoutInv'
<1>1. TypeOK'
  BY DEF LayoutInv, TypeOK, Finish
<1>2. ItemsInv' /\ Boundary(Len(items))' = Boundary(Len(items))
  BY DEF LayoutInv, Finish, ItemsInv, ItemInStep, Boundary, Extent, Skip, Padded, Named
<1>3. WriteInv' /\ ReadInv'
  <2>1. Boundary(0)' = 0 /\ reads = 0 /\ pos = 0 /\ off = Boundary(Len(items))
    BY DEF LayoutInv, Finish, ReadInv, WriteInv, Boundary
  <2>. QED  BY <1>2, <2>1 DEF Finish, WriteInv, ReadInv
<1>. QED  BY <1>1, <1>2, <1>3 DEF LayoutInv

\* A step of the reader that takes it to the end of the next item, or stops
\* it, keeps the invariant; it is lost only in front of an object it did not
\* look for where the writer put it.
LEMMA OutcomeStep ==
  ASSUME LayoutInv, pc = "read", reads < Len(items),
         UNCHANGED <<setup, items, op, start, off>>,
         NEW ok, NEW p, Outcome(ok, p, Item.end),
         p # Item.head => Item.op.kind = "object" /\ ~Aligned(Item.start, Word)
  PROVE  LayoutInv'
<1>1. /\ reads \in Nat /\ Len(items) \in Nat /\ reads + 1 \in 1 .. Len(items)
      /\ items \in Seq(ItemType) /\ pos \in Nat
  <2>1. items \in Seq(ItemType) /\ reads \in 0 .. Len(items) /\ pos \in Nat
    BY DEF LayoutInv, TypeOK, ItemType
  <2>2. PICK l \in Nat : l = Len(items)
    BY <2>1
  <2>3. PICK r \in 0 .. l : r = reads /\ r < l
    BY <2>1, <2>2
  <2>4. r \in Nat /\ r + 1 \in 1 .. l
    BY <2>3
  <2>. QED  BY <2>1, <2>2, <2>3, <2>4
<1>2. Item \in ItemType /\ Item.end \in Nat
  <2>1. Item \in ItemType  BY <1>1 DEF Item
  <2>. QED  BY <2>1 DEF ItemType
<1>3. ItemsInv'
  BY DEF LayoutInv, ItemsInv, ItemInStep, Boundary, Extent, Skip, Padded, Named
<1>4. \A n : Boundary(n)' = Boundary(n)
  BY DEF Boundary
<1>5. off = Boundary(Len(items)) /\ pos = Boundary(reads)
  BY DEF LayoutInv, ReadInv
<1>6. CASE pc' \in {"read_abort", "lost"} /\ UNCHANGED <<reads, pos>>
          /\ (pc' = "lost" => p # Item.head)
  <2>1. TypeOK'
    BY <1>6 DEF LayoutInv, TypeOK
  <2>2. Item' = Item
    BY <1>6 DEF Item
  <2>3. WriteInv' /\ ReadInv'
    BY <1>4, <1>5, <1>6, <2>2 DEF WriteInv, ReadInv
  <2>. QED  BY <1>3, <2>1, <2>3 DEF LayoutInv
<1>7. CASE reads' = reads + 1 /\ pos' = Item.end /\ UNCHANGED pc
  <2>1. TypeOK'
    BY <1>1, <1>2, <1>7 DEF LayoutInv, TypeOK
  <2>2. Boundary(reads + 1) = Item.end
    BY <1>1 DEF Boundary, Item
  <2>3. WriteInv' /\ ReadInv'
    BY <1>4, <1>5, <1>7, <2>2 DEF WriteInv, ReadInv
  <2>. QED  BY <1>3, <2>1, <2>3 DEF LayoutInv
<1>. QED  BY <1>6, <1>7 DEF Outcome

LEMMA ReadValueStep ==
  ASSUME LayoutInv, ReadValue  PROVE LayoutInv'
<1>. DEFINE p == Target(pos, Item.op.align)
            ok == /\ p # pos => AdvanceAsserts(pos, p - pos)
                  /\ ReadAsserts(p, Item.op.len)
<1>1. /\ pc = "read" /\ reads < Len(items) /\ UNCHANGED <<setup, items, op, start, off>>
      /\ Item.op.kind = "value" /\ Outcome(ok, p, p + Item.op.len)
  BY DEF ReadValue
<1>2. ItemInStep(reads + 1) /\ pos = Boundary(reads) /\ reads \in Nat
  BY <1>1 DEF LayoutInv, ItemsInv, ReadInv, TypeOK
<1>3. p = Item.head /\ Item.end = p + Item.op.len
  BY <1>1, <1>2 DEF ItemInStep, Item, Begins, Extent
<1>. HIDE DEF ok, p
<1>. QED  BY <1>1, <1>3, OutcomeStep

LEMMA ReadVuStep ==
  ASSUME LayoutInv, ReadVu  PROVE LayoutInv'
<1>. DEFINE ok == ReadAsserts(pos, Item.op.len) /\ AlignAssert(pos, Item.op.align)
<1>1. /\ pc = "read" /\ reads < Len(items) /\ UNCHANGED <<setup, items, op, start, off>>
      /\ Item.op.kind = "vu" /\ Outcome(ok, pos, pos + Item.op.len)
  BY DEF ReadVu
<1>2. ItemInStep(reads + 1) /\ pos = Boundary(reads) /\ reads \in Nat
  BY <1>1 DEF LayoutInv, ItemsInv, ReadInv, TypeOK
<1>3. pos = Item.head /\ Item.end = pos + Item.op.len
  BY <1>1, <1>2 DEF ItemInStep, Item, Begins, Extent
<1>. HIDE DEF ok
<1>. QED  BY <1>1, <1>3, OutcomeStep

LEMMA ReadObjectStep ==
  ASSUME LayoutInv, ReadObject  PROVE LayoutInv'
<1>. DEFINE skip == Skip(Item)
            ok == /\ ReadAsserts(pos, Word) /\ AlignAssert(pos, Word)
                  /\ skip > 0 => AdvanceAsserts(pos + 2 * Word, skip - Word)
<1>1. /\ pc = "read" /\ reads < Len(items) /\ UNCHANGED <<setup, items, op, start, off>>
      /\ Item.op.kind = "object" /\ Outcome(ok, pos, pos + Word + skip)
  BY DEF ReadObject
<1>2. /\ ItemInStep(reads + 1) /\ pos = Boundary(reads) /\ reads \in Nat
      /\ items \in Seq(ItemType) /\ Len(items) \in Nat /\ pos \in Nat
  BY <1>1 DEF LayoutInv, ItemsInv, ReadInv, TypeOK, ItemType
<1>3. Item \in ItemType
  BY <1>1, <1>2 DEF Item
<1>4. Item.op.align = Word /\ Item.op.kind # "vu"
  BY <1>1, <1>3, LayoutAssumption DEF ItemType
<1>5. /\ pos = Item.start /\ Item.head = Target(Item.start, Word)
      /\ Item.end = Item.head + (Word + skip)
  BY <1>1, <1>2, <1>4 DEF ItemInStep, Item, Begins, Extent
<1>6. pos # Item.head => ~Aligned(Item.start, Word)
  BY <1>5 DEF Target
<1>7. pos = Item.head => Item.end = pos + Word + skip
  <2>1. skip \in Int
    BY <1>3 DEF Skip, ItemType, Word
  <2>. QED  BY <1>2, <1>5, <2>1 DEF Word
<1>. HIDE DEF ok, skip
<1>8. Outcome(ok, pos, Item.end)
  BY <1>1, <1>7 DEF Outcome
<1>. QED  BY <1>1, <1>6, <1>8, OutcomeStep

LEMMA DoneStep ==
  ASSUME LayoutInv, Done  PROVE LayoutInv'
<1>1. TypeOK' /\ ItemsInv'
  BY DEF LayoutInv, TypeOK, Done, ItemsInv, ItemInStep, Boundary, Extent, Skip, Padded, Named
<1>2. Boundary(Len(items))' = Boundary(Len(items)) /\ Boundary(reads)' = Boundary(reads)
  BY DEF Done, Boundary
<1>3. WriteInv' /\ ReadInv'
  BY <1>2 DEF LayoutInv, Done, WriteInv, ReadInv
<1>. QED  BY <1>1, <1>3 DEF LayoutInv

LEMMA StutterStep ==
  ASSUME LayoutInv, UNCHANGED vars  PROVE LayoutInv'
<1>1. TypeOK' /\ ItemsInv'
  BY DEF LayoutInv, TypeOK, vars, ItemsInv, ItemInStep, Boundary, Extent, Skip, Padded, Named
<1>2. /\ Boundary(Len(items))' = Boundary(Len(items)) /\ Boundary(reads)' = Boundary(reads)
      /\ Item' = Item
  BY DEF vars, Boundary, Item
<1>3. WriteInv' /\ ReadInv'
  BY <1>2 DEF LayoutInv, vars, WriteInv, ReadInv
<1>. QED  BY <1>1, <1>3 DEF LayoutInv

\* The inductive invariant: writer and reader compute the same places.
THEOREM LayoutInvariant == Spec => []LayoutInv
<1>1. LayoutInv /\ [Next]_vars => LayoutInv'
  BY WriteStep, PadStep, WriteValueStep, WriteObjectStep, FinishStep,
     ReadValueStep, ReadVuStep, ReadObjectStep, DoneStep, StutterStep DEF Next, Step
<1>. QED  BY InitInv, <1>1, PTL DEF Spec

\* The writer's items, the cursor of either side and the states of the run
\* stay in their types.
THEOREM LayoutTypeCorrect == Spec => []TypeOK
<1>1. LayoutInv => TypeOK
  BY DEF LayoutInv
<1>. QED  BY LayoutInvariant, <1>1, PTL

\* The reader stands behind every item where the writer stood behind it; it
\* can only miss an object whose flags the writer had to align.
THEOREM LayoutReaderInStep == Spec => []ReaderInStep
<1>1. LayoutInv => ReaderInStep
  BY DEF LayoutInv, ReadInv, ReaderInStep, Boundary, TypeOK
<1>. QED  BY LayoutInvariant, <1>1, PTL

-----------------------------------------------------------------------------
(* Where the items are.                                                    *)

\* Behind the flags, the garbage length and the name of an object.
PrefixEnd(it) == it.head + 2 * Word + IF Named THEN Word + it.name ELSE 0

\* What moved an item from where the stream stood was an alignment, and so was what
\* moved the data of an object from the end of its prefix; either had room.
Placed(it) ==
  /\ it.op.kind # "vu" => Aligned(it.head, it.op.align)
  /\ it.start = it.head \/ it.start \in 0 .. MaxOffset
  /\ it.op.kind = "object" /\ Padded =>
       /\ PrefixEnd(it) \in 1 .. MaxOffset
       /\ it.end = Align(PrefixEnd(it), ForcedAlign)

PlacesInv ==
  /\ pc = "align" => start = off \/ start \in 0 .. MaxOffset
  /\ \A i \in 1 .. Len(items) : Placed(items[i])

\* Adding an item that is placed keeps the others where they are.
LEMMA AppendPlaced ==
  ASSUME TypeOK, PlacesInv, NEW it \in ItemType, items' = Append(items, it),
         UNCHANGED setup, Placed(it), pc' = "choose"
  PROVE  PlacesInv'
<1>1. items \in Seq(ItemType)
  BY DEF TypeOK, ItemType
<1>2. /\ Len(items) \in Nat /\ Len(items') = Len(items) + 1
      /\ items'[Len(items) + 1] = it
      /\ \A i \in 1 .. Len(items) : items'[i] = items[i]
  BY <1>1
<1>3. ASSUME NEW i \in 1 .. Len(items')  PROVE Placed(items'[i])
  <2>1. i \in 1 .. Len(items) \/ i = Len(items) + 1
    BY <1>2
  <2>. QED  BY <1>2, <2>1 DEF PlacesInv
<1>4. \A x : Placed(x)' = Placed(x)
  BY DEF Placed, PrefixEnd, Padded, Named
<1>5. \A i \in 1 .. Len(items') : Placed(items[i])'
  BY <1>3 DEF Placed, PrefixEnd, Padded, Named
<1>. QED  BY <1>5 DEF PlacesInv

LEMMA PlacesStep ==
  ASSUME LayoutInv, PlacesInv, [Next]_vars  PROVE PlacesInv'
<1>1. TypeOK /\ off \in Nat /\ start \in Nat /\ MaxOffset \in Nat /\ MaxName \in Nat
  BY LayoutAssumption DEF LayoutInv, TypeOK
<1>2. ASSUME UNCHANGED <<setup, items>>, pc' = "align" => start' = off' \/ start' \in 0 .. MaxOffset
      PROVE  PlacesInv'
  BY <1>2 DEF PlacesInv, Placed, PrefixEnd, Padded, Named
<1>3. ASSUME NEW o \in Ops, Write(o)  PROVE PlacesInv'
  BY <1>2, <1>3 DEF Write
<1>4. CASE Pad
  <2>1. pc = "align" /\ off <= MaxOffset /\ UNCHANGED <<setup, items, start>>
    BY <1>4 DEF Pad
  <2>2. start \in 0 .. MaxOffset
    BY <1>1, <2>1 DEF PlacesInv
  <2>. QED  BY <1>2, <2>1, <2>2
<1>5. CASE WriteValue
  <2>. DEFINE it == [op |-> op, start |-> start, head |-> off, end |-> off',
                     garbage |-> 0, name |-> 0]
  <2>1. /\ pc = "align" /\ pc' = "choose" /\ op \in Ops /\ op.kind # "object" /\ op.len \in Nat
        /\ off' = off + op.len /\ items' = Append(items, it) /\ UNCHANGED setup
        /\ op.kind # "vu" => Aligned(off, op.align)
    BY <1>5, LayoutAssumption DEF WriteValue, Aligning, LayoutInv, WriteInv
  <2>2. it \in ItemType
    BY <1>1, <2>1 DEF ItemType
  <2>3. Placed(it)
    BY <2>1 DEF PlacesInv, Placed
  <2>. HIDE DEF it
  <2>. QED  BY <1>1, <2>1, <2>2, <2>3, AppendPlaced
<1>6. CASE WriteObject
  <2>. DEFINE name  == IF Named THEN Smaller(op.len, MaxName) ELSE 0
              base  == off + Word
              block == (IF Named THEN Word + name ELSE 0) + (IF Padded THEN Word ELSE 0)
              objs  == ObjectStart(base, block)
              it == [op |-> op, start |-> start, head |-> off, end |-> objs,
                     garbage |-> Garbage(base, objs), name |-> name]
  <2>1. /\ pc = "align" /\ pc' = "choose" /\ op \in Ops /\ op.kind = "object" /\ op.len \in Nat
        /\ base + block <= MaxOffset /\ items' = Append(items, it) /\ UNCHANGED setup
        /\ Aligned(off, op.align)
    BY <1>6, LayoutAssumption DEF WriteObject, Aligning, LayoutInv, WriteInv
  <2>2. it \in ItemType
    <3>1. TypeOK' /\ Len(items') \in 1 .. Len(items')  /\ items'[Len(items')] = it
      <4>1. TypeOK' /\ items \in Seq(ItemType)
        BY <1>1, <1>6, WriteObjectStep DEF LayoutInv, TypeOK, ItemType
      <4>. HIDE DEF it
      <4>. QED  BY <2>1, <4>1
    <3>2. items' \in Seq(ItemType)
      BY <3>1 DEF TypeOK, ItemType
    <3>. HIDE DEF it
    <3>. QED  BY <3>1, <3>2
  <2>3. name \in Nat
    BY <1>1, <2>1 DEF Smaller
  <2>4. ASSUME Padded  PROVE PrefixEnd(it) = base + block /\ it.end = Align(base + block, ForcedAlign)
    <3>1. PICK n \in Nat : n = name
      BY <2>3
    <3>2. base + block = off + 2 * Word + IF Named THEN Word + n ELSE 0
      <4>. HIDE DEF name
      <4>. QED  BY <1>1, <2>4, <3>1 DEF Word
    <3>3. PrefixEnd(it) = off + 2 * Word + IF Named THEN Word + n ELSE 0
      <4>. HIDE DEF name, objs
      <4>. QED  BY <3>1 DEF PrefixEnd
    <3>. QED  BY <2>4, <3>2, <3>3 DEF ObjectStart
  <2>5. Padded => base + block \in 1 .. MaxOffset
    BY <1>1, <2>1, <2>3 DEF Word
  <2>6. Placed(it)
    <3>1. it.start = start /\ it.head = off /\ it.op = op /\ it.op.kind = "object"
      BY <2>1
    <3>2. start = off \/ start \in 0 .. MaxOffset
      BY <2>1 DEF PlacesInv
    <3>. HIDE DEF it, base, block
    <3>. QED  BY <2>1, <2>4, <2>5, <3>1, <3>2 DEF Placed
  <2>. HIDE DEF it
  <2>. QED  BY <1>1, <2>1, <2>2, <2>6, AppendPlaced
<1>7. CASE Finish
  BY <1>2, <1>7 DEF Finish
<1>8. CASE ReadValue \/ ReadVu \/ ReadObject
  <2>1. UNCHANGED <<setup, items>> /\ pc = "read"
    BY <1>8 DEF ReadValue, ReadVu, ReadObject
  <2>2. pc' # "align"
    BY <1>8, <2>1 DEF ReadValue, ReadVu, ReadObject, Outcome
  <2>. QED  BY <1>2, <2>1, <2>2
<1>9. CASE Done
  BY <1>2, <1>9 DEF Done
<1>10. CASE UNCHANGED vars
  BY <1>2, <1>10 DEF vars, PlacesInv
<1>. QED  BY <1>3, <1>4, <1>5, <1>6, <1>7, <1>8, <1>9, <1>10 DEF Next, Step

LEMMA PlacesAreFirst ==
  ASSUME LayoutInv, PlacesInv  PROVE FirstMultiple
<1>. SUFFICES ASSUME NEW i \in 1 .. Len(items)
              PROVE  LET it == items[i] IN
                /\ it.op.kind # "vu" /\ it.op.align \in PowersOfTwo =>
                     it.head % it.op.align = 0 /\ it.head - it.start \in 0 .. it.op.align - 1
                /\ it.op.kind = "object" /\ Padded =>
                     it.end % ForcedAlign = 0 /\ it.end - PrefixEnd(it) \in 0 .. ForcedAlign - 1
  <2>1. DOMAIN items = 1 .. Len(items)
    BY DEF LayoutInv, TypeOK
  <2>. QED  BY <2>1 DEF FirstMultiple, PrefixEnd
<1>1. PICK it \in ItemType : it = items[i]
  <2>1. items \in Seq(ItemType)
    BY DEF LayoutInv, TypeOK, ItemType
  <2>2. items[i] \in ItemType
    BY <2>1
  <2>. QED  BY <2>2
<1>2. /\ it.start \in Nat /\ it.head \in Nat /\ it.op \in Ops
      /\ it.head = Begins(it.start, it.op) /\ Placed(it)
  BY <1>1 DEF ItemType, LayoutInv, ItemsInv, ItemInStep, PlacesInv
<1>3. MaxOffset \in Nat /\ MaxOffset + it.op.align <= 2^OffsetBits /\ it.op.align \in Nat \ {0}
  BY <1>2, LayoutAssumption
<1>4. ASSUME it.op.kind # "vu", it.op.align \in PowersOfTwo
      PROVE  it.head % it.op.align = 0 /\ it.head - it.start \in 0 .. it.op.align - 1
  <2>1. it.head % it.op.align = 0
    BY <1>2, <1>4, AlignedIs DEF Placed
  <2>2. CASE it.start = it.head
    BY <1>2, <1>3, <2>1, <2>2
  <2>3. CASE it.start # it.head
    <3>1. ~Aligned(it.start, it.op.align) /\ it.head = Align(it.start, it.op.align)
      BY <1>2, <1>4, <2>3 DEF Begins, Target
    <3>2. it.start \in 0 .. MaxOffset
      BY <1>2, <2>3 DEF Placed
    <3>3. it.start # 0
      BY <1>2, <3>1, <3>2, Alignment
    <3>4. PICK z \in Nat : z = 2^OffsetBits
      BY <1>4, Powers, PowerType
    <3>5. it.start \in 1 .. 2^OffsetBits
      BY <1>3, <3>2, <3>3, <3>4
    <3>. QED  BY <1>4, <2>1, <3>1, <3>5, FirstBehind
  <2>. QED  BY <2>2, <2>3
<1>5. ASSUME it.op.kind = "object", Padded
      PROVE  it.end % ForcedAlign = 0 /\ it.end - PrefixEnd(it) \in 0 .. ForcedAlign - 1
  <2>1. PrefixEnd(it) \in 1 .. MaxOffset /\ it.end = Align(PrefixEnd(it), ForcedAlign)
    BY <1>2, <1>5 DEF Placed
  <2>2. PICK full \in 1 .. 2^OffsetBits : full = PrefixEnd(it)
    BY <2>1, ForcedRoom
  <2>. QED  BY <2>1, <2>2, ForcedRoom, FirstBehind
<1>. QED  BY <1>1, <1>4, <1>5

\* Padding in rounds leads to the first multiple of the alignment, and an object's
\* data to that of forced_align.
THEOREM LayoutFirstMultiple == Spec => []FirstMultiple
<1>1. Init => PlacesInv
  BY DEF Init, PlacesInv
<1>2. LayoutInv /\ PlacesInv /\ [Next]_vars => PlacesInv'
  BY PlacesStep
<1>3. LayoutInv /\ PlacesInv => FirstMultiple
  BY PlacesAreFirst
<1>. QED  BY <1>1, <1>2, <1>3, LayoutInvariant, PTL DEF Spec
=============================================================================
