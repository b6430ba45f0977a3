---------------------------- MODULE VarUIntProofs ----------------------------
(***************************************************************************)
(* Theorems about VarUInt, for words, quantities and size_t of any width,  *)
(* any numbers and streams of any length.                                  *)
(***************************************************************************)
EXTENDS VarUInt, BinaryProofs

-----------------------------------------------------------------------------
(* The words of a number.                                                  *)

\* What euleb has left of q after i rounds.
Rest(q, i) == q \div 2^(i * VBits)
\* The number has bits there: shifting by so much is defined.
Reaches(i) == i * VBits < QuantityBits

\* The words from, from + 1, .. to - 1 of ws are those of q, one for each round.
WordsOf(q, ws, from, to) ==
  \A j \in 0 .. to - from - 1 :
    /\ ws[from + j + 1] = Word(Rest(q, j)) /\ Reaches(j)
    /\ More(Rest(q, j)) <=> j < to - from - 1

LEMMA Widths ==
  /\ WordBits \in Nat /\ SizeBits \in Nat /\ QuantityBits \in Nat /\ MaxCount \in Nat
  /\ VBits \in Nat \ {0} /\ VBits < QuantityBits /\ QuantityBits <= SizeBits
  /\ 2 * SizeBits \in Nat /\ Doubling(2 * SizeBits) /\ Doubling(SizeBits)
  /\ HMask \in Nat \ {0} /\ 2^WordBits = 2 * HMask
  /\ 2^QuantityBits \in Nat \ {0} /\ 2^SizeBits \in Nat \ {0} /\ 2^QuantityBits <= 2^SizeBits
<1>1. /\ WordBits \in Nat /\ SizeBits \in Nat /\ QuantityBits \in Nat /\ MaxCount \in Nat
      /\ VBits \in Nat \ {0} /\ VBits < QuantityBits /\ QuantityBits <= SizeBits
      /\ 2 * SizeBits \in Nat /\ Doubling(2 * SizeBits)
  BY VarUIntAssumption DEF VBits
<1>2. Doubling(SizeBits)
  BY <1>1 DEF Doubling
<1>3. HMask \in Nat \ {0} /\ 2^WordBits = 2 * HMask
  <2>1. VBits \in 0 .. 2 * SizeBits /\ VBits + 1 = WordBits
    BY <1>1 DEF VBits
  <2>2. 2^(VBits + 1) = 2 * 2^VBits
    BY <1>1, <2>1 DEF Doubling
  <2>3. 2^VBits \in Nat \ {0}
    <3>1. VBits \in 0 .. 2 * SizeBits + 1
      BY <1>1, <2>1
    <3>. QED  BY <1>1, <3>1, PowerType
  <2>. QED  BY <2>1, <2>2, <2>3 DEF HMask
<1>4. QuantityBits \in 0 .. SizeBits + 1 /\ SizeBits \in 0 .. SizeBits + 1
  BY <1>1
<1>5. 2^QuantityBits \in Nat \ {0} /\ 2^SizeBits \in Nat \ {0}
  BY <1>1, <1>2, <1>4, PowerType
<1>6. 2^QuantityBits <= 2^SizeBits
  <2>1. CASE QuantityBits = SizeBits
    BY <1>5, <2>1
  <2>2. CASE QuantityBits < SizeBits
    <3>1. 2^QuantityBits < 2^SizeBits
      BY <1>1, <1>2, <1>4, <2>2, PowerMonotone
    <3>. QED  BY <1>5, <3>1
  <2>. QED  BY <1>1, <2>1, <2>2
<1>. QED  BY <1>1, <1>2, <1>3, <1>5, <1>6

\* The power by which the words of one more round are shifted.
LEMMA NextPower ==
  ASSUME NEW i \in Nat, Reaches(i)
  PROVE  /\ 2^(i * VBits) \in Nat \ {0}
         /\ 2^((i + 1) * VBits) = 2^(i * VBits) * HMask
         /\ i * VBits \in 0 .. SizeBits - 1 /\ (i + 1) * VBits \in 0 .. 2 * SizeBits
<1>1. PICK k \in Nat : k = i * VBits
  BY Widths
<1>2. (i + 1) * VBits = k + VBits
  BY <1>1, Widths
<1>3. k \in 0 .. SizeBits - 1 /\ k + VBits \in 0 .. 2 * SizeBits
  BY <1>1, Widths DEF Reaches
<1>4. 2^k \in Nat \ {0}
  <2>1. k \in 0 .. 2 * SizeBits + 1
    BY <1>3, Widths
  <2>. QED  BY <2>1, Widths, PowerType
<1>5. 2^(k + VBits) = 2^k * 2^VBits
  <2>1. k + VBits <= 2 * SizeBits + 1 /\ VBits \in Nat
    BY <1>3, Widths
  <2>. QED  BY <2>1, Widths, PowerSum
<1>. QED  BY <1>1, <1>2, <1>3, <1>4, <1>5 DEF HMask

\* One round of euleb shifts, and one that goes on has bits left to write.
LEMMA NextRest ==
  ASSUME NEW q \in 0 .. 2^QuantityBits - 1, NEW i \in Nat, Reaches(i)
  PROVE  /\ Rest(q, i) \in Nat /\ Rest(q, i) <= q
         /\ Rest(q, i + 1) = Rest(q, i) \div HMask
         /\ More(Rest(q, i)) => Reaches(i + 1) /\ 2^((i + 1) * VBits) <= q
<1>1. q \in Nat
  BY Widths
<1>2. PICK p \in Nat \ {0} : p = 2^(i * VBits)
  BY NextPower
<1>3. PICK h \in Nat \ {0} : h = HMask
  BY Widths
<1>4. 2^((i + 1) * VBits) = p * h
  BY <1>2, <1>3, NextPower
<1>5. (q \div p) \div h = q \div (p * h)
  BY <1>1, DivDiv, Zenon
<1>6. q \div p \in Nat /\ q \div p <= q
  BY <1>1
<1>7. ASSUME More(Rest(q, i))
      PROVE  Reaches(i + 1) /\ 2^((i + 1) * VBits) <= q
  <2>1. q \div (p * h) # 0
    BY <1>2, <1>3, <1>5, <1>7 DEF More, Rest
  <2>2. PICK x \in Nat \ {0} : x = p * h
    OBVIOUS
  <2>3. x <= q
    BY <1>1, <2>1, <2>2
  <2>4. PICK k \in 0 .. 2 * SizeBits : k = (i + 1) * VBits
    BY NextPower
  <2>5. 2^k < 2^QuantityBits
    BY <1>1, <1>4, <2>2, <2>3, <2>4, Widths
  <2>6. k < QuantityBits
    <3>1. k \in 0 .. 2 * SizeBits + 1 /\ QuantityBits \in 0 .. 2 * SizeBits + 1
      BY Widths
    <3>. QED  BY <2>5, <3>1, Widths, PowerMonotone
  <2>. QED  BY <1>4, <2>2, <2>3, <2>4, <2>6 DEF Reaches
<1>. QED  BY <1>2, <1>3, <1>4, <1>5, <1>6, <1>7 DEF Rest

\* A word carries VBits bits of what was left, and whether there are more.
LEMMA WordCarries ==
  ASSUME NEW n \in Nat
  PROVE  /\ Word(n) \in 0 .. 2^WordBits - 1
         /\ Word(n) % HMask = n % HMask
         /\ Word(n) >= HMask <=> More(n)
<1>1. PICK h \in Nat \ {0} : h = HMask /\ 2^WordBits = 2 * h
  BY Widths
<1>2. n % h \in 0 .. h - 1
  BY <1>1
<1>3. CASE More(n)
  <2>1. Word(n) = (n % h) + h
    BY <1>1, <1>3 DEF Word
  <2>2. ((n % h) + h) % h = n % h
    <3>1. PICK t \in 0 .. h - 1 : t = n % h
      BY <1>2
    <3>2. (1 * h + t) % h = t
      BY DivModUnique, 1 \in Nat, Zenon
    <3>3. t + h = 1 * h + t
      OBVIOUS
    <3>. QED  BY <3>1, <3>2, <3>3
  <2>. QED  BY <1>1, <1>2, <1>3, <2>1, <2>2
<1>4. CASE ~More(n)
  <2>1. n < h
    BY <1>1, <1>4 DEF More
  <2>2. Word(n) = n
    BY <1>1, <1>4, <2>1 DEF Word
  <2>3. n % h = n
    BY <2>1
  <2>. QED  BY <1>1, <1>4, <2>1, <2>2, <2>3
<1>. QED  BY <1>3, <1>4

\* One round of duleb: of the number it has one word more.
LEMMA DecodeNext ==
  ASSUME NEW q \in 0 .. 2^QuantityBits - 1, NEW j \in Nat, Reaches(j)
  PROVE  /\ Or(q % 2^(j * VBits), ((Word(Rest(q, j)) % HMask) * 2^(j * VBits)) % 2^SizeBits, SizeBits)
              = q % 2^((j + 1) * VBits)
         /\ ~More(Rest(q, j)) => q % 2^((j + 1) * VBits) = q
<1>1. q \in Nat /\ q < 2^SizeBits
  BY Widths
<1>2. PICK k \in 0 .. SizeBits : k = j * VBits
  BY NextPower, Widths
<1>3. PICK p \in Nat \ {0} : p = 2^k
  BY <1>2, NextPower
<1>4. PICK h \in Nat \ {0} : h = HMask
  BY Widths
<1>5. 2^((j + 1) * VBits) = p * h
  BY <1>2, <1>3, <1>4, NextPower
<1>6. PICK u \in Nat, m \in 0 .. p - 1 : q = u * p + m /\ q \div p = u /\ q % p = m
  BY <1>1, DivMod
<1>7. PICK e \in Nat, d \in 0 .. h - 1 : u = e * h + d /\ u \div h = e /\ u % h = d
  BY DivMod
<1>8. Rest(q, j) = u
  BY <1>2, <1>3, <1>6 DEF Rest
<1>9. Word(Rest(q, j)) % HMask = d
  BY <1>4, <1>7, <1>8, WordCarries
<1>10. d * p + m \in 0 .. p * h - 1 /\ q = e * (p * h) + (d * p + m)
  <2>1. d * p <= (h - 1) * p
    <3>1. PICK f \in Nat : h - 1 = d + f
      <4>1. h - 1 = d + (h - 1 - d) /\ h - 1 - d \in Nat
        OBVIOUS
      <4>. QED  BY <4>1
    <3>2. (d + f) * p = d * p + f * p /\ f * p \in Nat /\ d * p \in Nat
      OBVIOUS
    <3>. QED  BY <3>1, <3>2
  <2>2. (h - 1) * p + p = p * h /\ d * p \in Nat
    OBVIOUS
  <2>3. q = (e * h + d) * p + m
    BY <1>6, <1>7
  <2>4. (e * h + d) * p = e * (p * h) + d * p
    OBVIOUS
  <2>5. PICK x \in Nat, y \in Nat, z \in Nat : x = d * p /\ y = p * h /\ z = (h - 1) * p
    OBVIOUS
  <2>6. x + m \in 0 .. y - 1
    BY <2>1, <2>2, <2>5
  <2>7. q = e * y + (x + m)
    BY <2>3, <2>4, <2>5
  <2>. QED  BY <2>5, <2>6, <2>7
<1>11. PICK x \in Nat : x = d * p
  OBVIOUS
<1>12. q % (p * h) = x + m /\ q \div (p * h) = e
  <2>1. PICK y \in Nat \ {0} : y = p * h
    OBVIOUS
  <2>2. q = e * y + (x + m) /\ x + m \in 0 .. y - 1
    BY <1>10, <1>11, <2>1
  <2>3. PICK v \in 0 .. y - 1 : v = x + m
    BY <2>2
  <2>4. (e * y + v) % y = v /\ (e * y + v) \div y = e
    BY DivModUnique
  <2>. QED  BY <2>1, <2>2, <2>3, <2>4
<1>13. x + m <= q
  BY <1>10, <1>11
<1>14. (d * p) % 2^SizeBits = d * p
  <2>1. x < 2^SizeBits
    BY <1>1, <1>13, Widths
  <2>. QED  BY <1>11, <2>1, Widths
<1>15. Or(m, d * 2^k, SizeBits) = m + d * 2^k
  <2>1. m + d * 2^k < 2^SizeBits /\ m \in 0 .. 2^k - 1 /\ d \in Nat
    BY <1>1, <1>3, <1>11, <1>13, Widths
  <2>. QED  BY <2>1, OrAdds, Widths
<1>16. Or(m, d * p, SizeBits) = x + m
  BY <1>3, <1>11, <1>15
<1>17. ASSUME ~More(Rest(q, j))  PROVE e = 0
  BY <1>4, <1>7, <1>8, <1>17 DEF More
<1>18. e = 0 => q = x + m
  BY <1>10, <1>11
<1>. QED  BY <1>2, <1>3, <1>5, <1>6, <1>9, <1>12, <1>14, <1>16, <1>17, <1>18

-----------------------------------------------------------------------------
(* The invariant.                                                          *)

\* How many numbers have their words in the stream.
Flushed == IF pc \in {"encode", "flush"} THEN Len(sent) - 1 ELSE Len(sent)

\* euleb has written a word for each round, and is left with the rest.
EncodeInv ==
  pc \in {"encode", "flush"} =>
    LET q == sent[Len(sent)] IN
    /\ sent # <<>>
    /\ pc = "encode" =>
         /\ Reaches(Len(o)) /\ s = Rest(q, Len(o))
         /\ \A j \in 0 .. Len(o) - 1 :
              o[j + 1] = Word(Rest(q, j)) /\ Reaches(j) /\ More(Rest(q, j))
    /\ pc = "flush" => o # <<>> /\ WordsOf(q, o, 0, Len(o))

\* The stream falls into pieces, which end at the places cut, one for the words of
\* each number.
Cuts(cut) ==
  /\ cut[0] = 0 /\ cut[Flushed] = Len(stream)
  /\ \A i \in 1 .. Flushed :
       cut[i - 1] < cut[i] /\ WordsOf(sent[i], stream, cut[i - 1], cut[i])

\* A decoder begins where a piece does, stops at its end, and has the lower bits
\* of the number in between, or-ed into what its accumulator held.
DecodeInv(cut) ==
  /\ Len(got) <= Len(sent)
  /\ Len(found) = Len(got) + (IF pc = "decode" THEN 1 ELSE 0)
  /\ pc \in {"write", "encode", "flush"} => got = <<>> /\ pos = 0
  /\ pc = "read" => pos = cut[Len(got)]
  /\ pc = "decode" =>
       /\ Len(got) < Len(sent)
       /\ pos = cut[Len(got)] + state /\ pos < cut[Len(got) + 1]
       /\ acc = Or(found[Len(got) + 1], sent[Len(got) + 1] % 2^(state * VBits), SizeBits)
  /\ \A i \in DOMAIN got : got[i] = Or(found[i], sent[i], SizeBits) % 2^QuantityBits

VarUIntInv ==
  /\ TypeOK /\ EncodeInv
  /\ \E cut \in [0 .. Flushed -> 0 .. Len(stream)] : Cuts(cut) /\ DecodeInv(cut)

LEMMA NumbersInRange ==
  ASSUME TypeOK, NEW i \in 1 .. Len(sent)
  PROVE  sent[i] \in 0 .. 2^QuantityBits - 1
<1>1. sent \in Seq(Quantities)
  BY DEF TypeOK
<1>2. sent[i] \in Quantities
  BY <1>1
<1>. QED  BY <1>2, VarUIntAssumption

LEMMA ReachesFirst == Reaches(0)
BY Widths DEF Reaches

-----------------------------------------------------------------------------
(* The steps.                                                              *)

LEMMA VarUIntStarts ==
  ASSUME Init  PROVE VarUIntInv
<1>1. TypeOK
  BY Widths DEF Init, TypeOK
<1>2. EncodeInv
  BY DEF Init, EncodeInv
<1>3. [i \in 0 .. 0 |-> 0] \in [0 .. Flushed -> 0 .. Len(stream)]
  BY DEF Init, Flushed
<1>4. Cuts([i \in 0 .. 0 |-> 0]) /\ DecodeInv([i \in 0 .. 0 |-> 0])
  BY DEF Init, Flushed, Cuts, DecodeInv
<1>. QED  BY <1>1, <1>2, <1>3, <1>4 DEF VarUIntInv

LEMMA PutStep ==
  ASSUME VarUIntInv, NEW q \in Quantities, Put(q)  PROVE VarUIntInv'
<1>1. TypeOK /\ sent \in Seq(Quantities) /\ q \in 0 .. 2^QuantityBits - 1
  BY VarUIntAssumption DEF VarUIntInv, TypeOK
<1>2. TypeOK'
  <2>1. q \in 0 .. 2^SizeBits - 1
    BY <1>1, Widths
  <2>. QED  BY <1>1, <2>1 DEF Put, TypeOK
<1>3. Len(sent') = Len(sent) + 1 /\ sent'[Len(sent')] = q /\ \A i \in 1 .. Len(sent) : sent'[i] = sent[i]
  BY <1>1 DEF Put
<1>4. EncodeInv'
  <2>1. Rest(q, 0) = q
    <3>1. 0 * VBits = 0 /\ 2^0 = 1
      BY Widths
    <3>2. q \div 1 = q
      BY <1>1, Widths
    <3>. QED  BY <3>1, <3>2 DEF Rest
  <2>. QED  BY <1>1, <1>3, <2>1, ReachesFirst DEF Put, EncodeInv
<1>5. PICK cut \in [0 .. Flushed -> 0 .. Len(stream)] : Cuts(cut) /\ DecodeInv(cut)
  BY DEF VarUIntInv
<1>6. Flushed = Len(sent) /\ Flushed' = Len(sent)
  BY <1>1, <1>3 DEF Flushed, Put
<1>7. Cuts(cut)'
  BY <1>3, <1>5, <1>6 DEF Cuts, Put
<1>8. DecodeInv(cut)'
  BY <1>1, <1>3, <1>5 DEF DecodeInv, Put
<1>9. cut \in [0 .. Flushed' -> 0 .. Len(stream')]
  BY <1>5, <1>6 DEF Put
<1>. QED  BY <1>2, <1>4, <1>7, <1>8, <1>9 DEF VarUIntInv

LEMMA EncodeWordStep ==
  ASSUME VarUIntInv, EncodeWord  PROVE VarUIntInv'
<1>1. TypeOK /\ EncodeInv /\ pc = "encode" /\ sent # <<>> /\ sent \in Seq(Quantities)
  BY DEF VarUIntInv, EncodeWord, EncodeInv, TypeOK
<1>. DEFINE q == sent[Len(sent)]
            n == Len(o)
<1>2. q \in 0 .. 2^QuantityBits - 1 /\ n \in Nat /\ Reaches(n) /\ s = Rest(q, n)
  <2>1. Len(sent) \in 1 .. Len(sent) /\ n \in Nat
    BY <1>1 DEF TypeOK
  <2>. QED  BY <1>1, <2>1, NumbersInRange DEF EncodeInv
<1>3. /\ s \in Nat /\ Rest(q, n + 1) = s \div HMask
      /\ More(s) => Reaches(n + 1)
  <2>. HIDE DEF q, n
  <2>. QED  BY <1>2, NextRest
<1>4. Word(s) \in 0 .. 2^WordBits - 1
  BY <1>3, WordCarries
<1>5. o' = Append(o, Word(s)) /\ s' = s \div HMask /\ UNCHANGED <<sent, stream, pos, acc, state, found, got>>
  BY DEF EncodeWord
<1>6. /\ Len(o') = n + 1 /\ o'[n + 1] = Word(s)
      /\ \A j \in 0 .. n - 1 : o'[j + 1] = o[j + 1]
  BY <1>1, <1>5 DEF TypeOK
<1>7. TypeOK'
  <2>1. s' \in 0 .. 2^SizeBits - 1
    <3>1. s \in 0 .. 2^SizeBits - 1
      BY <1>1 DEF TypeOK
    <3>2. PICK h \in Nat \ {0} : h = HMask
      BY Widths
    <3>3. s \div h \in 0 .. s
      BY <1>3
    <3>. QED  BY <1>5, <3>1, <3>2, <3>3, Widths
  <2>. QED  BY <1>1, <1>4, <1>5, <2>1 DEF TypeOK, EncodeWord
<1>8. \A j \in 0 .. n - 1 : o[j + 1] = Word(Rest(q, j)) /\ Reaches(j) /\ More(Rest(q, j))
  BY <1>1 DEF EncodeInv
<1>9. EncodeInv'
  <2>1. CASE More(s)
    <3>1. pc' = "encode"
      BY <2>1 DEF EncodeWord
    <3>2. ASSUME NEW j \in 0 .. Len(o') - 1
          PROVE  o'[j + 1] = Word(Rest(q, j)) /\ Reaches(j) /\ More(Rest(q, j))
      <4>1. j \in 0 .. n - 1 \/ j = n
        BY <1>2, <1>6
      <4>. HIDE DEF q, n
      <4>. QED  BY <1>2, <1>6, <1>8, <2>1, <4>1
    <3>. QED  BY <1>1, <1>2, <1>3, <1>5, <1>6, <2>1, <3>1, <3>2 DEF EncodeInv
  <2>2. CASE ~More(s)
    <3>1. pc' = "flush"
      BY <2>2 DEF EncodeWord
    <3>2. ASSUME NEW j \in 0 .. Len(o') - 0 - 1
          PROVE  /\ o'[0 + j + 1] = Word(Rest(q, j)) /\ Reaches(j)
                 /\ More(Rest(q, j)) <=> j < Len(o') - 0 - 1
      <4>1. j \in 0 .. n - 1 \/ j = n
        BY <1>2, <1>6
      <4>2. 0 + j + 1 = j + 1 /\ Len(o') - 0 - 1 = n
        BY <1>2, <1>6
      <4>. HIDE DEF q, n
      <4>. QED  BY <1>2, <1>6, <1>8, <2>2, <4>1, <4>2
    <3>3. WordsOf(q, o', 0, Len(o')) /\ o' # <<>>
      BY <1>2, <1>6, <3>2 DEF WordsOf
    <3>. QED  BY <1>1, <1>5, <3>1, <3>3 DEF EncodeInv
  <2>. QED  BY <2>1, <2>2
<1>10. PICK cut \in [0 .. Flushed -> 0 .. Len(stream)] : Cuts(cut) /\ DecodeInv(cut)
  BY DEF VarUIntInv
<1>11. pc' \in {"encode", "flush"} /\ Flushed' = Flushed
  BY <1>1, <1>5 DEF EncodeWord, Flushed
<1>12. Cuts(cut)' /\ DecodeInv(cut)'
  BY <1>1, <1>5, <1>10, <1>11 DEF Cuts, DecodeInv
<1>13. cut \in [0 .. Flushed' -> 0 .. Len(stream')]
  BY <1>5, <1>10, <1>11
<1>. QED  BY <1>7, <1>9, <1>12, <1>13 DEF VarUIntInv

LEMMA FlushStep ==
  ASSUME VarUIntInv, Flush  PROVE VarUIntInv'
<1>1. TypeOK /\ EncodeInv /\ pc = "flush" /\ sent # <<>> /\ sent \in Seq(Quantities)
      /\ o # <<>> /\ WordsOf(sent[Len(sent)], o, 0, Len(o))
  BY DEF VarUIntInv, Flush, EncodeInv, TypeOK
<1>2. /\ pc' = "write" /\ stream' = stream \o o /\ o' = <<>>
      /\ UNCHANGED <<sent, s, pos, acc, state, found, got>>
  BY DEF Flush
<1>3. /\ Len(stream') = Len(stream) + Len(o) /\ Len(stream) \in Nat /\ Len(o) \in Nat \ {0}
      /\ \A i \in 1 .. Len(stream) : stream'[i] = stream[i]
      /\ \A i \in 1 .. Len(o) : stream'[Len(stream) + i] = o[i]
  BY <1>1, <1>2 DEF TypeOK
<1>4. TypeOK'
  BY <1>1, <1>2, <1>3 DEF TypeOK
<1>5. EncodeInv'
  BY <1>2 DEF EncodeInv
<1>6. PICK cut \in [0 .. Flushed -> 0 .. Len(stream)] : Cuts(cut) /\ DecodeInv(cut)
  BY DEF VarUIntInv
<1>7. Flushed = Len(sent) - 1 /\ Flushed' = Len(sent) /\ Len(sent) \in Nat \ {0}
  BY <1>1, <1>2 DEF Flushed
<1>8. PICK new \in [0 .. Flushed' -> 0 .. Len(stream')] :
        new[Len(sent)] = Len(stream') /\ \A i \in 0 .. Len(sent) - 1 : new[i] = cut[i]
  <2>. DEFINE f == [i \in 0 .. Len(sent) |-> IF i = Len(sent) THEN Len(stream') ELSE cut[i]]
  <2>1. f \in [0 .. Flushed' -> 0 .. Len(stream')]
    BY <1>3, <1>6, <1>7
  <2>2. f[Len(sent)] = Len(stream') /\ \A i \in 0 .. Len(sent) - 1 : f[i] = cut[i]
    BY <1>7
  <2>. QED  BY <2>1, <2>2
<1>9. new[Len(sent)] = Len(stream') /\ \A i \in 0 .. Len(sent) - 1 : new[i] = cut[i]
  BY <1>8
<1>10. Cuts(new)'
  <2>1. new[0] = 0 /\ new[Flushed'] = Len(stream')
    BY <1>6, <1>7, <1>9 DEF Cuts
  <2>2. ASSUME NEW i \in 1 .. Len(sent) - 1
        PROVE  new[i - 1] < new[i] /\ WordsOf(sent[i], stream', new[i - 1], new[i])
    <3>1. i \in 1 .. Flushed /\ i - 1 \in 0 .. Flushed /\ new[i] = cut[i] /\ new[i - 1] = cut[i - 1]
      BY <1>7, <1>9
    <3>2. cut[i - 1] < cut[i] /\ WordsOf(sent[i], stream, cut[i - 1], cut[i])
      BY <1>6, <3>1 DEF Cuts
    <3>3. cut[i - 1] \in 0 .. Len(stream) /\ cut[i] \in 0 .. Len(stream)
      BY <1>6, <3>1
    <3>4. ASSUME NEW j \in 0 .. cut[i] - cut[i - 1] - 1
          PROVE  stream'[cut[i - 1] + j + 1] = stream[cut[i - 1] + j + 1]
      <4>1. PICK a \in Nat, b \in Nat, l \in Nat :
              a = cut[i - 1] /\ b = cut[i] /\ l = Len(stream) /\ b <= l
        BY <1>3, <3>3
      <4>2. j \in 0 .. b - a - 1
        BY <4>1
      <4>3. a + j + 1 \in 1 .. l
        BY <4>1, <4>2, InPiece
      <4>4. cut[i - 1] + j + 1 \in 1 .. Len(stream)
        BY <4>1, <4>3
      <4>. QED  BY <1>3, <4>4
    <3>. QED  BY <3>1, <3>2, <3>4 DEF WordsOf
  <2>3. /\ new[Len(sent) - 1] < new[Len(sent)]
        /\ WordsOf(sent[Len(sent)], stream', new[Len(sent) - 1], new[Len(sent)])
    <3>1. new[Len(sent) - 1] = Len(stream)
      BY <1>6, <1>7, <1>9 DEF Cuts
    <3>2. ASSUME NEW j \in 0 .. Len(o) - 1
          PROVE  stream'[Len(stream) + j + 1] = o[0 + j + 1]
      <4>1. j + 1 \in 1 .. Len(o) /\ Len(stream) + j + 1 = Len(stream) + (j + 1) /\ 0 + j + 1 = j + 1
        BY <1>3
      <4>. QED  BY <1>3, <4>1
    <3>3. Len(stream') - Len(stream) - 1 = Len(o) - 1 /\ Len(o) - 0 - 1 = Len(o) - 1
      BY <1>3
    <3>4. WordsOf(sent[Len(sent)], stream', Len(stream), Len(stream'))
      BY <1>1, <3>2, <3>3 DEF WordsOf
    <3>. QED  BY <1>3, <1>9, <3>1, <3>4
  <2>4. ASSUME NEW i \in 1 .. Len(sent)
        PROVE  new[i - 1] < new[i] /\ WordsOf(sent[i], stream', new[i - 1], new[i])
    <3>1. i \in 1 .. Len(sent) - 1 \/ i = Len(sent)
      BY <1>7
    <3>. QED  BY <2>2, <2>3, <3>1
  <2>. QED  BY <1>2, <1>7, <2>1, <2>4 DEF Cuts
<1>11. DecodeInv(new)'
  BY <1>1, <1>2, <1>6 DEF DecodeInv
<1>. QED  BY <1>4, <1>5, <1>8, <1>10, <1>11 DEF VarUIntInv

LEMMA CloseStep ==
  ASSUME VarUIntInv, Close  PROVE VarUIntInv'
<1>1. TypeOK /\ pc = "write" /\ pc' = "read"
      /\ UNCHANGED <<sent, stream, s, o, pos, acc, state, found, got>>
  BY DEF VarUIntInv, Close
<1>2. TypeOK' /\ EncodeInv'
  BY <1>1 DEF TypeOK, EncodeInv
<1>3. PICK cut \in [0 .. Flushed -> 0 .. Len(stream)] : Cuts(cut) /\ DecodeInv(cut)
  BY DEF VarUIntInv
<1>4. Flushed' = Flushed
  BY <1>1 DEF Flushed
<1>5. Cuts(cut)'
  BY <1>1, <1>3, <1>4 DEF Cuts
<1>6. DecodeInv(cut)'
  BY <1>1, <1>3 DEF DecodeInv, Cuts
<1>. QED  BY <1>1, <1>2, <1>3, <1>4, <1>5, <1>6 DEF VarUIntInv

\* While the numbers are read, every one of them has its words in the stream.
LEMMA Reading ==
  ASSUME VarUIntInv, pc \in {"read", "decode"}
  PROVE  /\ Flushed = Len(sent) /\ Len(sent) \in Nat /\ Len(got) \in Nat /\ Len(got) <= Len(sent)
         /\ \E cut \in [0 .. Flushed -> 0 .. Len(stream)] : Cuts(cut) /\ DecodeInv(cut)
<1>1. sent \in Seq(Quantities) /\ got \in Seq(0 .. 2^QuantityBits - 1)
  BY DEF VarUIntInv, TypeOK
<1>. QED  BY <1>1 DEF VarUIntInv, Flushed, DecodeInv

LEMMA GetStep ==
  ASSUME VarUIntInv, Get  PROVE VarUIntInv'
<1>1. TypeOK /\ pc = "read" /\ pc' = "decode" /\ Len(got) < Len(sent)
      /\ state' = 0 /\ UNCHANGED <<sent, stream, s, o, pos, got>>
  BY DEF VarUIntInv, Get
<1>2. PICK u \in 0 .. 2^SizeBits - 1 : acc' = u /\ found' = Append(found, u)
  BY VarUIntAssumption DEF Get
<1>3. TypeOK' /\ EncodeInv'
  BY <1>1, <1>2 DEF TypeOK, EncodeInv
<1>4. PICK cut \in [0 .. Flushed -> 0 .. Len(stream)] : Cuts(cut) /\ DecodeInv(cut)
  BY <1>1, Reading
<1>5. Flushed' = Flushed /\ Flushed = Len(sent) /\ Len(sent) \in Nat /\ Len(got) \in Nat
  BY <1>1, Reading DEF Flushed
<1>6. Cuts(cut)'
  BY <1>1, <1>4, <1>5 DEF Cuts
<1>7. pos = cut[Len(got)] /\ pos < cut[Len(got) + 1]
  <2>1. Len(got) + 1 \in 1 .. Flushed /\ (Len(got) + 1) - 1 = Len(got)
    BY <1>1, <1>5
  <2>. QED  BY <1>1, <1>4, <2>1 DEF Cuts, DecodeInv
<1>8. /\ Len(found') = Len(got) + 1 /\ found'[Len(got) + 1] = u
      /\ \A i \in 1 .. Len(got) : found'[i] = found[i]
  <2>1. Len(found) = Len(got) /\ found \in Seq(0 .. 2^SizeBits - 1)
    BY <1>1, <1>4, <1>5 DEF DecodeInv, TypeOK
  <2>. QED  BY <1>2, <1>5, <2>1
<1>9. acc' = Or(u, sent[Len(got) + 1] % 2^(0 * VBits), SizeBits)
  <2>1. 0 * VBits = 0 /\ 2^0 = 1
    BY Widths
  <2>2. sent[Len(got) + 1] \in Nat
    <3>1. Len(got) + 1 \in 1 .. Len(sent)
      BY <1>1, <1>5
    <3>. QED  BY <1>1, <3>1, NumbersInRange, Widths
  <2>3. sent[Len(got) + 1] % 1 = 0
    BY <2>2
  <2>4. Or(u, 0, SizeBits) = u
    BY OrZero, Widths
  <2>. QED  BY <1>2, <2>1, <2>3, <2>4
<1>10. DecodeInv(cut)'
  <2>1. pos = cut[Len(got)] + 0
    BY <1>1, <1>7 DEF TypeOK
  <2>2. \A i \in DOMAIN got : got[i] = Or(found'[i], sent[i], SizeBits) % 2^QuantityBits
    <3>1. DOMAIN got = 1 .. Len(got)
      BY <1>1 DEF TypeOK
    <3>. QED  BY <1>4, <1>8, <3>1 DEF DecodeInv
  <2>. QED  BY <1>1, <1>4, <1>7, <1>8, <1>9, <2>1, <2>2 DEF DecodeInv
<1>. QED  BY <1>1, <1>3, <1>4, <1>5, <1>6, <1>10 DEF VarUIntInv

\* A decoder is within its piece, at a word of its number.
LEMMA Decoding ==
  ASSUME VarUIntInv, pc = "decode", NEW cut \in [0 .. Flushed -> 0 .. Len(stream)],
         Cuts(cut), DecodeInv(cut)
  PROVE  LET n == Len(got) IN
         /\ n \in Nat /\ n + 1 \in 1 .. Len(sent) /\ sent[n + 1] \in 0 .. 2^QuantityBits - 1
         /\ cut[n] \in Nat /\ cut[n + 1] \in 0 .. Len(stream)
         /\ state \in 0 .. cut[n + 1] - cut[n] - 1 /\ pos = cut[n] + state
         /\ stream[pos + 1] = Word(Rest(sent[n + 1], state)) /\ Reaches(state)
         /\ More(Rest(sent[n + 1], state)) <=> state < cut[n + 1] - cut[n] - 1
<1>. DEFINE n == Len(got)
<1>1. TypeOK /\ Flushed = Len(sent) /\ Len(sent) \in Nat /\ n \in Nat
  BY Reading DEF VarUIntInv
<1>2. n < Len(sent) /\ pos = cut[n] + state /\ pos < cut[n + 1]
  BY DEF DecodeInv
<1>3. n + 1 \in 1 .. Flushed /\ n \in 0 .. Flushed /\ n + 1 \in 0 .. Flushed /\ (n + 1) - 1 = n
  BY <1>1, <1>2
<1>4. WordsOf(sent[n + 1], stream, cut[n], cut[n + 1])
  BY <1>3 DEF Cuts
<1>5. cut[n] \in Nat /\ cut[n + 1] \in 0 .. Len(stream) /\ state \in Nat
  BY <1>1, <1>3 DEF TypeOK
<1>6. state \in 0 .. cut[n + 1] - cut[n] - 1
  BY <1>1, <1>2, <1>5 DEF TypeOK
<1>7. sent[n + 1] \in 0 .. 2^QuantityBits - 1
  BY <1>1, <1>3, NumbersInRange
<1>8. /\ stream[pos + 1] = Word(Rest(sent[n + 1], state)) /\ Reaches(state)
      /\ More(Rest(sent[n + 1], state)) <=> state < cut[n + 1] - cut[n] - 1
  BY <1>2, <1>4, <1>6 DEF WordsOf
<1>. QED  BY <1>1, <1>2, <1>3, <1>5, <1>6, <1>7, <1>8

LEMMA DecodeWordStep ==
  ASSUME VarUIntInv, DecodeWord  PROVE VarUIntInv'
<1>1. TypeOK /\ pc = "decode" /\ pos < Len(stream)
  BY DEF VarUIntInv, DecodeWord
<1>2. PICK cut \in [0 .. Flushed -> 0 .. Len(stream)] : Cuts(cut) /\ DecodeInv(cut)
  BY <1>1, Reading
<1>3. Flushed = Len(sent) /\ Len(sent) \in Nat
  BY <1>1, Reading
<1>4. PICK n \in Nat, q \in 0 .. 2^QuantityBits - 1 : n = Len(got) /\ q = sent[n + 1]
  BY <1>1, <1>2, Decoding
<1>5. /\ n + 1 \in 1 .. Len(sent) /\ cut[n] \in Nat /\ cut[n + 1] \in 0 .. Len(stream)
      /\ state \in 0 .. cut[n + 1] - cut[n] - 1 /\ pos = cut[n] + state
      /\ stream[pos + 1] = Word(Rest(q, state)) /\ Reaches(state)
      /\ More(Rest(q, state)) <=> state < cut[n + 1] - cut[n] - 1
  BY <1>1, <1>2, <1>4, Decoding
<1>6. PICK v : v = stream[pos + 1] /\ v = Word(Rest(q, state))
  BY <1>5
<1>7. PICK l \in Nat : l = Rest(q, state) /\ v % HMask = l % HMask /\ (v >= HMask <=> More(l))
  <2>1. state \in Nat
    BY <1>5
  <2>2. Rest(q, state) \in Nat
    BY <1>5, <2>1, NextRest
  <2>. QED  BY <1>6, <2>2, WordCarries
<1>8. PICK bits \in 0 .. 2^SizeBits - 1 : bits = ((v % HMask) * 2^Shift) % 2^SizeBits
  <2>1. PICK h \in Nat \ {0}, z \in Nat \ {0}, p \in Nat : h = HMask /\ z = 2^SizeBits /\ p = 2^(state * VBits)
    BY <1>5, NextPower, Widths
  <2>2. v % HMask \in Nat
    BY <1>7, <2>1
  <2>3. PICK x \in Nat : x = v % HMask
    BY <2>2
  <2>4. x * p \in Nat
    OBVIOUS
  <2>5. (x * p) % z \in 0 .. z - 1
    BY <2>4
  <2>. QED  BY <2>1, <2>3, <2>5 DEF Shift
<1>9. acc' = Or(acc, bits, SizeBits) /\ state' = state + 1 /\ pos' = pos + 1
      /\ UNCHANGED <<sent, stream, s, o, found>>
  BY <1>6, <1>8 DEF DecodeWord
<1>10. acc' \in 0 .. 2^SizeBits - 1
  <2>1. acc \in 0 .. 2^SizeBits - 1
    BY <1>1 DEF TypeOK
  <2>. QED  BY <1>9, <2>1, OrType, Widths
<1>11. v >= HMask <=> More(Rest(q, state))
  BY <1>7
<1>12. PICK u \in 0 .. 2^SizeBits - 1 : u = found[n + 1]
  <2>. DEFINE B == 0 .. 2^SizeBits - 1
  <2>1. Len(found) = n + 1 /\ found \in Seq(B)
    BY <1>1, <1>2, <1>4 DEF DecodeInv, TypeOK
  <2>. HIDE DEF B
  <2>2. found[n + 1] \in B
    BY <1>4, <2>1
  <2>. QED  BY <2>2 DEF B
<1>13. acc' = Or(u, q % 2^((state + 1) * VBits), SizeBits)
  <2>1. acc = Or(u, q % 2^(state * VBits), SizeBits)
    BY <1>1, <1>2, <1>4, <1>12 DEF DecodeInv
  <2>2. state \in Nat
    BY <1>5
  <2>3. PICK low \in 0 .. 2^SizeBits - 1 : low = q % 2^(state * VBits)
    <3>1. PICK p \in Nat \ {0}, z \in Nat : p = 2^(state * VBits) /\ z = 2^SizeBits /\ q < z
      BY <1>5, <2>2, NextPower, Widths
    <3>2. q % p \in 0 .. q
      BY <3>1, Widths
    <3>. QED  BY <3>1, <3>2
  <2>4. Or(low, bits, SizeBits) = q % 2^((state + 1) * VBits)
    BY <1>5, <1>6, <1>8, <2>2, <2>3, DecodeNext DEF Shift
  <2>5. Or(Or(u, low, SizeBits), bits, SizeBits) = Or(u, Or(low, bits, SizeBits), SizeBits)
    BY OrAssociates, Widths
  <2>. QED  BY <1>9, <2>1, <2>3, <2>4, <2>5
<1>14. EncodeInv' /\ Flushed' = Flushed
  BY <1>1, <1>9 DEF EncodeInv, Flushed, DecodeWord
<1>15. Cuts(cut)'
  BY <1>2, <1>9, <1>14 DEF Cuts
<1>16. pos' \in 0 .. Len(stream') /\ state' \in Nat
  BY <1>1, <1>9 DEF TypeOK
<1>17. CASE More(Rest(q, state))
  <2>1. pc' = pc /\ got' = got
    BY <1>6, <1>11, <1>17 DEF DecodeWord
  <2>2. TypeOK'
    BY <1>1, <1>9, <1>10, <1>16, <2>1 DEF TypeOK
  <2>3. pos' = cut[n] + state' /\ pos' < cut[n + 1]
    <3>1. PICK a \in Nat, b \in Nat, k \in Nat :
            /\ a = cut[n] /\ b = cut[n + 1] /\ k = state
            /\ k < b - a - 1 /\ pos = a + k
      <4>1. cut[n] \in Nat /\ cut[n + 1] \in Nat /\ state \in Nat /\ pos = cut[n] + state
        BY <1>5
      <4>2. state < cut[n + 1] - cut[n] - 1
        BY <1>5, <1>17
      <4>. QED  BY <4>1, <4>2
    <3>2. k < b - a - 1
      BY ONLY <3>1
    <3>3. (a + k) + 1 = a + (k + 1) /\ (a + k) + 1 < b
      BY ONLY Zenon, <3>2, NotLastOfPiece
    <3>4. pos' = (a + k) + 1 /\ state' = k + 1
      BY <1>9, <3>1
    <3>. QED  BY <3>1, <3>3, <3>4
  <2>4. DecodeInv(cut)'
    BY <1>1, <1>2, <1>4, <1>9, <1>12, <1>13, <2>1, <2>3 DEF DecodeInv
  <2>. QED  BY <1>2, <1>9, <1>14, <1>15, <2>2, <2>4 DEF VarUIntInv
<1>18. CASE ~More(Rest(q, state))
  <2>1. pc' = "read" /\ got' = Append(got, acc' % 2^QuantityBits)
    BY <1>6, <1>11, <1>18 DEF DecodeWord
  <2>2. acc' % 2^QuantityBits \in 0 .. 2^QuantityBits - 1
    <3>1. PICK z \in Nat \ {0} : z = 2^QuantityBits
      BY Widths
    <3>2. acc' \in Nat
      BY <1>10, Widths
    <3>3. PICK x \in Nat : x = acc'
      BY <3>2
    <3>4. x % z \in 0 .. z - 1
      OBVIOUS
    <3>. QED  BY <3>1, <3>3, <3>4
  <2>3. got \in Seq(0 .. 2^QuantityBits - 1)
    BY <1>1 DEF TypeOK
  <2>4. /\ got' \in Seq(0 .. 2^QuantityBits - 1) /\ Len(got') = n + 1
        /\ got'[n + 1] = acc' % 2^QuantityBits /\ \A i \in 1 .. n : got'[i] = got[i]
        /\ DOMAIN got = 1 .. n /\ DOMAIN got' = 1 .. n + 1
    <3>. DEFINE B == 0 .. 2^QuantityBits - 1
    <3>1. PICK x \in B : x = acc' % 2^QuantityBits
      BY <2>2
    <3>2. got \in Seq(B) /\ got' = Append(got, x)
      BY <2>1, <2>3, <3>1
    <3>3. /\ got' \in Seq(B) /\ Len(got') = n + 1 /\ got'[n + 1] = x
          /\ \A i \in 1 .. n : got'[i] = got[i]
          /\ DOMAIN got = 1 .. n /\ DOMAIN got' = 1 .. n + 1
      <4>. HIDE DEF B
      <4>. QED  BY <1>4, <3>2
    <3>. QED  BY <3>1, <3>3
  <2>5. TypeOK'
    BY <1>1, <1>9, <1>10, <1>16, <2>1, <2>4 DEF TypeOK
  <2>6. pos' = cut[n + 1]
    <3>1. PICK a \in Nat, b \in Nat, k \in Nat :
            /\ a = cut[n] /\ b = cut[n + 1] /\ k = state
            /\ k <= b - a - 1 /\ ~(k < b - a - 1) /\ pos = a + k
      <4>1. /\ cut[n] \in Nat /\ cut[n + 1] \in Nat /\ state \in Nat /\ pos = cut[n] + state
            /\ state <= cut[n + 1] - cut[n] - 1
        BY <1>5
      <4>2. ~(state < cut[n + 1] - cut[n] - 1)
        BY <1>5, <1>18
      <4>. QED  BY <4>1, <4>2
    <3>2. (a + k) + 1 = b
      BY <3>1, LastOfPiece
    <3>. QED  BY <1>9, <3>1, <3>2
  <2>7. got'[n + 1] = Or(u, q, SizeBits) % 2^QuantityBits
    <3>1. q % 2^((state + 1) * VBits) = q
      BY <1>5, <1>18, DecodeNext
    <3>. QED  BY <1>13, <2>4, <3>1
  <2>8. ASSUME NEW i \in DOMAIN got'
        PROVE  got'[i] = Or(found[i], sent[i], SizeBits) % 2^QuantityBits
    <3>1. i \in 1 .. n \/ i = n + 1
      BY <2>4
    <3>2. i \in 1 .. n => got[i] = Or(found[i], sent[i], SizeBits) % 2^QuantityBits
      BY <1>2, <2>4 DEF DecodeInv
    <3>. QED  BY <1>4, <1>12, <2>4, <2>7, <3>1, <3>2
  <2>9. DecodeInv(cut)'
    <3>1. Len(got') <= Len(sent') /\ pos' = cut[Len(got')]
      BY <1>5, <1>9, <2>4, <2>6
    <3>2. Len(found) = Len(got')
      <4>1. Len(found) = Len(got) + 1
        BY <1>1, <1>2 DEF DecodeInv
      <4>. QED  BY <1>4, <2>4, <4>1
    <3>. QED  BY <1>9, <2>1, <2>8, <3>1, <3>2 DEF DecodeInv
  <2>. QED  BY <1>2, <1>9, <1>14, <1>15, <2>5, <2>9 DEF VarUIntInv
<1>. QED  BY <1>17, <1>18

LEMMA VarUIntStep ==
  ASSUME VarUIntInv, [Next]_vars  PROVE VarUIntInv'
<1>1. ASSUME NEW q \in Quantities, Put(q)  PROVE VarUIntInv'
  BY <1>1, PutStep
<1>2. CASE EncodeWord
  BY <1>2, EncodeWordStep
<1>3. CASE Flush
  BY <1>3, FlushStep
<1>4. CASE Close
  BY <1>4, CloseStep
<1>5. CASE Get
  BY <1>5, GetStep
<1>6. CASE DecodeWord
  BY <1>6, DecodeWordStep
<1>7. CASE UNCHANGED vars
  <2>1. TypeOK' /\ EncodeInv'
    BY <1>7 DEF VarUIntInv, TypeOK, EncodeInv, vars
  <2>2. PICK cut \in [0 .. Flushed -> 0 .. Len(stream)] : Cuts(cut) /\ DecodeInv(cut)
    BY DEF VarUIntInv
  <2>3. Flushed' = Flushed /\ Cuts(cut)' /\ DecodeInv(cut)'
    BY <1>7, <2>2 DEF Flushed, Cuts, DecodeInv, vars
  <2>. QED  BY <1>7, <2>1, <2>2, <2>3 DEF VarUIntInv, vars
<1>. QED  BY <1>1, <1>2, <1>3, <1>4, <1>5, <1>6, <1>7 DEF Next

-----------------------------------------------------------------------------
(* The theorems.                                                           *)

\* The stream always falls into pieces, one for each number, of the words euleb
\* makes of it, and a decoder is at the word of its piece that its round asks for.
THEOREM VarUIntInvariant == Spec => []VarUIntInv
<1>1. Init => VarUIntInv
  BY VarUIntStarts
<1>2. VarUIntInv /\ [Next]_vars => VarUIntInv'
  BY VarUIntStep
<1>. QED  BY <1>1, <1>2, PTL DEF Spec

\* Every word fits the store type of vu, and what duleb and euleb compute fits
\* size_t, without a bit that is lost.
THEOREM VarUIntTypeCorrect == Spec => []TypeOK
<1>1. VarUIntInv => TypeOK
  BY DEF VarUIntInv
<1>. QED  BY <1>1, VarUIntInvariant, PTL

\* duleb never shifts by the width of size_t or more, whatever the width of the
\* words, when it reads what euleb has written.
THEOREM VarUIntShiftDefined == Spec => []ShiftDefined
<1>1. ASSUME VarUIntInv, pc = "decode"  PROVE Shift < SizeBits
  <2>1. PICK cut \in [0 .. Flushed -> 0 .. Len(stream)] : Cuts(cut) /\ DecodeInv(cut)
    BY <1>1 DEF VarUIntInv
  <2>2. state \in Nat /\ Reaches(state)
    BY <1>1, <2>1, Decoding
  <2>3. PICK k \in Nat : k = state * VBits
    BY <2>2, Widths
  <2>. QED  BY <2>2, <2>3, Widths DEF Reaches, Shift
<1>2. VarUIntInv => ShiftDefined
  BY <1>1 DEF ShiftDefined
<1>. QED  BY <1>2, VarUIntInvariant, PTL

\* euleb stops as soon as nothing is left of the number: the last of several
\* words is not zero.
THEOREM VarUIntCompact == Spec => []Compact
<1>1. ASSUME VarUIntInv, pc = "flush", Len(o) > 1
      PROVE  sent[Len(sent)] >= 2^(VBits * (Len(o) - 1))
  <2>1. sent # <<>> /\ WordsOf(sent[Len(sent)], o, 0, Len(o)) /\ TypeOK
    BY <1>1 DEF VarUIntInv, EncodeInv
  <2>2. Len(o) \in Nat /\ Len(sent) \in 1 .. Len(sent)
    BY <2>1 DEF TypeOK
  <2>3. PICK q \in 0 .. 2^QuantityBits - 1 : q = sent[Len(sent)]
    BY <2>1, <2>2, NumbersInRange
  <2>4. PICK j \in Nat : j = Len(o) - 2
    BY <1>1, <2>2
  <2>5. j \in 0 .. Len(o) - 0 - 1 /\ j < Len(o) - 0 - 1
    BY <1>1, <2>2, <2>4
  <2>6. More(Rest(q, j)) /\ Reaches(j)
    BY <2>1, <2>3, <2>5 DEF WordsOf
  <2>7. 2^((j + 1) * VBits) <= q
    BY <2>6, NextRest
  <2>8. PICK m \in Nat : m = j + 1 /\ m = Len(o) - 1
    BY <2>2, <2>4
  <2>9. m * VBits = VBits * m
    BY Widths
  <2>10. PICK x \in Nat : x = 2^((j + 1) * VBits)
    BY <2>6, NextPower, Widths
  <2>. QED  BY <2>3, <2>7, <2>8, <2>9, <2>10, Widths
<1>2. VarUIntInv => Compact
  BY <1>1 DEF Compact
<1>. QED  BY <1>2, VarUIntInvariant, PTL

\* s_vu reads each number from exactly its words, into whatever its accumulator
\* held: it is the number that was written if that was zero, and has the bits it
\* held besides if it was not.
THEOREM VarUIntRoundTrip == Spec => []RoundTrip
<1>1. ASSUME VarUIntInv  PROVE RoundTrip
  <2>1. PICK cut \in [0 .. Flushed -> 0 .. Len(stream)] : Cuts(cut) /\ DecodeInv(cut)
    BY <1>1 DEF VarUIntInv
  <2>2. ASSUME NEW i \in DOMAIN got
        PROVE  /\ got[i] = Or(found[i], sent[i], SizeBits) % 2^QuantityBits
               /\ found[i] = 0 => got[i] = sent[i]
    <3>1. got[i] = Or(found[i], sent[i], SizeBits) % 2^QuantityBits
      BY <2>1 DEF DecodeInv
    <3>2. i \in 1 .. Len(sent)
      <4>1. Len(got) <= Len(sent) /\ Len(got) \in Nat /\ Len(sent) \in Nat /\ DOMAIN got = 1 .. Len(got)
        BY <1>1, <2>1 DEF DecodeInv, VarUIntInv, TypeOK
      <4>. QED  BY <4>1
    <3>3. PICK q \in 0 .. 2^QuantityBits - 1 : q = sent[i]
      BY <1>1, <3>2, NumbersInRange DEF VarUIntInv
    <3>4. q \in 0 .. 2^SizeBits - 1 /\ q % 2^QuantityBits = q
      BY Widths
    <3>5. Or(0, q, SizeBits) = q
      BY <3>4, OrZero, Widths
    <3>. QED  BY <3>1, <3>3, <3>4, <3>5
  <2>3. pc = "read" /\ Len(got) = Len(sent) => pos = Len(stream)
    BY <1>1, <2>1, Reading DEF Cuts, DecodeInv
  <2>. QED  BY <2>2, <2>3 DEF RoundTrip
<1>2. VarUIntInv => RoundTrip
  BY <1>1
<1>. QED  BY <1>2, VarUIntInvariant, PTL

=============================================================================
