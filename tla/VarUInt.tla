------------------------------ MODULE VarUInt ------------------------------
(***************************************************************************)
(* Variable-length quantities (vu in serialize.hpp, euleb and duleb in     *)
(* util.cpp): an unsigned number is stored in words of WordBits bits, each *)
(* holding WordBits - 1 bits of it from the lowest on; the highest bit of  *)
(* a word says that another one follows.  One action is one round of a     *)
(* loop of the code.                                                       *)
(*                                                                         *)
(* A definition marked "Slip" is not part of the model: it is a mistake    *)
(* that could be made in the definition after it, kept to test that the    *)
(* properties notice it.                                                   *)
(***************************************************************************)
EXTENDS Integers, Sequences, Binary

CONSTANTS
  WordBits,       \* bits of the store type (u8, u16, u32)
  SizeBits,       \* bits of size_t
  QuantityBits,   \* bits of the type of the quantity
  Quantities,     \* the numbers that are stored
  Starts,         \* what the memory of a decoder's accumulator may hold
  MaxCount        \* how many numbers make a stream

ASSUME VarUIntAssumption ==
  /\ WordBits \in Nat /\ SizeBits \in Nat /\ QuantityBits \in Nat /\ MaxCount \in Nat
  /\ 1 < WordBits /\ WordBits < QuantityBits /\ QuantityBits <= SizeBits
  /\ Quantities \subseteq 0 .. 2^QuantityBits - 1 /\ Starts \subseteq 0 .. 2^SizeBits - 1
  /\ Doubling(2 * SizeBits)

VARIABLES
  sent,      \* the numbers written
  stream,    \* the words written
  s, o,      \* euleb: what is left of the number, the words of it so far
  pc,
  pos,       \* words read
  acc, state,\* duleb: the number so far, the words of it so far
  got,       \* the numbers read
  found      \* a history variable: what the accumulator of each decoder held at first

vars == <<sent, stream, s, o, pc, pos, acc, state, found, got>>

VBits == WordBits - 1
HMask == 2^VBits

\* euleb_count: the length of the buffer that s_vu gives to euleb.
BufferLength == IF QuantityBits % WordBits = 0 THEN QuantityBits \div WordBits
                ELSE QuantityBits \div WordBits + 1

-----------------------------------------------------------------------------
(* euleb_impl.                                                             *)

\* Slip: the number is tested before it is shifted.
MoreBefore(n) == n # 0
More(n) == n \div HMask # 0

\* Slip: the number is not cut to the word.
WordUncut(n) == IF More(n) THEN n + HMask ELSE n
Word(n) == IF More(n) THEN (n % HMask) + HMask ELSE n % 2^WordBits

Put(q) ==
  /\ pc = "write" /\ Len(sent) < MaxCount
  /\ sent' = Append(sent, q) /\ s' = q /\ o' = <<>>
  /\ pc' = "encode"
  /\ UNCHANGED <<stream, pos, acc, state, found, got>>

EncodeWord ==
  /\ pc = "encode"
  /\ o' = Append(o, Word(s))
  /\ s' = s \div HMask
  /\ pc' = IF More(s) THEN "encode" ELSE "flush"
  /\ UNCHANGED <<sent, stream, pos, acc, state, found, got>>

\* s_vu writes the words euleb has counted.
Flush ==
  /\ pc = "flush" /\ pc' = "write"
  /\ stream' = stream \o o /\ o' = <<>>
  /\ UNCHANGED <<sent, s, pos, acc, state, found, got>>

Close ==
  /\ pc = "write" /\ sent # <<>> /\ pc' = "read"
  /\ UNCHANGED <<sent, stream, s, o, pos, acc, state, found, got>>

-----------------------------------------------------------------------------
(* duleb_impl, called until it answers that no word follows.               *)

\* Slip: words are put together as if all their bits counted.
ShiftWhole == state * WordBits
Shift == state * VBits

\* The accumulator, size_t u, is not initialised: duleb adds the bits of the number
\* to what happens to be there.
Get ==
  /\ pc = "read" /\ Len(got) < Len(sent)
  /\ \E u \in Starts : acc' = u /\ found' = Append(found, u)
  /\ state' = 0 /\ pc' = "decode"
  /\ UNCHANGED <<sent, stream, s, o, pos, got>>

DecodeWord ==
  LET v == stream[pos + 1] IN
  /\ pc = "decode" /\ pos < Len(stream)
  /\ acc' = Or(acc, ((v % HMask) * 2^Shift) % 2^SizeBits, SizeBits)
  /\ state' = state + 1 /\ pos' = pos + 1
  /\ IF v >= HMask THEN UNCHANGED <<pc, got>>
     ELSE pc' = "read" /\ got' = Append(got, acc' % 2^QuantityBits)
  /\ UNCHANGED <<sent, stream, s, o, found>>

-----------------------------------------------------------------------------
Init ==
  /\ sent = <<>> /\ stream = <<>> /\ s = 0 /\ o = <<>> /\ pc = "write"
  /\ pos = 0 /\ acc = 0 /\ state = 0 /\ got = <<>> /\ found = <<>>

Next ==
  \/ \E q \in Quantities : Put(q)
  \/ EncodeWord \/ Flush \/ Close
  \/ Get \/ DecodeWord

Spec == Init /\ [][Next]_vars

-----------------------------------------------------------------------------
(* Properties.                                                             *)

\* Every variable stays in its type: a word fits the store type, a number
\* fits size_t, and a number read back fits the quantity.
TypeOK ==
  /\ sent \in Seq(Quantities)
  /\ stream \in Seq(0 .. 2^WordBits - 1) /\ o \in Seq(0 .. 2^WordBits - 1)
  /\ s \in 0 .. 2^SizeBits - 1 /\ acc \in 0 .. 2^SizeBits - 1
  /\ pc \in {"write", "encode", "flush", "read", "decode"}
  /\ pos \in 0 .. Len(stream) /\ state \in Nat
  /\ got \in Seq(0 .. 2^QuantityBits - 1) /\ found \in Seq(0 .. 2^SizeBits - 1)

\* A number is read as the one that was written, or-ed into whatever the
\* uninitialised accumulator held: as the number itself if that was zero, but
\* with more bits if it was not.  Every decoder stops at the last word of its
\* number, and the last one at the end of the stream.
RoundTrip ==
  /\ \A i \in DOMAIN got :
       /\ got[i] = Or(found[i], sent[i], SizeBits) % 2^QuantityBits
       /\ found[i] = 0 => got[i] = sent[i]
  /\ pc = "read" /\ Len(got) = Len(sent) => pos = Len(stream)

\* No number takes more words than it needs.
Compact ==
  pc = "flush" /\ Len(o) > 1 => sent[Len(sent)] >= 2^(VBits * (Len(o) - 1))

\* A decoder never shifts by the width of size_t or more.
ShiftDefined == pc = "decode" => Shift < SizeBits

\* The buffer of s_vu holds every word euleb writes to it.
BufferFits == Len(o) <= BufferLength
=============================================================================
