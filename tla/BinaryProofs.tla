----------------------------- MODULE BinaryProofs -----------------------------
(***************************************************************************)
(* Facts about powers of two, bits and the bitwise or, for numbers of any  *)
(* width.  The provers know the power of two numbers they are given, but   *)
(* not that of a variable: that the next power is twice as large is the    *)
(* premise Doubling of the lemmas, which TLC evaluates where they are used.*)
(***************************************************************************)
EXTENDS Binary, TLAPS, WellFoundedInduction

-----------------------------------------------------------------------------
(* Powers of two.                                                          *)

\* Induction over the numbers, of a set of them: a smallest number outside
\* would have a predecessor inside.
LEMMA Induct ==
  ASSUME NEW S \in SUBSET Nat, 0 \in S, \A n \in S : n + 1 \in S
  PROVE  S = Nat
<1>. DEFINE R == {ss \in Nat \X Nat : ss[1] < ss[2]}
<1>1. IsWellFoundedOn(R, Nat)
  BY NatLessThanWellFounded DEF OpToRel
<1>2. SUFFICES ASSUME Nat \ S # {}  PROVE FALSE
  OBVIOUS
<1>3. PICK n \in Nat \ S : \A m \in Nat \ S : ~(<<m, n>> \in R)
  <2>. HIDE DEF R
  <2>. QED  BY <1>1, <1>2, WFMin
<1>4. n # 0 /\ n - 1 \in Nat
  BY <1>3
<1>5. n - 1 \in S
  <2>1. <<n - 1, n>> \in R
    BY <1>4
  <2>. HIDE DEF R
  <2>. QED  BY <1>3, <1>4, <2>1
<1>6. (n - 1) + 1 \in S
  BY <1>5
<1>. QED  BY <1>3, <1>4, <1>6

LEMMA PowerType ==
  ASSUME NEW w \in Nat, Doubling(w), NEW i \in 0 .. w + 1
  PROVE  2^i \in Nat \ {0}
<1>. DEFINE S == {n \in Nat : n <= w + 1 => 2^n \in Nat \ {0}}
<1>1. 0 \in S
  <2>1. 2^0 = 1
    OBVIOUS
  <2>. QED  BY <2>1
<1>2. ASSUME NEW n \in S  PROVE n + 1 \in S
  <2>1. CASE n + 1 <= w + 1
    <3>1. n \in 0 .. w /\ 2^n \in Nat \ {0}
      BY <2>1
    <3>2. 2^(n + 1) = 2 * 2^n
      BY <3>1 DEF Doubling
    <3>. QED  BY <3>1, <3>2
  <2>2. CASE ~(n + 1 <= w + 1)
    BY <2>2
  <2>. QED  BY <2>1, <2>2
<1>3. S = Nat
  <2>. HIDE DEF S
  <2>1. S \in SUBSET Nat
    BY DEF S
  <2>. QED  BY <1>1, <1>2, <2>1, Induct
<1>. QED  BY <1>3

LEMMA PowerSum ==
  ASSUME NEW w \in Nat, Doubling(w), NEW a \in Nat, NEW b \in Nat, a + b <= w + 1
  PROVE  2^(a + b) = 2^a * 2^b
<1>. DEFINE S == {n \in Nat : a + n <= w + 1 => 2^(a + n) = 2^a * 2^n}
<1>1. 0 \in S
  <2>1. 2^0 = 1 /\ a + 0 = a
    OBVIOUS
  <2>2. 2^a \in Nat
    BY PowerType
  <2>. QED  BY <2>1, <2>2
<1>2. ASSUME NEW n \in S  PROVE n + 1 \in S
  <2>. SUFFICES ASSUME a + (n + 1) <= w + 1  PROVE 2^(a + (n + 1)) = 2^a * 2^(n + 1)
    OBVIOUS
  <2>1. a + n \in 0 .. w /\ n \in 0 .. w /\ a \in 0 .. w + 1
    OBVIOUS
  <2>2. 2^a \in Nat /\ 2^n \in Nat
    BY <2>1, PowerType
  <2>3. 2^((a + n) + 1) = 2 * 2^(a + n) /\ 2^(n + 1) = 2 * 2^n
    BY <2>1 DEF Doubling
  <2>4. 2^(a + n) = 2^a * 2^n
    BY <2>1
  <2>5. (a + n) + 1 = a + (n + 1)
    OBVIOUS
  <2>. QED  BY <2>2, <2>3, <2>4, <2>5
<1>3. S = Nat
  <2>. HIDE DEF S
  <2>1. S \in SUBSET Nat
    BY DEF S
  <2>. QED  BY <1>1, <1>2, <2>1, Induct
<1>. QED  BY <1>3

\* A larger exponent makes a larger power.
LEMMA PowerMonotone ==
  ASSUME NEW w \in Nat, Doubling(w), NEW a \in 0 .. w + 1, NEW b \in 0 .. w + 1
  PROVE  a < b <=> 2^a < 2^b
<1>1. ASSUME NEW c \in 0 .. w + 1, NEW d \in 0 .. w + 1, c < d
      PROVE  2^c < 2^d
  <2>1. d - c - 1 \in 0 .. w /\ c + (d - c) = d /\ (d - c - 1) + 1 = d - c
    BY <1>1
  <2>2. 2^(d - c) = 2 * 2^(d - c - 1)
    BY <2>1 DEF Doubling
  <2>3. 2^(d - c - 1) \in Nat \ {0} /\ 2^c \in Nat \ {0}
    BY <2>1, PowerType
  <2>4. 2^(d - c) >= 2 /\ 2^(d - c) \in Nat
    BY <2>2, <2>3
  <2>5. 2^d = 2^c * 2^(d - c)
    <3>1. d - c \in Nat /\ c + (d - c) <= w + 1
      BY <2>1
    <3>2. 2^(c + (d - c)) = 2^c * 2^(d - c)
      BY <3>1, PowerSum
    <3>. QED  BY <2>1, <3>2
  <2>. DEFINE x == 2^c
              y == 2^(d - c)
  <2>6. \A m \in Nat \ {0}, n \in Nat : n >= 2 => m < m * n
    OBVIOUS
  <2>. QED  BY <2>3, <2>4, <2>5, <2>6
<1>2. 2^a \in Nat /\ 2^b \in Nat
  BY PowerType
<1>3. CASE a < b
  BY <1>1, <1>3
<1>4. CASE a = b
  BY <1>2, <1>4
<1>5. CASE b < a
  BY <1>1, <1>2, <1>5
<1>. QED  BY <1>3, <1>4, <1>5

-----------------------------------------------------------------------------
(* Bits.                                                                   *)

LEMMA DivDiv ==
  ASSUME NEW n \in Nat, NEW b \in Nat \ {0}, NEW c \in Nat \ {0}
  PROVE  (n \div b) \div c = n \div (b * c)
OBVIOUS

\* A number is its quotient and its remainder.
LEMMA DivMod ==
  ASSUME NEW n \in Nat, NEW b \in Nat \ {0}
  PROVE  /\ n \div b \in Nat /\ n % b \in 0 .. b - 1
         /\ n = (n \div b) * b + (n % b)
OBVIOUS

LEMMA DivModUnique ==
  ASSUME NEW q \in Nat, NEW b \in Nat \ {0}, NEW r \in 0 .. b - 1
  PROVE  (q * b + r) \div b = q /\ (q * b + r) % b = r
OBVIOUS

\* The bits of a number that consists of q above bit k and of t below.
LEMMA BitSplit ==
  ASSUME NEW w \in Nat, Doubling(w), NEW k \in 0 .. w, NEW i \in 0 .. w,
         NEW q \in Nat, NEW t \in 0 .. 2^k - 1
  PROVE  Bit(q * 2^k + t, i) = IF i < k THEN Bit(t, i) ELSE Bit(q, i - k)
<1>1. 2^k \in Nat \ {0} /\ 2^i \in Nat \ {0} /\ t \in Nat
  BY PowerType
<1>2. CASE i < k
  <2>1. k - i - 1 \in 0 .. w /\ k - i \in 0 .. w /\ (k - i - 1) + 1 = k - i /\ i + (k - i) = k
    BY <1>2
  <2>2. PICK c \in Nat : 2^(k - i) = 2 * c
    <3>1. 2^((k - i - 1) + 1) = 2 * 2^(k - i - 1) /\ 2^(k - i - 1) \in Nat
      BY <2>1, PowerType DEF Doubling
    <3>. QED  BY <2>1, <3>1
  <2>3. 2^(i + (k - i)) = 2^i * 2^(k - i)
    BY <2>1, PowerSum
  <2>4. 2^k = 2^i * (2 * c)
    BY <2>1, <2>2, <2>3
  <2>5. PICK p \in Nat \ {0} : p = 2^i
    BY <1>1
  <2>6. PICK e \in Nat : e = q * c
    OBVIOUS
  <2>7. q * 2^k = (2 * e) * p /\ q * 2^k \in Nat
    <3>1. q * (p * (2 * c)) = (2 * (q * c)) * p
      OBVIOUS
    <3>. QED  BY <1>1, <2>4, <2>5, <2>6, <3>1
  <2>8. ((q * 2^k + t) \div p) % 2 = (t \div p) % 2
    <3>1. PICK u \in Nat, v \in 0 .. p - 1 : t = u * p + v /\ t \div p = u
      BY <1>1, DivMod
    <3>2. PICK h \in Nat : h = 2 * e + u
      OBVIOUS
    <3>3. q * 2^k + t = h * p + v
      BY <2>7, <3>1, <3>2
    <3>4. (q * 2^k + t) \div p = h
      BY <3>3, DivModUnique
    <3>5. h % 2 = u % 2
      BY <3>2
    <3>. QED  BY <3>1, <3>4, <3>5
  <2>. QED  BY <1>2, <2>5, <2>8 DEF Bit
<1>3. CASE ~(i < k)
  <2>1. i - k \in 0 .. w /\ k + (i - k) = i
    BY <1>3
  <2>2. 2^(k + (i - k)) = 2^k * 2^(i - k)
    BY <2>1, PowerSum
  <2>3. 2^(i - k) \in Nat \ {0}
    BY <2>1, PowerType
  <2>4. (q * 2^k + t) \div 2^k = q
    BY <1>1, DivModUnique
  <2>5. q * 2^k + t \in Nat
    BY <1>1
  <2>6. ((q * 2^k + t) \div 2^k) \div 2^(i - k) = (q * 2^k + t) \div (2^k * 2^(i - k))
    BY <1>1, <2>3, <2>5, DivDiv
  <2>7. q \div 2^(i - k) = (q * 2^k + t) \div 2^i
    BY <2>1, <2>2, <2>4, <2>6
  <2>. QED  BY <1>3, <2>7 DEF Bit
<1>. QED  BY <1>2, <1>3

\* A number of w bits is determined by them.
LEMMA SameBits ==
  ASSUME NEW w \in Nat, Doubling(w), NEW a \in 0 .. 2^w - 1, NEW b \in 0 .. 2^w - 1,
         Bits(a, w) = Bits(b, w)
  PROVE  a = b
<1>. DEFINE S == {j \in Nat : j <= w => a \div 2^(w - j) = b \div 2^(w - j)}
<1>1. a \in Nat /\ b \in Nat
  OBVIOUS
<1>2. 0 \in S
  <2>1. w - 0 = w /\ 2^w \in Nat \ {0}
    BY PowerType
  <2>2. a \div 2^w = 0 /\ b \div 2^w = 0
    BY <2>1
  <2>. QED  BY <2>1, <2>2
<1>3. ASSUME NEW j \in S  PROVE j + 1 \in S
  <2>. SUFFICES ASSUME j + 1 <= w  PROVE a \div 2^(w - (j + 1)) = b \div 2^(w - (j + 1))
    OBVIOUS
  <2>. DEFINE i == w - (j + 1)
  <2>1. i \in 0 .. w - 1 /\ i + 1 = w - j
    OBVIOUS
  <2>2. 2^(i + 1) = 2 * 2^i /\ 2^i \in Nat \ {0}
    BY <2>1, PowerType DEF Doubling
  <2>3. 2^i * 2 = 2^(w - j)
    BY <2>1, <2>2
  <2>4. (a \div 2^i) \div 2 = a \div 2^(w - j) /\ (b \div 2^i) \div 2 = b \div 2^(w - j)
    <3>1. PICK p \in Nat \ {0} : p = 2^i
      BY <2>2
    <3>2. (a \div p) \div 2 = a \div (p * 2) /\ (b \div p) \div 2 = b \div (p * 2)
      <4>1. 2 \in Nat \ {0}
        OBVIOUS
      <4>. QED  BY <1>1, <4>1, DivDiv, Zenon
    <3>. QED  BY <2>3, <3>1, <3>2
  <2>5. (a \div 2^i) % 2 = 1 <=> (b \div 2^i) % 2 = 1
    BY <2>1 DEF Bits, Bit
  <2>6. a \div 2^i \in Nat /\ b \div 2^i \in Nat
    BY <1>1, <2>2, DivMod, Zenon
  <2>7. a \div 2^(w - j) = b \div 2^(w - j)
    OBVIOUS
  <2>8. \A x, y \in Nat : x \div 2 = y \div 2 /\ (x % 2 = 1 <=> y % 2 = 1) => x = y
    OBVIOUS
  <2>9. (a \div 2^i) \div 2 = (b \div 2^i) \div 2
    BY <2>4, <2>7
  <2>10. a \div 2^i = b \div 2^i
    BY <2>5, <2>6, <2>8, <2>9
  <2>. QED  BY <2>10
<1>4. S = Nat
  <2>. HIDE DEF S
  <2>1. S \in SUBSET Nat
    BY DEF S
  <2>. QED  BY <1>2, <1>3, <2>1, Induct
<1>5. w \in S
  <2>. HIDE DEF S
  <2>. QED  BY <1>4
<1>6. w - w = 0 /\ 2^0 = 1
  OBVIOUS
<1>7. a \div 1 = b \div 1
  BY <1>5, <1>6
<1>. QED  BY <1>1, <1>7

-----------------------------------------------------------------------------
(* The bitwise or.                                                         *)

\* Of two numbers of w bits there is an or, of w bits: put together from the
\* highest bit on.
LEMMA OrExists ==
  ASSUME NEW w \in Nat, Doubling(w), NEW m \in 0 .. 2^w - 1, NEW n \in 0 .. 2^w - 1
  PROVE  \E r \in 0 .. 2^w - 1 : /\ m <= r /\ n <= r /\ r <= m + n
                                 /\ Bits(r, w) = Bits(m, w) \cup Bits(n, w)
<1>. DEFINE IsOr(r, a, b, v) == /\ a <= r /\ b <= r /\ r <= a + b
                                /\ Bits(r, v) = Bits(a, v) \cup Bits(b, v)
            Has(v) == \A a, b \in 0 .. 2^v - 1 : \E r \in 0 .. 2^v - 1 : IsOr(r, a, b, v)
            S == {v \in Nat : v <= w => Has(v)}
<1>1. 0 \in S
  <2>1. 2^0 = 1
    OBVIOUS
  <2>2. \A a : Bits(a, 0) = {}
    BY DEF Bits
  <2>3. ASSUME NEW a \in 0 .. 2^0 - 1, NEW b \in 0 .. 2^0 - 1
        PROVE  0 \in 0 .. 2^0 - 1 /\ IsOr(0, a, b, 0)
    <3>1. a = 0 /\ b = 0
      BY <2>1
    <3>. QED  BY <2>1, <2>2, <3>1
  <2>. QED  BY <2>3
<1>2. ASSUME NEW v \in S  PROVE v + 1 \in S
  <2>. SUFFICES ASSUME v + 1 <= w  PROVE Has(v + 1)
    <3>. HIDE DEF Has
    <3>. QED  OBVIOUS
  <2>. SUFFICES ASSUME NEW a \in 0 .. 2^(v + 1) - 1, NEW b \in 0 .. 2^(v + 1) - 1
                PROVE  \E r \in 0 .. 2^(v + 1) - 1 : IsOr(r, a, b, v + 1)
    OBVIOUS
  <2>1. v \in 0 .. w /\ Has(v)
    <3>. HIDE DEF Has
    <3>. QED  OBVIOUS
  <2>2. PICK p \in Nat \ {0} : p = 2^v /\ 2^(v + 1) = 2 * p
    BY <2>1, PowerType DEF Doubling
  <2>3. PICK qa \in 0 .. 1, ta \in 0 .. p - 1 : a = qa * p + ta
    <3>1. a \in Nat /\ a < 2 * p
      BY <2>2
    <3>2. a = 0 * p + a /\ a = 1 * p + (a - p)
      BY <3>1
    <3>. QED  BY <3>1, <3>2
  <2>4. PICK qb \in 0 .. 1, tb \in 0 .. p - 1 : b = qb * p + tb
    <3>1. b \in Nat /\ b < 2 * p
      BY <2>2
    <3>2. b = 0 * p + b /\ b = 1 * p + (b - p)
      BY <3>1
    <3>. QED  BY <3>1, <3>2
  <2>5. PICK tr \in 0 .. p - 1 : IsOr(tr, ta, tb, v)
    BY <2>1, <2>2
  <2>6. PICK qr \in 0 .. 1 : qr = IF qa = 1 THEN 1 ELSE qb
    OBVIOUS
  <2>7. PICK r \in 0 .. 2 * p - 1 : r = qr * p + tr
    BY <2>6
  <2>8. a <= r /\ b <= r /\ r <= a + b
    BY <2>3, <2>4, <2>5, <2>6, <2>7
  <2>9. ASSUME NEW q \in 0 .. 1, NEW t \in 0 .. p - 1
        PROVE  Bits(q * p + t, v + 1) = Bits(t, v) \cup {i \in {v} : q = 1}
    <3>1. ASSUME NEW i \in 0 .. v
          PROVE  Bit(q * p + t, i) = IF i < v THEN Bit(t, i) ELSE q
      <4>1. i \in 0 .. w /\ t \in 0 .. 2^v - 1 /\ q \in Nat
        BY <2>1, <2>2
      <4>2. Bit(q * 2^v + t, i) = IF i < v THEN Bit(t, i) ELSE Bit(q, i - v)
        BY <2>1, <4>1, BitSplit
      <4>3. Bit(q, 0) = q
        <5>1. 2^0 = 1
          OBVIOUS
        <5>2. (q \div 1) % 2 = q
          OBVIOUS
        <5>. QED  BY <5>1, <5>2 DEF Bit
      <4>4. i < v \/ i - v = 0
        OBVIOUS
      <4>. QED  BY <2>2, <4>2, <4>3, <4>4
    <3>2. 0 .. (v + 1) - 1 = 0 .. v /\ 0 .. v = 0 .. v - 1 \cup {v}
      OBVIOUS
    <3>. QED  BY <3>1, <3>2 DEF Bits
  <2>10. Bits(r, v + 1) = Bits(a, v + 1) \cup Bits(b, v + 1)
    <3>1. /\ Bits(r, v + 1) = Bits(tr, v) \cup {i \in {v} : qr = 1}
          /\ Bits(a, v + 1) = Bits(ta, v) \cup {i \in {v} : qa = 1}
          /\ Bits(b, v + 1) = Bits(tb, v) \cup {i \in {v} : qb = 1}
      BY <2>3, <2>4, <2>7, <2>9
    <3>. QED  BY <2>5, <2>6, <3>1
  <2>. QED  BY <2>2, <2>8, <2>10
<1>3. S = Nat
  <2>. HIDE DEF S
  <2>1. S \in SUBSET Nat
    BY DEF S
  <2>. QED  BY <1>1, <1>2, <2>1, Induct
<1>4. Has(w)
  <2>. HIDE DEF Has
  <2>. QED  BY <1>3
<1>. QED  BY <1>4

\* The or of two numbers of w bits has w bits.
LEMMA OrType ==
  ASSUME NEW w \in Nat, Doubling(w), NEW m \in 0 .. 2^w - 1, NEW n \in 0 .. 2^w - 1
  PROVE  Or(m, n, w) \in 0 .. 2^w - 1
<1>. DEFINE Between == (IF m < n THEN n ELSE m) .. m + n
<1>1. PICK e \in 0 .. 2^w - 1 : /\ m <= e /\ n <= e /\ e <= m + n
                               /\ Bits(e, w) = Bits(m, w) \cup Bits(n, w)
  BY OrExists
<1>2. PICK p \in Nat \ {0} : p = 2^w
  BY PowerType
<1>3. /\ Or(m, n, w) \in Between
      /\ Bits(Or(m, n, w), w) = Bits(m, w) \cup Bits(n, w)
  <2>1. e \in Between
    BY <1>1
  <2>. HIDE DEF Between
  <2>2. Or(m, n, w) = CHOOSE x \in Between : Bits(x, w) = Bits(m, w) \cup Bits(n, w)
    BY DEF Or, Between
  <2>. QED  BY <1>1, <2>1, <2>2
<1>4. PICK r \in Nat : r = Or(m, n, w) /\ m <= r /\ n <= r /\ r <= m + n
  BY <1>3, PowerType
<1>5. SUFFICES ASSUME p <= r  PROVE FALSE
  BY <1>2, <1>4
<1>6. r - p \in 0 .. 2^w - 1 /\ r = 1 * p + (r - p)
  BY <1>2, <1>4, <1>5
<1>7. Bits(r, w) = Bits(r - p, w)
  <2>1. ASSUME NEW i \in 0 .. w - 1  PROVE Bit(r, i) = Bit(r - p, i)
    <3>1. i \in 0 .. w /\ w \in 0 .. w /\ i < w
      OBVIOUS
    <3>2. Bit(1 * 2^w + (r - p), i) = Bit(r - p, i)
      BY <1>6, <3>1, BitSplit
    <3>. QED  BY <1>2, <1>6, <3>2
  <2>. QED  BY <2>1 DEF Bits
<1>8. r - p = e
  BY <1>1, <1>3, <1>4, <1>6, <1>7, SameBits
<1>. QED  BY <1>1, <1>2, <1>4, <1>8

\* The bits of an or are those of the two.
LEMMA OrBits ==
  ASSUME NEW w \in Nat, Doubling(w), NEW m \in 0 .. 2^w - 1, NEW n \in 0 .. 2^w - 1
  PROVE  Bits(Or(m, n, w), w) = Bits(m, w) \cup Bits(n, w)
<1>. DEFINE Between == (IF m < n THEN n ELSE m) .. m + n
<1>1. PICK r \in 0 .. 2^w - 1 : /\ m <= r /\ n <= r /\ r <= m + n
                               /\ Bits(r, w) = Bits(m, w) \cup Bits(n, w)
  BY OrExists
<1>2. r \in Between
  BY <1>1, PowerType
<1>. HIDE DEF Between
<1>3. Or(m, n, w) = CHOOSE x \in Between : Bits(x, w) = Bits(m, w) \cup Bits(n, w)
  BY DEF Or, Between
<1>. QED  BY <1>1, <1>2, <1>3

\* A number of w bits with the bits of two numbers is their or.
LEMMA OrIs ==
  ASSUME NEW w \in Nat, Doubling(w), NEW m \in 0 .. 2^w - 1, NEW n \in 0 .. 2^w - 1,
         NEW r \in 0 .. 2^w - 1, Bits(r, w) = Bits(m, w) \cup Bits(n, w)
  PROVE  Or(m, n, w) = r
<1>1. PICK x \in 0 .. 2^w - 1 : x = Or(m, n, w)
  BY OrType
<1>2. Bits(x, w) = Bits(r, w)
  BY <1>1, OrBits
<1>. QED  BY <1>1, <1>2, SameBits

\* It does not matter in which order bits are added.
LEMMA OrAssociates ==
  ASSUME NEW w \in Nat, Doubling(w), NEW a \in 0 .. 2^w - 1, NEW b \in 0 .. 2^w - 1,
         NEW c \in 0 .. 2^w - 1
  PROVE  Or(Or(a, b, w), c, w) = Or(a, Or(b, c, w), w)
<1>. DEFINE W == 0 .. 2^w - 1
<1>1. PICK x \in W, y \in W : x = Or(a, b, w) /\ y = Or(b, c, w)
  BY OrType
<1>2. Bits(x, w) = Bits(a, w) \cup Bits(b, w) /\ Bits(y, w) = Bits(b, w) \cup Bits(c, w)
  BY <1>1, OrBits
<1>3. Or(x, c, w) \in W /\ Or(a, y, w) \in W
  BY OrType
<1>4. /\ Bits(Or(x, c, w), w) = Bits(x, w) \cup Bits(c, w)
      /\ Bits(Or(a, y, w), w) = Bits(a, w) \cup Bits(y, w)
  BY OrBits
<1>5. Bits(Or(x, c, w), w) = Bits(Or(a, y, w), w)
  BY <1>2, <1>4
<1>6. Or(x, c, w) = Or(a, y, w)
  BY <1>3, <1>5, SameBits
<1>. QED  BY <1>1, <1>6

\* Zero adds no bits, and has none to add to.
LEMMA OrZero ==
  ASSUME NEW w \in Nat, Doubling(w), NEW m \in 0 .. 2^w - 1
  PROVE  Or(m, 0, w) = m /\ Or(0, m, w) = m
<1>1. Bits(0, w) = {}
  <2>1. ASSUME NEW i \in 0 .. w - 1  PROVE Bit(0, i) = 0
    <3>1. 2^i \in Nat \ {0}
      BY PowerType
    <3>. QED  BY <3>1 DEF Bit
  <2>. QED  BY <2>1 DEF Bits
<1>2. 0 \in 0 .. 2^w - 1
  BY PowerType
<1>. QED  BY <1>1, <1>2, OrIs

\* Or-ing into bits that are zero adds.
LEMMA OrAdds ==
  ASSUME NEW w \in Nat, Doubling(w), NEW k \in 0 .. w, NEW m \in 0 .. 2^k - 1,
         NEW d \in Nat, m + d * 2^k < 2^w
  PROVE  Or(m, d * 2^k, w) = m + d * 2^k
<1>1. m \in Nat /\ 2^k \in Nat \ {0}
  BY PowerType
<1>2. PICK x \in Nat : x = d * 2^k
  BY <1>1
<1>3. ASSUME NEW i \in 0 .. w - 1
      PROVE  Bit(x + m, i) = 1 <=> Bit(m, i) = 1 \/ Bit(x, i) = 1
  <2>1. 0 \in 0 .. 2^k - 1 /\ i \in 0 .. w
    BY <1>1
  <2>2. Bit(d * 2^k + m, i) = IF i < k THEN Bit(m, i) ELSE Bit(d, i - k)
    BY <2>1, BitSplit
  <2>3. Bit(d * 2^k + 0, i) = IF i < k THEN Bit(0, i) ELSE Bit(d, i - k)
    BY <2>1, BitSplit
  <2>4. x + 0 = x
    OBVIOUS
  <2>5. Bit(0, i) = 0
    <3>1. 2^i \in Nat \ {0}
      BY <2>1, PowerType
    <3>. QED  BY <3>1 DEF Bit
  <2>6. ~(i < k) => Bit(m, i) = 0
    <3>. SUFFICES ASSUME k <= i  PROVE Bit(m, i) = 0
      OBVIOUS
    <3>1. 0 * 2^k + m = m
      BY <1>1
    <3>2. Bit(0 * 2^k + m, i) = Bit(0, i - k)
      BY <2>1, BitSplit
    <3>3. 2^(i - k) \in Nat \ {0}
      <4>1. i - k \in 0 .. w + 1
        OBVIOUS
      <4>. QED  BY <4>1, PowerType
    <3>. QED  BY <3>1, <3>2, <3>3 DEF Bit
  <2>. QED  BY <1>2, <2>2, <2>3, <2>4, <2>5, <2>6
<1>4. Bits(x + m, w) = Bits(m, w) \cup Bits(x, w)
  BY <1>3 DEF Bits
<1>5. Or(m, x, w) = m + x
  <2>1. m + x = x + m /\ m + x \in 0 .. 2^w - 1 /\ m \in 0 .. 2^w - 1 /\ x \in 0 .. 2^w - 1
    <3>1. 2^w \in Nat
      BY PowerType
    <3>. QED  BY <1>1, <1>2, <3>1
  <2>. QED  BY <1>1, <1>4, <2>1, OrIs
<1>. QED  BY <1>2, <1>5

-----------------------------------------------------------------------------
(* Masks: a power of two less one.                                         *)

\* All bits of 2^k - 1 below k are set.
LEMMA BitOfMask ==
  ASSUME NEW w \in Nat, Doubling(w), NEW k \in 0 .. w, NEW i \in 0 .. w
  PROVE  2^k - 1 \in Nat /\ Bit(2^k - 1, i) = IF i < k THEN 1 ELSE 0
<1>1. 2^k \in Nat \ {0} /\ 2^i \in Nat \ {0}
  BY PowerType
<1>2. CASE i < k
  <2>1. k - i - 1 \in 0 .. w /\ (k - i - 1) + 1 = k - i /\ i + (k - i) = k /\ k - i \in Nat
    BY <1>2
  <2>2. PICK c \in Nat \ {0} : 2^(k - i) = 2 * c
    <3>1. 2^((k - i - 1) + 1) = 2 * 2^(k - i - 1) /\ 2^(k - i - 1) \in Nat \ {0}
      BY <2>1, PowerType DEF Doubling
    <3>. QED  BY <2>1, <3>1
  <2>3. 2^(i + (k - i)) = 2^i * 2^(k - i)
    BY <2>1, PowerSum
  <2>4. PICK p \in Nat \ {0} : p = 2^i
    BY <1>1
  <2>5. 2^k - 1 = (2 * c - 1) * p + (p - 1)
    <3>1. 2^k = p * (2 * c)
      BY <2>1, <2>2, <2>3, <2>4
    <3>2. p * (2 * c) - 1 = (2 * c - 1) * p + (p - 1)
      OBVIOUS
    <3>. QED  BY <3>1, <3>2
  <2>6. (2^k - 1) \div p = 2 * c - 1
    <3>1. 2 * c - 1 \in Nat /\ p - 1 \in 0 .. p - 1
      OBVIOUS
    <3>. QED  BY <2>5, <3>1, DivModUnique
  <2>7. (2 * c - 1) % 2 = 1
    OBVIOUS
  <2>. QED  BY <1>1, <1>2, <2>4, <2>6, <2>7 DEF Bit
<1>3. CASE ~(i < k)
  <2>1. 2^k - 1 < 2^i
    <3>1. k = i \/ k < i
      BY <1>3
    <3>2. k \in 0 .. w + 1 /\ i \in 0 .. w + 1
      OBVIOUS
    <3>3. k < i => 2^k < 2^i
      BY <3>2, PowerMonotone
    <3>. QED  BY <1>1, <3>1, <3>3
  <2>2. (2^k - 1) \div 2^i = 0
    BY <1>1, <2>1
  <2>. QED  BY <1>1, <1>3, <2>2 DEF Bit
<1>. QED  BY <1>2, <1>3

\* Or-ing with a mask fills the bits of the mask.
LEMMA OrMask ==
  ASSUME NEW w \in Nat, Doubling(w), NEW k \in 0 .. w, NEW m \in 0 .. 2^w - 1
  PROVE  Or(m, 2^k - 1, w) = m - (m % 2^k) + (2^k - 1)
<1>1. PICK p \in Nat \ {0} : p = 2^k
  BY PowerType
<1>2. PICK q \in Nat, t \in 0 .. p - 1 : m = q * p + t /\ m % p = t
  <2>1. m \in Nat
    BY PowerType
  <2>. QED  BY <1>1, <2>1, DivMod
<1>3. m - (m % p) + (p - 1) = q * p + (p - 1) /\ q * p \in Nat
  <2>1. PICK x \in Nat : x = q * p
    OBVIOUS
  <2>2. m = x + t
    BY <1>2, <2>1
  <2>3. m - t + (p - 1) = x + (p - 1)
    BY <2>2
  <2>. QED  BY <1>2, <2>1, <2>3
<1>4. PICK r \in Nat : r = q * p + (p - 1)
  BY <1>3
<1>5. ASSUME NEW i \in 0 .. w - 1
      PROVE  Bit(r, i) = 1 <=> Bit(m, i) = 1 \/ Bit(p - 1, i) = 1
  <2>1. i \in 0 .. w /\ t \in 0 .. 2^k - 1 /\ p - 1 \in 0 .. 2^k - 1
    BY <1>1
  <2>2. Bit(q * 2^k + t, i) = IF i < k THEN Bit(t, i) ELSE Bit(q, i - k)
    BY <2>1, BitSplit
  <2>3. Bit(q * 2^k + (p - 1), i) = IF i < k THEN Bit(p - 1, i) ELSE Bit(q, i - k)
    BY <2>1, BitSplit
  <2>4. Bit(p - 1, i) = IF i < k THEN 1 ELSE 0
    BY <1>1, <2>1, BitOfMask
  <2>. QED  BY <1>1, <1>2, <1>4, <2>2, <2>3, <2>4
<1>6. Bits(r, w) = Bits(m, w) \cup Bits(p - 1, w)
  BY <1>5 DEF Bits
<1>7. p - 1 \in 0 .. 2^w - 1 /\ r \in 0 .. 2^w - 1
  <2>1. PICK z \in Nat \ {0} : z = 2^w
    BY PowerType
  <2>2. PICK f \in Nat \ {0} : z = f * p
    <3>1. w - k \in Nat /\ w - k \in 0 .. w + 1 /\ k + (w - k) = w
      OBVIOUS
    <3>2. 2^(k + (w - k)) = 2^k * 2^(w - k)
      BY <3>1, PowerSum
    <3>3. 2^(w - k) \in Nat \ {0}
      BY <3>1, PowerType
    <3>4. 2^k * 2^(w - k) = 2^(w - k) * 2^k
      BY <1>1, <3>3
    <3>. QED  BY <1>1, <2>1, <3>1, <3>2, <3>3, <3>4
  <2>3. q < f
    <3>1. ASSUME f <= q  PROVE FALSE
      <4>1. PICK g \in Nat : q = f + g
        <5>1. q - f \in Nat /\ q = f + (q - f)
          BY <3>1
        <5>. QED  BY <5>1
      <4>2. q * p = f * p + g * p /\ g * p \in Nat
        BY <4>1
      <4>3. m >= z
        <5>1. PICK x \in Nat, y \in Nat : x = q * p /\ y = g * p
          OBVIOUS
        <5>. QED  BY <1>2, <2>2, <4>2, <5>1
      <4>. QED  BY <2>1, <4>3
    <3>. QED  BY <3>1
  <2>4. PICK g \in Nat : f = q + 1 + g
    <3>1. f - (q + 1) \in Nat /\ f = q + 1 + (f - (q + 1))
      BY <2>3
    <3>. QED  BY <3>1
  <2>5. f * p = q * p + p + g * p /\ g * p \in Nat
    BY <2>4
  <2>6. PICK x \in Nat, y \in Nat : x = q * p /\ y = g * p
    OBVIOUS
  <2>. QED  BY <1>4, <2>1, <2>2, <2>5, <2>6
<1>8. Or(m, p - 1, w) = r
  BY <1>6, <1>7, OrIs
<1>. QED  BY <1>1, <1>3, <1>4, <1>8

\* What follows the number with the bits of a mask filled is the next multiple.
LEMMA AfterMask ==
  ASSUME NEW w \in Nat, Doubling(w), NEW k \in 0 .. w, NEW m \in 0 .. 2^w - 1
  PROVE  LET r == Or(m, 2^k - 1, w) + 1 IN
         r \in Nat /\ r % 2^k = 0 /\ m < r /\ r <= m + 2^k
<1>1. PICK p \in Nat \ {0} : p = 2^k
  BY PowerType
<1>2. PICK q \in Nat, t \in 0 .. p - 1 : m = q * p + t /\ m % p = t
  <2>1. m \in Nat
    BY PowerType
  <2>. QED  BY <1>1, <2>1, DivMod
<1>3. PICK x \in Nat : x = q * p
  OBVIOUS
<1>4. Or(m, 2^k - 1, w) + 1 = x + p
  <2>1. Or(m, p - 1, w) = m - (m % p) + (p - 1)
    <3>1. Or(m, 2^k - 1, w) = m - (m % 2^k) + (2^k - 1)
      BY OrMask
    <3>. HIDE DEF Or
    <3>. QED  BY ONLY <1>1, <3>1, Zenon
  <2>2. m = x + t
    BY <1>2, <1>3
  <2>3. m - t + (p - 1) = x + (p - 1)
    BY <2>2
  <2>4. (x + (p - 1)) + 1 = x + p
    OBVIOUS
  <2>. QED  BY <1>1, <1>2, <2>1, <2>3, <2>4
<1>5. (x + p) % p = 0
  <2>1. PICK c \in Nat : c = q + 1
    OBVIOUS
  <2>2. (c * p + 0) % p = 0
    BY DivModUnique, 0 \in 0 .. p - 1
  <2>3. c * p + 0 = x + p
    BY <1>3, <2>1
  <2>. QED  BY <2>2, <2>3
<1>6. m < x + p /\ x + p <= m + p
  BY <1>2, <1>3
<1>. QED  BY <1>1, <1>4, <1>5, <1>6

\* A number has no bit in common with a mask exactly if the power of two divides it.
LEMMA DisjointFromMask ==
  ASSUME NEW w \in Nat, Doubling(w), NEW k \in 0 .. w, NEW m \in Nat
  PROVE  Bits(m, w) \cap Bits(2^k - 1, w) = {} <=> m % 2^k = 0
<1>1. PICK p \in Nat \ {0} : p = 2^k
  BY PowerType
<1>2. PICK q \in Nat, t \in 0 .. p - 1 : m = q * p + t /\ m % p = t
  BY <1>1, DivMod
<1>3. ASSUME NEW i \in 0 .. w - 1
      PROVE  /\ Bit(m, i) = IF i < k THEN Bit(t, i) ELSE Bit(q, i - k)
             /\ Bit(2^k - 1, i) = IF i < k THEN 1 ELSE 0
  <2>1. i \in 0 .. w /\ t \in 0 .. 2^k - 1
    BY <1>1
  <2>2. Bit(q * 2^k + t, i) = IF i < k THEN Bit(t, i) ELSE Bit(q, i - k)
    BY <2>1, BitSplit
  <2>. QED  BY <1>1, <1>2, <2>1, <2>2, BitOfMask
<1>4. Bits(m, w) \cap Bits(2^k - 1, w) = Bits(t, k)
  <2>1. ASSUME NEW i \in 0 .. w - 1
        PROVE  Bit(m, i) = 1 /\ Bit(2^k - 1, i) = 1 <=> i < k /\ Bit(t, i) = 1
    BY <1>3, <2>1
  <2>2. 0 .. k - 1 \subseteq 0 .. w - 1
    OBVIOUS
  <2>. QED  BY <2>1, <2>2 DEF Bits
<1>5. Bits(t, k) = {} <=> t = 0
  <2>1. Doubling(k) /\ k \in Nat /\ 0 \in 0 .. 2^k - 1 /\ t \in 0 .. 2^k - 1
    BY <1>1 DEF Doubling
  <2>2. Bits(0, k) = {}
    <3>1. ASSUME NEW i \in 0 .. k - 1  PROVE Bit(0, i) = 0
      <4>1. 2^i \in Nat \ {0}
        BY PowerType
      <4>. QED  BY <4>1 DEF Bit
    <3>. QED  BY <3>1 DEF Bits
  <2>. QED  BY <2>1, <2>2, SameBits
<1>. QED  BY <1>1, <1>2, <1>4, <1>5

-----------------------------------------------------------------------------
(* Places in a sequence.  The arithmetic is simple, but the provers are    *)
(* slow at it where powers of two are among the facts.                     *)

\* A piece from a to b is a part of the sequence.
LEMMA InPiece ==
  ASSUME NEW a \in Nat, NEW b \in Nat, NEW l \in Nat, b <= l, NEW j \in 0 .. b - a - 1
  PROVE  a + j + 1 \in 1 .. l
OBVIOUS

\* The place after k, in a piece from a to b, if k is not at the last one of it.
LEMMA NotLastOfPiece ==
  ASSUME NEW a \in Nat, NEW b \in Nat, NEW k \in Nat, k < b - a - 1
  PROVE  (a + k) + 1 = a + (k + 1) /\ (a + k) + 1 < b
OBVIOUS

LEMMA LastOfPiece ==
  ASSUME NEW a \in Nat, NEW b \in Nat, NEW k \in Nat, k <= b - a - 1, ~(k < b - a - 1)
  PROVE  (a + k) + 1 = b
OBVIOUS

\* A place behind the first k + 1 is one of the d that follow the first of these.
LEMMA BehindPrefix ==
  ASSUME NEW k \in Nat, NEW d \in Nat, NEW i \in 1 .. (k + d) + 1, ~(i <= k + 1)
  PROVE  i - k \in 1 .. d + 1
OBVIOUS

=============================================================================
