----------------------------- MODULE BlitProofs -----------------------------
(***************************************************************************)
(* Proofs about Blit, for all types, programs and alignments: what is      *)
(* gathered are objects of the program's memory and members of its types,  *)
(* every pointer and every offset in the block is where a value of memory  *)
(* has been copied to, and no byte of memory is copied twice.              *)
(***************************************************************************)
EXTENDS Blit, BinaryProofs, SequenceTheorems, FiniteSetTheorems

-----------------------------------------------------------------------------
(* Sequences.                                                              *)

\* The first element of a sequence is replaced by those of another one.
LEMMA HeadReplaced ==
  ASSUME NEW S, NEW s \in Seq(S), s # <<>>, NEW pre \in Seq(S)
  PROVE  /\ pre \o Tail(s) \in Seq(S)
         /\ Len(pre \o Tail(s)) = Len(pre) + (Len(s) - 1)
         /\ \A i \in 1 .. Len(pre) : (pre \o Tail(s))[i] = pre[i]
         /\ \A i \in 1 .. Len(s) - 1 : (pre \o Tail(s))[Len(pre) + i] = s[i + 1]
         /\ Len(s) \in Nat \ {0} /\ Len(pre) \in Nat
         /\ Head(s) = s[1]
<1>1. /\ Tail(s) \in Seq(S) /\ Len(Tail(s)) = Len(s) - 1 /\ Head(s) = s[1]
      /\ \A i \in 1 .. Len(Tail(s)) : Tail(s)[i] = s[i + 1]
      /\ Len(s) \in Nat \ {0} /\ Len(pre) \in Nat
  BY HeadTailProperties, LenProperties, EmptySeq
<1>2. PICK t \in Seq(S) : t = Tail(s)
  BY <1>1
<1>3. PICK k \in Nat : k = Len(pre)
  BY <1>1
<1>4. PICK l \in Nat : l = Len(t) /\ l = Len(s) - 1
  <2>1. Len(t) \in Nat /\ Len(t) = Len(s) - 1
    BY <1>1, <1>2, LenProperties
  <2>. QED  BY <2>1
<1>5. /\ pre \o t \in Seq(S) /\ Len(pre \o t) = k + l
      /\ \A i \in 1 .. k + l : (pre \o t)[i] = IF i <= k THEN pre[i] ELSE t[i - k]
  <2>1. /\ pre \o t \in Seq(S) /\ Len(pre \o t) = Len(pre) + Len(t)
        /\ \A i \in 1 .. Len(pre) + Len(t) :
             (pre \o t)[i] = IF i <= Len(pre) THEN pre[i] ELSE t[i - Len(pre)]
    BY <1>2, ConcatProperties
  <2>. QED  BY <1>3, <1>4, <2>1
<1>6. ASSUME NEW i \in 1 .. k  PROVE (pre \o t)[i] = pre[i]
  <2>1. i \in 1 .. k + l /\ i <= k
    OBVIOUS
  <2>. QED  BY <1>5, <2>1
<1>7. ASSUME NEW i \in 1 .. l  PROVE (pre \o t)[k + i] = s[i + 1]
  <2>1. PICK j \in 1 .. k + l : j = k + i /\ ~(j <= k) /\ j - k = i
    OBVIOUS
  <2>2. (pre \o t)[j] = t[j - k]
    BY <1>5, <2>1
  <2>3. t[i] = s[i + 1]
    BY <1>1, <1>2, <1>4
  <2>. QED  BY <2>1, <2>2, <2>3
<1>8. Len(pre \o t) = Len(pre) + (Len(s) - 1)
  BY <1>3, <1>4, <1>5
<1>. QED  BY <1>1, <1>2, <1>3, <1>4, <1>5, <1>6, <1>7, <1>8

\* The same with one element put between.
LEMMA HeadReplacedBy ==
  ASSUME NEW S, NEW s \in Seq(S), s # <<>>, NEW pre \in Seq(S), NEW e \in S
  PROVE  /\ pre \o <<e>> \o Tail(s) \in Seq(S)
         /\ Len(pre \o <<e>> \o Tail(s)) = Len(pre) + Len(s)
         /\ \A i \in 1 .. Len(pre) : (pre \o <<e>> \o Tail(s))[i] = pre[i]
         /\ (pre \o <<e>> \o Tail(s))[Len(pre) + 1] = e
         /\ \A i \in 2 .. Len(s) : (pre \o <<e>> \o Tail(s))[Len(pre) + i] = s[i]
         /\ Len(s) \in Nat \ {0} /\ Len(pre) \in Nat
         /\ Head(s) = s[1]
<1>1. <<e>> \in Seq(S) /\ Len(<<e>>) = 1 /\ <<e>>[1] = e
  OBVIOUS
<1>2. PICK d \in Seq(S) : d = <<e>> /\ Len(d) = 1 /\ d[1] = e
  BY <1>1
<1>3. PICK k \in Nat : k = Len(pre)
  BY LenProperties
<1>4. /\ pre \o d \in Seq(S) /\ Len(pre \o d) = k + 1
      /\ \A i \in 1 .. k + 1 : (pre \o d)[i] = IF i <= k THEN pre[i] ELSE d[i - k]
  BY <1>2, <1>3, ConcatProperties
<1>5. PICK q \in Seq(S) : q = pre \o d
  BY <1>4
<1>6. Len(q) = k + 1 /\ q[k + 1] = e /\ \A i \in 1 .. k : q[i] = pre[i]
  <2>1. k + 1 \in 1 .. k + 1 /\ ~(k + 1 <= k) /\ (k + 1) - k = 1
    OBVIOUS
  <2>2. \A i \in 1 .. k : i \in 1 .. k + 1 /\ i <= k
    OBVIOUS
  <2>. QED  BY <1>2, <1>4, <1>5, <2>1, <2>2
<1>7. PICK n \in Nat \ {0} : n = Len(s)
  BY EmptySeq
<1>8. /\ q \o Tail(s) \in Seq(S)
      /\ Len(q \o Tail(s)) = (k + 1) + (n - 1)
      /\ \A i \in 1 .. k + 1 : (q \o Tail(s))[i] = q[i]
      /\ \A i \in 1 .. n - 1 : (q \o Tail(s))[(k + 1) + i] = s[i + 1]
      /\ Head(s) = s[1]
  <2>1. /\ q \o Tail(s) \in Seq(S)
        /\ Len(q \o Tail(s)) = Len(q) + (Len(s) - 1)
        /\ \A i \in 1 .. Len(q) : (q \o Tail(s))[i] = q[i]
        /\ \A i \in 1 .. Len(s) - 1 : (q \o Tail(s))[Len(q) + i] = s[i + 1]
        /\ Head(s) = s[1]
    BY <1>5, HeadReplaced
  <2>. QED  BY <1>6, <1>7, <2>1
<1>9. PICK r : r = q \o Tail(s)
  OBVIOUS
<1>10. \A i \in 2 .. n : r[k + i] = s[i]
  <2>1. ASSUME NEW i \in 2 .. n  PROVE r[k + i] = s[i]
    <3>1. i - 1 \in 1 .. n - 1 /\ (k + 1) + (i - 1) = k + i /\ (i - 1) + 1 = i
      OBVIOUS
    <3>. QED  BY <1>8, <1>9, <3>1
  <2>. QED  BY <2>1
<1>11. /\ r[k + 1] = e /\ \A i \in 1 .. k : r[i] = pre[i]
       /\ Len(r) = k + n
  <2>1. \A i \in 1 .. k : i \in 1 .. k + 1
    OBVIOUS
  <2>2. k + 1 \in 1 .. k + 1
    OBVIOUS
  <2>. QED  BY <1>6, <1>8, <1>9, <2>1, <2>2
<1>. QED  BY <1>2, <1>3, <1>5, <1>7, <1>8, <1>9, <1>10, <1>11

LEMMA JoinedElements ==
  ASSUME NEW S, NEW a \in Seq(S), NEW b \in Seq(S)
  PROVE  ToSet(a \o b) = ToSet(a) \cup ToSet(b)
<1>1. PICK k \in Nat, l \in Nat : k = Len(a) /\ l = Len(b) /\ DOMAIN a = 1 .. k /\ DOMAIN b = 1 .. l
  BY LenProperties
<1>2. /\ a \o b \in Seq(S) /\ Len(a \o b) = Len(a) + Len(b)
      /\ \A i \in 1 .. Len(a) + Len(b) : (a \o b)[i] = IF i <= Len(a) THEN a[i] ELSE b[i - Len(a)]
  BY ConcatProperties
<1>3. PICK c \in Seq(S) : c = a \o b
  BY <1>2
<1>4. DOMAIN c = 1 .. k + l /\ \A i \in 1 .. k + l : c[i] = IF i <= k THEN a[i] ELSE b[i - k]
  <2>1. DOMAIN c = 1 .. Len(c)
    BY <1>3, LenProperties
  <2>. QED  BY <1>1, <1>2, <1>3, <2>1
<1>5. ASSUME NEW i \in 1 .. k + l  PROVE c[i] \in ToSet(a) \cup ToSet(b)
  <2>1. CASE i <= k
    BY <1>1, <1>4, <2>1 DEF ToSet
  <2>2. CASE ~(i <= k)
    <3>1. PICK j \in 1 .. l : j = i - k
      BY <2>2
    <3>2. c[i] = b[j]
      BY <1>4, <2>2, <3>1
    <3>. QED  BY <1>1, <3>2 DEF ToSet
  <2>. QED  BY <2>1, <2>2
<1>6. ASSUME NEW i \in 1 .. k  PROVE a[i] \in ToSet(c)
  <2>1. i \in 1 .. k + l /\ c[i] = a[i]
    BY <1>4
  <2>. QED  BY <1>4, <2>1 DEF ToSet
<1>7. ASSUME NEW i \in 1 .. l  PROVE b[i] \in ToSet(c)
  <2>1. PICK j \in 1 .. k + l : j = k + i /\ ~(j <= k) /\ j - k = i
    OBVIOUS
  <2>2. c[j] = b[i]
    BY <1>4, <2>1
  <2>. QED  BY <1>4, <2>2 DEF ToSet
<1>8. \A x \in ToSet(c) : x \in ToSet(a) \cup ToSet(b)
  BY <1>4, <1>5 DEF ToSet
<1>9. \A x \in ToSet(a) \cup ToSet(b) : x \in ToSet(c)
  <2>1. \A x \in ToSet(a) : x \in ToSet(c)
    BY <1>1, <1>6 DEF ToSet
  <2>2. \A x \in ToSet(b) : x \in ToSet(c)
    BY <1>1, <1>7 DEF ToSet
  <2>. QED  BY <2>1, <2>2
<1>. QED  BY <1>3, <1>8, <1>9

\* The elements of a flattened sequence are those of its elements.
LEMMA Flattened ==
  ASSUME NEW S, NEW n \in Nat, NEW ss \in [1 .. n -> Seq(S)]
  PROVE  /\ FlattenSeq(ss) \in Seq(S)
         /\ ToSet(FlattenSeq(ss)) = UNION {ToSet(ss[i]) : i \in 1 .. n}
<1>. DEFINE step(f) == [i \in 1 .. Len(ss) |-> IF i = 1 THEN ss[i] ELSE f[i - 1] \o ss[i]]
            flat == CHOOSE f : f = step(f)
<1>1. Len(ss) = n
  OBVIOUS
<1>2. FlattenSeq(ss) = IF Len(ss) = 0 THEN ss ELSE flat[Len(ss)]
  BY DEF FlattenSeq
<1>3. \A f : step(f) = [i \in 1 .. n |-> IF i = 1 THEN ss[i] ELSE f[i - 1] \o ss[i]]
  BY <1>1
<1>4. ASSUME n # 0  PROVE flat = step(flat)
  <2>. DEFINE good(f, k) == /\ f \in [1 .. k -> Seq(S)] /\ f[1] = ss[1]
                            /\ \A i \in 2 .. k : f[i] = f[i - 1] \o ss[i]
              N == {m \in Nat : m + 1 <= n => \E f : good(f, m + 1)}
  <2>1. 0 \in N
    <3>1. good([i \in 1 .. 1 |-> ss[1]], 0 + 1)
      BY <1>4
    <3>. QED  BY <3>1
  <2>2. ASSUME NEW m \in Nat, m + 1 <= n => \E f : good(f, m + 1), (m + 1) + 1 <= n
        PROVE  \E f : good(f, (m + 1) + 1)
    <3>1. PICK k \in 2 .. n : k = (m + 1) + 1 /\ k - 1 = m + 1
      BY <2>2
    <3>2. PICK f : good(f, k - 1)
      <4>. HIDE DEF good
      <4>1. \E f : good(f, m + 1)
        BY <2>2
      <4>. QED  BY <3>1, <4>1
    <3>. DEFINE g == [i \in 1 .. k |-> IF i = k THEN f[k - 1] \o ss[k] ELSE f[i]]
    <3>3. f[k - 1] \o ss[k] \in Seq(S)
      <4>1. f[k - 1] \in Seq(S) /\ ss[k] \in Seq(S)
        BY <3>1, <3>2
      <4>. QED  BY <4>1, ConcatProperties
    <3>4. g \in [1 .. k -> Seq(S)] /\ g[1] = ss[1]
      BY <3>1, <3>2, <3>3
    <3>5. ASSUME NEW i \in 2 .. k  PROVE g[i] = g[i - 1] \o ss[i]
      <4>1. \A j \in 1 .. k : g[j] = IF j = k THEN f[k - 1] \o ss[k] ELSE f[j]
        OBVIOUS
      <4>2. PICK j \in 1 .. k : j = i - 1 /\ j # k
        BY <3>1
      <4>. HIDE DEF g
      <4>3. g[i - 1] = f[i - 1]
        BY <4>1, <4>2
      <4>4. CASE i = k
        <5>1. k \in 1 .. k
          BY <3>1
        <5>2. g[k] = f[k - 1] \o ss[k]
          BY <4>1, <5>1
        <5>. QED  BY <4>3, <4>4, <5>2
      <4>5. CASE i # k
        <5>1. i \in 2 .. k - 1 /\ i \in 1 .. k
          BY <3>1, <4>5
        <5>2. g[i] = f[i]
          BY <4>1, <4>5, <5>1
        <5>3. f[i] = f[i - 1] \o ss[i]
          BY <3>2, <5>1
        <5>. QED  BY <4>3, <5>2, <5>3
      <4>. QED  BY <4>4, <4>5
    <3>6. good(g, k)
      <4>. HIDE DEF g
      <4>. QED  BY <3>4, <3>5
    <3>. HIDE DEF good
    <3>. QED  BY <3>1, <3>6
  <2>3. N = Nat
    <3>. HIDE DEF good
    <3>1. ASSUME NEW m \in N  PROVE m + 1 \in N
      <4>1. m \in Nat /\ m + 1 \in Nat /\ (m + 1 <= n => \E f : good(f, m + 1))
        OBVIOUS
      <4>2. (m + 1) + 1 <= n => m + 1 <= n
        BY <4>1
      <4>3. (m + 1) + 1 <= n => \E f : good(f, (m + 1) + 1)
        BY <2>2, <4>1, <4>2
      <4>. QED  BY <4>1, <4>3
    <3>2. N \subseteq Nat
      OBVIOUS
    <3>. HIDE DEF N
    <3>. QED  BY <2>1, <3>1, <3>2, Induct
  <2>4. PICK f : good(f, n)
    <3>. HIDE DEF good
    <3>1. PICK m \in Nat : m + 1 = n
      <4>1. n - 1 \in Nat /\ (n - 1) + 1 = n
        BY <1>4
      <4>. QED  BY <4>1
    <3>2. m \in N
      BY <2>3
    <3>3. \E f : good(f, m + 1)
      BY <3>1, <3>2
    <3>. QED  BY <3>1, <3>3
  <2>5. f = step(f)
    <3>1. \A i \in 1 .. n : f[i] = IF i = 1 THEN ss[i] ELSE f[i - 1] \o ss[i]
      <4>1. ASSUME NEW i \in 1 .. n, i # 1  PROVE f[i] = f[i - 1] \o ss[i]
        <5>1. i \in 2 .. n
          BY <4>1
        <5>. QED  BY <2>4, <5>1
      <4>. QED  BY <2>4, <4>1
    <3>2. f \in [1 .. n -> Seq(S)]
      BY <2>4
    <3>3. f = [i \in 1 .. n |-> f[i]]
      BY <3>2
    <3>4. f = [i \in 1 .. n |-> IF i = 1 THEN ss[i] ELSE f[i - 1] \o ss[i]]
      BY <3>1, <3>3
    <3>. QED  BY <1>3, <3>4
  <2>. HIDE DEF step
  <2>. QED  BY <2>5
<1>5. ASSUME n # 0  PROVE /\ flat[1] = ss[1]
                         /\ \A i \in 2 .. n : flat[i] = flat[i - 1] \o ss[i]
  <2>1. PICK f : f = flat
    OBVIOUS
  <2>2. f = [i \in 1 .. n |-> IF i = 1 THEN ss[i] ELSE f[i - 1] \o ss[i]]
    <3>1. step(flat) = [i \in 1 .. n |-> IF i = 1 THEN ss[i] ELSE flat[i - 1] \o ss[i]]
      BY <1>3
    <3>2. flat = step(flat)
      BY <1>4, <1>5
    <3>. HIDE DEF step, flat
    <3>. QED  BY <2>1, <3>1, <3>2
  <2>3. \A i \in 1 .. n : f[i] = IF i = 1 THEN ss[i] ELSE f[i - 1] \o ss[i]
    BY <2>2
  <2>4. 1 \in 1 .. n /\ \A i \in 2 .. n : i \in 1 .. n /\ i # 1
    BY <1>5
  <2>5. f[1] = ss[1] /\ \A i \in 2 .. n : f[i] = f[i - 1] \o ss[i]
    BY <2>3, <2>4
  <2>. QED  BY <2>1, <2>5
<1>. HIDE DEF flat
<1>6. ASSUME n # 0
      PROVE  /\ flat[n] \in Seq(S)
             /\ ToSet(flat[n]) = UNION {ToSet(ss[i]) : i \in 1 .. n}
  <2>. DEFINE good(k) == /\ flat[k] \in Seq(S)
                         /\ ToSet(flat[k]) = UNION {ToSet(ss[i]) : i \in 1 .. k}
              N == {m \in Nat : m + 1 <= n => good(m + 1)}
  <2>1. 0 \in N
    <3>1. flat[1] = ss[1] /\ ss[1] \in Seq(S)
      BY <1>5, <1>6
    <3>2. good(1)
      BY <3>1
    <3>. QED  BY <3>2
  <2>2. ASSUME NEW m \in Nat, m + 1 <= n => good(m + 1), (m + 1) + 1 <= n
        PROVE  good((m + 1) + 1)
    <3>1. PICK k \in 2 .. n : k = (m + 1) + 1 /\ k - 1 = m + 1
      BY <2>2
    <3>2. good(k - 1)
      <4>. HIDE DEF good
      <4>. QED  BY <2>2, <3>1
    <3>3. PICK a \in Seq(S), b \in Seq(S) : a = flat[k - 1] /\ b = ss[k]
      BY <3>1, <3>2
    <3>4. flat[k] = a \o b
      BY <1>5, <1>6, <3>1, <3>3
    <3>5. a \o b \in Seq(S) /\ ToSet(a \o b) = ToSet(a) \cup ToSet(b)
      <4>1. a \o b \in Seq(S)
        BY ConcatProperties
      <4>. QED  BY <4>1, JoinedElements
    <3>6. ToSet(a) \cup ToSet(b) = UNION {ToSet(ss[i]) : i \in 1 .. k}
      <4>1. 1 .. k = (1 .. k - 1) \cup {k}
        BY <3>1
      <4>. QED  BY <3>2, <3>3, <4>1
    <3>7. good(k)
      BY <3>4, <3>5, <3>6
    <3>. HIDE DEF good
    <3>. QED  BY <3>1, <3>7
  <2>3. N = Nat
    <3>. HIDE DEF good
    <3>1. N \subseteq Nat /\ \A m \in N : m + 1 \in N
      BY <2>2
    <3>. HIDE DEF N
    <3>. QED  BY <2>1, <3>1, Induct
  <2>4. good(n)
    <3>. HIDE DEF good
    <3>1. PICK m \in Nat : m + 1 = n
      <4>1. n - 1 \in Nat /\ (n - 1) + 1 = n
        BY <1>6
      <4>. QED  BY <4>1
    <3>2. m \in N
      BY <2>3
    <3>. QED  BY <3>1, <3>2
  <2>. QED  BY <2>4
<1>7. CASE n = 0
  <2>1. ss = <<>> /\ FlattenSeq(ss) = ss
    BY <1>1, <1>2, <1>7
  <2>2. ToSet(<<>>) = {} /\ <<>> \in Seq(S) /\ 1 .. n = {}
    BY <1>7 DEF ToSet
  <2>. QED  BY <2>1, <2>2
<1>. QED  BY <1>1, <1>2, <1>6, <1>7

-----------------------------------------------------------------------------
(* The inductive invariant: its types.                                     *)

ObjectType == [type : DOMAIN Types, addr : Nat, n : Nat \ {0}]
MemberType == [type : DOMAIN Types, off : Nat, n : Nat]
ParentType == [type : DOMAIN Types, addr : Nat, size : Nat \ {0}, array : BOOLEAN]

CallType ==
  [do : {"blit"}, type : DOMAIN Types, addr : Nat]
    \cup [do : {"area"}, type : DOMAIN Types, addr : Nat, n : Nat]
    \cup [do : {"end"}, type : DOMAIN Types]
    \cup [do : {"object"}, obj : ObjectType]
    \cup [do : {"members"}, type : DOMAIN Types, at : Nat]
    \cup [do : {"pointers"}, at : Nat, n : Nat]
    \cup [do : {"follow"}, at : Nat]
    \cup [do : {"swap"}, type : DOMAIN Types, at : Nat, n : Nat]
    \cup [do : {"ref"}, at : Nat, obj : ObjectType, delta : Nat]

StateType ==
  /\ prog \in Programs /\ pc \in {"gather", "write", "written", "loaded"}
  /\ todo \in Seq(CallType) /\ parents \in Seq(ParentType) /\ buffer \in Seq(Int)
  /\ infos \in [DOMAIN Types -> [members : Seq(MemberType), complete : BOOLEAN]]
  /\ objects \subseteq ObjectType
  /\ DOMAIN placed \subseteq objects /\ placed \in [DOMAIN placed -> Nat]
  /\ refs \in Seq([at : Nat, to : Nat])

-----------------------------------------------------------------------------
(* Gathering.                                                              *)

\* There are n values of a type at p.
Live(t, p, n) == t \in DOMAIN Types /\ p \in Nat /\ Values(t, p, n) \subseteq prog.heap

\* A member that has been recorded is a field of its class.
MemberOf(f) == [type |-> f.type, off |-> f.off, n |-> Count(f)]
IsField(t, m) == \E i \in DOMAIN Types[t].fields : m = MemberOf(Types[t].fields[i])
MembersInv ==
  \A t \in DOMAIN Types : \A k \in 1 .. Len(infos[t].members) :
    Cat(t) = "class" /\ IsField(t, infos[t].members[k])

\* An object is made of values, where the program or a pointer refers to, and two of
\* them share memory only if a pointer leads into one.
ObjectsInv ==
  /\ \A o \in objects : Live(o.type, o.addr, o.n) /\ o.addr \in Referred
  /\ NoPointerInside => \A o, x \in objects :
                          o = x \/ Apart(o.addr, Extent(o), x.addr, Extent(x))

\* The calls that blitting what is on the stack makes.
Below(q, c) ==
  \/ q.array /\ c.do = "blit" /\ c.type = q.type /\ c.addr \in q.addr .. q.addr + q.size - 1
  \/ /\ ~q.array /\ Cat(q.type) = "class"
     /\ \E i \in DOMAIN Types[q.type].fields : c = FieldOf(Types[q.type].fields[i], q.addr)
  \/ /\ ~q.array /\ Cat(q.type) = "pointer" /\ prog.memory[q.addr] # Null
     /\ c = AreaOf(Types[q.type].to, prog.memory[q.addr], Types[q.type].n)

Gathers(c) == \/ c.do = "blit" /\ Live(c.type, c.addr, 1)
              \/ c.do = "area" /\ c.n # 0 /\ Live(c.type, c.addr, c.n)

\* The i-th call of todo is made by the l-th of parents; what a pointer refers to
\* is blitted at once, when it has not been registered.
Level(c, i, l, next) ==
  IF c.do = "end" THEN l > 0 /\ next = l - 1 /\ c.type = parents[l].type
  ELSE /\ next = l /\ Gathers(c)
       /\ l = 0 => i = 1 /\ c = BlitOf(prog.type, prog.addr) /\ objects = {}
       /\ l > 0 => Below(parents[l], c)
       /\ l > 0 /\ ~parents[l].array /\ Cat(parents[l].type) = "pointer" =>
            i = 1 /\ ~Registered(objects, c.addr)

Levels(lv) ==
  /\ lv[1] = Len(parents) /\ lv[Len(todo) + 1] = 0
  /\ \A i, j \in 1 .. Len(todo) + 1 : i <= j => lv[j] <= lv[i]
  /\ \A i \in 1 .. Len(todo) : Level(todo[i], i, lv[i], lv[i + 1])

RootObject == [type |-> prog.type, addr |-> prog.addr, n |-> 1]

\* What is on the stack has its calls in todo, down to the root.
GatherInv ==
  /\ RootObject \in objects \/ (pc = "gather" /\ todo # <<>> /\ parents = <<>>)
  /\ pc = "gather" =>
       /\ DOMAIN placed = {} /\ buffer = <<>> /\ refs = <<>> /\ slots = <<>>
       /\ \A k \in 1 .. Len(parents) : ~parents[k].array =>
            parents[k].size = Size(parents[k].type) /\ Live(parents[k].type, parents[k].addr, 1)
       /\ \E lv \in [1 .. Len(todo) + 1 -> 0 .. Len(parents)] : Levels(lv)

-----------------------------------------------------------------------------
(* Writing.                                                                *)

\* Objects lie in the block one behind the other, at multiples of their alignment.
PlacesInv ==
  /\ \A o \in DOMAIN placed :
       placed[o] % ObjectAlign = 0 /\ placed[o] + Extent(o) <= Len(buffer)
  /\ \A o, x \in DOMAIN placed :
       o = x \/ Apart(placed[o], Extent(o), placed[x], Extent(x))

\* A byte of the block is one of a copied object, whose pointers are where they
\* were; and no byte is there twice.
BytesInv ==
  /\ \A o \in DOMAIN placed : \A x \in prog.heap : Cat(x.type) = "pointer" /\ Holds(o, x.addr) =>
       buffer[placed[o] + (x.addr - o.addr) + 1] = x.addr
  /\ \A i \in DOMAIN buffer :
       buffer[i] # Pad => \E o \in DOMAIN placed : Holds(o, buffer[i])
  /\ CopiedOnce

\* What begins at offset at is the copy of n values of type t.
Copied(at, t, n) ==
  \E o \in DOMAIN placed, a \in Nat :
    /\ at = placed[o] + (a - o.addr) /\ o.addr <= a /\ a + n * Size(t) <= o.addr + Extent(o)
    /\ Live(t, a, n)
CopiedPointers(at, n) == \E t \in DOMAIN Types : Cat(t) = "pointer" /\ Copied(at, t, n)

\* The pointer that is copied to offset at refers to a byte of an object.
PointsInto(at, o, delta) ==
  \E x \in DOMAIN placed, v \in DOMAIN prog.memory :
    Holds(x, v) /\ at = placed[x] + (v - x.addr) /\ prog.memory[v] = o.addr + delta

Writes(c) ==
  \/ c.do = "object" /\ c.obj \in objects
  \/ c.do = "members" /\ Copied(c.at, c.type, 1)
  \/ c.do = "pointers" /\ CopiedPointers(c.at, c.n)
  \/ c.do = "follow" /\ CopiedPointers(c.at, 1)
  \/ c.do = "swap" /\ Cat(c.type) = "number" /\ Copied(c.at, c.type, c.n)
  \/ /\ c.do = "ref" /\ c.obj \in objects /\ c.delta < Extent(c.obj)
     /\ CopiedPointers(c.at, 1) /\ PointsInto(c.at, c.obj, c.delta)

\* An object is written before a reference to it is.
CallsReady ==
  \A i \in 1 .. Len(todo) :
    /\ Writes(todo[i])
    /\ todo[i].do = "ref" =>
         todo[i].obj \in DOMAIN placed \/ (i > 1 /\ todo[i - 1] = ObjectOf(todo[i].obj))

\* A reference leads to the copy of what its pointer refers to.
Leads(r) ==
  \E o \in DOMAIN placed, delta \in Nat :
    delta < Extent(o) /\ r.to = placed[o] + delta /\ PointsInto(r.at, o, delta)
RefsInv == /\ \A k \in 1 .. Len(refs) : Leads(refs[k])
           /\ pc = "written" => slots = Offsets

WriteInv ==
  /\ pc = "write" => CallsReady
  /\ \A k \in 1 .. Len(refs) : refs[k].at < Len(buffer) /\ refs[k].to < Len(buffer)
  /\ RefsInv
  /\ pc \in {"gather", "write"} => slots = <<>>
  /\ DOMAIN slots \subseteq Nat /\ \A at \in DOMAIN slots : slots[at] \in Nat

BlitInv ==
  StateType /\ MembersInv /\ ObjectsInv /\ GatherInv /\ PlacesInv /\ BytesInv /\ WriteInv

-----------------------------------------------------------------------------
(* Types, values and calls.                                                *)

LEMMA TypeFacts ==
  ASSUME NEW t \in DOMAIN Types
  PROVE  /\ Cat(t) \in {"number", "pointer", "class"} /\ Size(t) \in Nat \ {0}
         /\ Cat(t) = "pointer" => /\ Types[t].to \in DOMAIN Types /\ Types[t].n \in Nat \ {0}
                                  /\ Size(t) = Size("pointer")
         /\ Types[t].fields \in Seq([type : DOMAIN Types, off : Nat, n : Nat])
BY TypeAssumption DEF TypeAssumption, Cat, Size

LEMMA FieldFacts ==
  ASSUME NEW t \in DOMAIN Types, NEW i \in DOMAIN Types[t].fields, NEW f, f = Types[t].fields[i]
  PROVE  /\ f \in [type : DOMAIN Types, off : Nat, n : Nat]
         /\ f.type \in DOMAIN Types /\ f.off \in Nat /\ f.n \in Nat /\ Count(f) \in Nat \ {0}
         /\ f.off + Count(f) * Size(f.type) <= Size(t)
<1>1. Types[t].fields \in Seq([type : DOMAIN Types, off : Nat, n : Nat])
  BY TypeFacts
<1>2. f \in [type : DOMAIN Types, off : Nat, n : Nat]
  BY <1>1, ElementOfSeq, LenProperties
<1>3. f.off + Count(f) * Size(f.type) <= Size(t)
  BY TypeAssumption DEF TypeAssumption
<1>. QED  BY <1>2, <1>3 DEF Count

\* The i-th of n equal parts lies in the whole.
LEMMA PartFits ==
  ASSUME NEW n \in Nat, NEW i \in 0 .. n - 1, NEW size \in Nat
  PROVE  i * size \in Nat /\ n * size \in Nat /\ i * size + size <= n * size
<1>1. PICK k \in Nat : n = (i + 1) + k
  <2>1. n - (i + 1) \in Nat /\ n = (i + 1) + (n - (i + 1))
    OBVIOUS
  <2>. QED  BY <2>1
<1>2. ((i + 1) + k) * size = (i * size + size) + k * size /\ k * size \in Nat /\ i * size \in Nat
  OBVIOUS
<1>3. PICK x \in Nat, y \in Nat : x = i * size /\ y = k * size
  BY <1>2
<1>. QED  BY <1>1, <1>2, <1>3

\* Where a value is among n of them.
LEMMA ValueAt ==
  ASSUME NEW t, NEW p, NEW n, NEW i \in 0 .. n - 1
  PROVE  [type |-> t, addr |-> p + i * Size(t)] \in Values(t, p, n)
BY DEF Values

LEMMA OneValue ==
  ASSUME NEW t \in DOMAIN Types, NEW p \in Nat
  PROVE  Values(t, p, 1) = {[type |-> t, addr |-> p]}
<1>1. PICK s \in Nat : s = Size(t)
  BY TypeFacts
<1>2. 0 .. 1 - 1 = {0} /\ p + 0 * s = p
  OBVIOUS
<1>3. Values(t, p, 1) = {[type |-> t, addr |-> p + i * s] : i \in {0}}
  BY <1>1, <1>2 DEF Values
<1>4. {[type |-> t, addr |-> p + i * s] : i \in {0}} = {[type |-> t, addr |-> p + 0 * s]}
  OBVIOUS
<1>. QED  BY <1>2, <1>3, <1>4

LEMMA LivePart ==
  ASSUME NEW t, NEW p, NEW n \in Nat, Live(t, p, n), NEW i \in 0 .. n - 1
  PROVE  Live(t, p + i * Size(t), 1)
<1>1. t \in DOMAIN Types /\ p \in Nat /\ Size(t) \in Nat
  BY TypeFacts DEF Live
<1>2. p + i * Size(t) \in Nat
  BY <1>1, PartFits
<1>3. [type |-> t, addr |-> p + i * Size(t)] \in prog.heap
  BY ValueAt DEF Live
<1>. QED  BY <1>1, <1>2, <1>3, OneValue DEF Live

LEMMA LiveOne ==
  ASSUME NEW t, NEW p, Live(t, p, 1)
  PROVE  t \in DOMAIN Types /\ p \in Nat /\ [type |-> t, addr |-> p] \in prog.heap
BY OneValue DEF Live

LEMMA LiveField ==
  ASSUME prog \in Programs, NEW t, NEW p, Live(t, p, 1), Cat(t) = "class",
         NEW i \in DOMAIN Types[t].fields, NEW f, f = Types[t].fields[i]
  PROVE  Live(f.type, p + f.off, Count(f))
<1>1. t \in DOMAIN Types /\ p \in Nat /\ [type |-> t, addr |-> p] \in prog.heap
  BY LiveOne
<1>2. f.type \in DOMAIN Types /\ f.off \in Nat
  BY <1>1, FieldFacts
<1>3. PICK x \in prog.heap : x = [type |-> t, addr |-> p]
  BY <1>1
<1>4. Values(f.type, x.addr + f.off, Count(f)) \subseteq prog.heap
  BY <1>3, ProgramAssumption DEF ProgramAssumption
<1>. QED  BY <1>1, <1>2, <1>3, <1>4 DEF Live

LEMMA LiveTarget ==
  ASSUME prog \in Programs, NEW t, NEW p, Live(t, p, 1), Cat(t) = "pointer"
  PROVE  /\ p \in DOMAIN prog.memory /\ prog.memory[p] \in Nat /\ prog.memory[p] \in Referred
         /\ prog.memory[p] # Null => Live(Types[t].to, prog.memory[p], Types[t].n)
<1>1. t \in DOMAIN Types /\ p \in Nat /\ [type |-> t, addr |-> p] \in prog.heap
  BY LiveOne
<1>2. PICK x \in prog.heap : x = [type |-> t, addr |-> p]
  BY <1>1
<1>3. /\ DOMAIN prog.memory = {y.addr : y \in {z \in prog.heap : Cat(z.type) = "pointer"}}
      /\ prog.memory[x.addr] \in Nat
      /\ prog.memory[x.addr] # Null =>
           Values(Types[x.type].to, prog.memory[x.addr], Types[x.type].n) \subseteq prog.heap
  BY <1>2, ProgramAssumption DEF ProgramAssumption
<1>4. p \in DOMAIN prog.memory
  BY <1>2, <1>3
<1>5. Types[t].to \in DOMAIN Types
  BY <1>1, TypeFacts
<1>. QED  BY <1>2, <1>3, <1>4, <1>5 DEF Live, Referred

LEMMA RootIsLive ==
  ASSUME prog \in Programs
  PROVE  Live(prog.type, prog.addr, 1) /\ prog.addr \in Referred
<1>1. PICK x \in prog.heap : x = [type |-> prog.type, addr |-> prog.addr]
  BY ProgramAssumption DEF ProgramAssumption
<1>2. x.type \in DOMAIN Types /\ x.addr \in Nat
  BY <1>1, ProgramAssumption DEF ProgramAssumption
<1>3. prog.type \in DOMAIN Types /\ prog.addr \in Nat
  BY <1>1, <1>2
<1>. QED  BY <1>1, <1>3, OneValue DEF Live, Referred

-----------------------------------------------------------------------------
(* Calls and objects.                                                      *)

LEMMA CallFields ==
  ASSUME NEW c \in CallType
  PROVE  /\ c.do = "blit" => c.type \in DOMAIN Types /\ c.addr \in Nat /\ c = BlitOf(c.type, c.addr)
         /\ c.do = "area" => /\ c.type \in DOMAIN Types /\ c.addr \in Nat /\ c.n \in Nat
                             /\ c = AreaOf(c.type, c.addr, c.n)
         /\ c.do = "end" => c.type \in DOMAIN Types /\ c = EndOf(c.type)
         /\ c.do = "object" => c.obj \in ObjectType /\ c = ObjectOf(c.obj)
         /\ c.do = "members" => c.type \in DOMAIN Types /\ c.at \in Nat
         /\ c.do = "pointers" => c.at \in Nat /\ c.n \in Nat
         /\ c.do = "follow" => c.at \in Nat
         /\ c.do = "swap" => c.type \in DOMAIN Types /\ c.at \in Nat /\ c.n \in Nat
         /\ c.do = "ref" => c.at \in Nat /\ c.obj \in ObjectType /\ c.delta \in Nat
<1>1. CASE c \in [do : {"blit"}, type : DOMAIN Types, addr : Nat]
  BY <1>1 DEF BlitOf
<1>2. CASE c \in [do : {"area"}, type : DOMAIN Types, addr : Nat, n : Nat]
  BY <1>2 DEF AreaOf
<1>3. CASE c \in [do : {"end"}, type : DOMAIN Types]
  BY <1>3 DEF EndOf
<1>4. CASE c \in [do : {"object"}, obj : ObjectType]
  BY <1>4 DEF ObjectOf
<1>5. CASE c \in [do : {"members"}, type : DOMAIN Types, at : Nat]
  BY <1>5
<1>6. CASE c \in [do : {"pointers"}, at : Nat, n : Nat]
  BY <1>6
<1>7. CASE c \in [do : {"follow"}, at : Nat]
  BY <1>7
<1>8. CASE c \in [do : {"swap"}, type : DOMAIN Types, at : Nat, n : Nat]
  BY <1>8
<1>9. CASE c \in [do : {"ref"}, at : Nat, obj : ObjectType, delta : Nat]
  BY <1>9
<1>. QED  BY <1>1, <1>2, <1>3, <1>4, <1>5, <1>6, <1>7, <1>8, <1>9 DEF CallType

LEMMA CallsTyped ==
  ASSUME NEW t \in DOMAIN Types, NEW a \in Nat, NEW n \in Nat, NEW o \in ObjectType
  PROVE  /\ BlitOf(t, a) \in CallType /\ AreaOf(t, a, n) \in CallType /\ EndOf(t) \in CallType
         /\ ObjectOf(o) \in CallType /\ MembersOf(t, a) \in CallType
         /\ PointersOf(a, n) \in CallType /\ FollowOf(a) \in CallType
         /\ SwapOf(t, a, n) \in CallType /\ RefOf(a, o, n) \in CallType
<1>1. BlitOf(t, a) \in CallType
  BY DEF BlitOf, CallType
<1>2. AreaOf(t, a, n) \in CallType
  BY DEF AreaOf, CallType
<1>3. EndOf(t) \in CallType
  BY DEF EndOf, CallType
<1>4. ObjectOf(o) \in CallType
  BY DEF ObjectOf, CallType
<1>5. MembersOf(t, a) \in CallType
  BY DEF MembersOf, CallType
<1>6. PointersOf(a, n) \in CallType /\ FollowOf(a) \in CallType
  BY DEF PointersOf, FollowOf, CallType
<1>7. SwapOf(t, a, n) \in CallType
  BY DEF SwapOf, CallType
<1>8. RefOf(a, o, n) \in CallType
  BY DEF RefOf, CallType
<1>. QED  BY <1>1, <1>2, <1>3, <1>4, <1>5, <1>6, <1>7, <1>8

LEMMA ObjectFacts ==
  ASSUME NEW o \in ObjectType
  PROVE  /\ o.type \in DOMAIN Types /\ o.addr \in Nat /\ o.n \in Nat \ {0}
         /\ Extent(o) \in Nat \ {0} /\ Size(o.type) \in Nat \ {0}
         /\ Size(o.type) <= Extent(o)
<1>1. o.type \in DOMAIN Types /\ o.addr \in Nat /\ o.n \in Nat \ {0}
  BY DEF ObjectType
<1>2. PICK s \in Nat \ {0} : s = Size(o.type)
  BY <1>1, TypeFacts
<1>3. PICK n \in Nat : o.n = n + 1
  <2>1. o.n - 1 \in Nat /\ o.n = (o.n - 1) + 1
    BY <1>1
  <2>. QED  BY <2>1
<1>4. n * s \in Nat /\ (n + 1) * s = n * s + s
  OBVIOUS
<1>. QED  BY <1>1, <1>2, <1>3, <1>4 DEF Extent

LEMMA LowestObject ==
  ASSUME NEW objs \in SUBSET ObjectType, objs # {}
  PROVE  Lowest(objs) \in objs /\ \A x \in objs : Lowest(objs).addr <= x.addr
<1>. DEFINE A == {o.addr : o \in objs}
            R == {ss \in Nat \X Nat : ss[1] < ss[2]}
<1>1. A \subseteq Nat /\ A # {}
  BY DEF ObjectType
<1>2. IsWellFoundedOn(R, Nat)
  BY NatLessThanWellFounded DEF OpToRel
<1>3. PICK a \in A : \A b \in A : ~(<<b, a>> \in R)
  <2>. HIDE DEF A, R
  <2>. QED  BY <1>1, <1>2, WFMin
<1>4. PICK o \in objs : o.addr = a
  BY <1>3
<1>5. \A x \in objs : o.addr <= x.addr
  <2>1. ASSUME NEW x \in objs  PROVE o.addr <= x.addr
    <3>1. x.addr \in Nat /\ o.addr \in Nat /\ x.addr \in A
      BY DEF ObjectType
    <3>2. ~(x.addr < o.addr)
      BY <1>3, <1>4, <3>1
    <3>. QED  BY <3>1, <3>2
  <2>. QED  BY <2>1
<1>. QED  BY <1>5 DEF Lowest

\* An object is found by its first address, and by no other.
LEMMA RegisteredMeans ==
  ASSUME NEW objs \in SUBSET ObjectType, NEW p \in Nat
  PROVE  /\ Registered(objs, p) <=> \E o \in objs : o.addr = p
         /\ Registered(objs, p) => LET o == Lowest(Behind(objs, p)) IN o \in objs /\ o.addr = p
<1>1. Behind(objs, p) \in SUBSET ObjectType /\ Behind(objs, p) \subseteq objs
  BY DEF Behind
<1>2. ASSUME Registered(objs, p)
      PROVE  Lowest(Behind(objs, p)) \in objs /\ Lowest(Behind(objs, p)).addr = p
  <2>1. PICK o \in Behind(objs, p) : o = Lowest(Behind(objs, p)) /\ Holds(o, p)
    BY <1>1, <1>2, LowestObject DEF Registered
  <2>2. o.addr >= p /\ o \in objs /\ p >= o.addr /\ o.addr \in Nat
    BY <2>1 DEF Behind, Holds, ObjectType
  <2>3. o.addr = p
    BY <2>2
  <2>. QED  BY <2>1, <2>2, <2>3
<1>3. ASSUME NEW x \in objs, x.addr = p  PROVE Registered(objs, p)
  <2>1. x \in Behind(objs, p)
    BY <1>3 DEF Behind
  <2>2. PICK o \in Behind(objs, p) : o = Lowest(Behind(objs, p)) /\ o.addr <= x.addr
    BY <1>1, <2>1, LowestObject
  <2>3. o.addr = p /\ o \in ObjectType
    <3>1. o.addr >= p /\ o.addr \in Nat /\ o \in ObjectType
      BY DEF Behind, ObjectType
    <3>. QED  BY <1>3, <2>2, <3>1
  <2>4. Holds(o, p)
    <3>1. Extent(o) \in Nat \ {0}
      BY <2>3, ObjectFacts
    <3>. QED  BY <2>3, <3>1 DEF Holds
  <2>. QED  BY <2>1, <2>2, <2>4 DEF Registered
<1>. QED  BY <1>2, <1>3

-----------------------------------------------------------------------------
(* Gathering: the next call, the area it begins and the calls it makes.    *)

\* The innermost call is made by the top of the stack.
LEMMA TopCall ==
  ASSUME StateType, GatherInv, pc = "gather", todo # <<>>, NEW c, c = Head(todo), c.do # "end"
  PROVE  /\ c \in CallType /\ Gathers(c)
         /\ parents = <<>> => c = BlitOf(prog.type, prog.addr) /\ objects = {}
         /\ parents # <<>> =>
              /\ Last(parents) = parents[Len(parents)] /\ Len(parents) \in Nat \ {0}
              /\ Below(Last(parents), c)
              /\ ~Last(parents).array /\ Cat(Last(parents).type) = "pointer" =>
                   ~Registered(objects, c.addr)
<1>1. PICK lv \in [1 .. Len(todo) + 1 -> 0 .. Len(parents)] : Levels(lv)
  BY DEF GatherInv
<1>2. todo \in Seq(CallType) /\ parents \in Seq(ParentType)
  BY DEF StateType
<1>3. Len(todo) \in Nat \ {0} /\ c = todo[1] /\ c \in CallType
  BY <1>2, EmptySeq, HeadTailProperties, ElementOfSeq
<1>4. 1 \in 1 .. Len(todo)
  BY <1>3
<1>5. Level(todo[1], 1, lv[1], lv[1 + 1]) /\ lv[1] = Len(parents)
  BY <1>1, <1>4 DEF Levels
<1>6. PICK l : l = Len(parents)
  OBVIOUS
<1>7. l \in Nat /\ (l = 0 <=> parents = <<>>)
  BY <1>2, <1>6, EmptySeq, LenProperties
<1>8. /\ Gathers(c)
      /\ l = 0 => c = BlitOf(prog.type, prog.addr) /\ objects = {}
      /\ l > 0 => Below(parents[l], c)
      /\ l > 0 /\ ~parents[l].array /\ Cat(parents[l].type) = "pointer" => ~Registered(objects, c.addr)
  BY <1>3, <1>5, <1>6 DEF Level
<1>9. Last(parents) = parents[l]
  BY <1>6 DEF Last
<1>. QED  BY <1>3, <1>6, <1>7, <1>8, <1>9

\* How many values the call is for; where it begins an object, the program or a
\* pointer refers to it and it is not one yet; where it records a member, that is
\* a field of the class around it.
Amount(c) == IF c.do = "blit" THEN 1 ELSE c.n

LEMMA CallBegins ==
  ASSUME StateType, GatherInv, pc = "gather", todo # <<>>, NEW c, c = Head(todo),
         c.do \in {"blit", "area"}
  PROVE  /\ Amount(c) \in Nat \ {0} /\ Live(c.type, c.addr, Amount(c))
         /\ ~Inside(c.addr) => c.addr \in Referred /\ \A o \in objects : o.addr # c.addr
         /\ Inside(c.addr) /\ Records(c.type) =>
              IsField(Last(parents).type,
                      [type |-> c.type, off |-> c.addr - Last(parents).addr, n |-> Amount(c)])
<1>. DEFINE top == Last(parents)
<1>1. /\ c \in CallType /\ Gathers(c)
      /\ parents = <<>> => c = BlitOf(prog.type, prog.addr) /\ objects = {}
      /\ parents # <<>> =>
           /\ top = parents[Len(parents)] /\ Len(parents) \in Nat \ {0}
           /\ Below(top, c)
           /\ ~top.array /\ Cat(top.type) = "pointer" => ~Registered(objects, c.addr)
  BY TopCall
<1>2. c.type \in DOMAIN Types /\ c.addr \in Nat /\ (c.do = "area" => c.n \in Nat)
  BY <1>1, CallFields
<1>3. Amount(c) \in Nat \ {0} /\ Live(c.type, c.addr, Amount(c))
  BY <1>1, <1>2 DEF Gathers, Amount
<1>4. ASSUME parents # <<>>
      PROVE  /\ top \in ParentType /\ top.type \in DOMAIN Types /\ top.addr \in Nat /\ top.size \in Nat
             /\ ~top.array => top.size = Size(top.type) /\ Live(top.type, top.addr, 1)
  <2>1. parents \in Seq(ParentType) /\ Len(parents) \in 1 .. Len(parents)
    BY <1>1, <1>4 DEF StateType
  <2>2. top \in ParentType
    BY <1>1, <1>4, <2>1, ElementOfSeq
  <2>3. ~top.array => top.size = Size(top.type) /\ Live(top.type, top.addr, 1)
    BY <1>1, <1>4, <2>1 DEF GatherInv
  <2>. QED  BY <2>2, <2>3 DEF ParentType
<1>5. CASE parents = <<>>
  <2>1. ~Inside(c.addr)
    BY <1>5 DEF Inside
  <2>2. c.addr = prog.addr /\ objects = {}
    BY <1>1, <1>5 DEF BlitOf
  <2>. QED  BY <1>3, <2>1, <2>2 DEF Referred
<1>6. CASE parents # <<>> /\ top.array
  <2>1. c.addr \in top.addr .. top.addr + top.size - 1
    BY <1>1, <1>6 DEF Below
  <2>2. Inside(c.addr)
    BY <1>4, <1>6, <2>1 DEF Inside
  <2>3. ~Records(c.type)
    BY <1>6 DEF Records
  <2>. QED  BY <1>3, <2>2, <2>3
<1>7. CASE parents # <<>> /\ ~top.array /\ Cat(top.type) = "class"
  <2>1. PICK i \in DOMAIN Types[top.type].fields : c = FieldOf(Types[top.type].fields[i], top.addr)
    BY <1>1, <1>7 DEF Below
  <2>2. PICK f : f = Types[top.type].fields[i]
    OBVIOUS
  <2>3. /\ f.type \in DOMAIN Types /\ f.off \in Nat /\ f.n \in Nat /\ Count(f) \in Nat \ {0}
        /\ f.off + Count(f) * Size(f.type) <= Size(top.type)
    BY <1>4, <1>7, <2>2, FieldFacts
  <2>4. c.type = f.type /\ c.addr = top.addr + f.off /\ Amount(c) = Count(f)
    BY <2>1, <2>2 DEF FieldOf, BlitOf, AreaOf, Amount, Count
  <2>5. f.off < top.size
    <3>1. PICK s \in Nat \ {0} : s = Size(f.type)
      BY <2>3, TypeFacts
    <3>2. PICK k \in Nat : Count(f) = k + 1
      <4>1. Count(f) - 1 \in Nat /\ Count(f) = (Count(f) - 1) + 1
        BY <2>3
      <4>. QED  BY <4>1
    <3>3. k * s \in Nat /\ (k + 1) * s = k * s + s
      OBVIOUS
    <3>4. PICK size \in Nat : size = Size(top.type) /\ size = top.size
      BY <1>4, <1>7
    <3>5. f.off + (k * s + s) <= size
      BY <2>3, <3>1, <3>2, <3>3, <3>4
    <3>6. PICK x \in Nat : x = k * s
      BY <3>3
    <3>7. f.off + (x + s) <= size
      BY <3>5, <3>6
    <3>. QED  BY <2>3, <3>4, <3>7
  <2>6. Inside(c.addr)
    BY <1>4, <1>7, <2>3, <2>4, <2>5 DEF Inside
  <2>7. c.addr - top.addr = f.off
    BY <1>4, <1>7, <2>3, <2>4
  <2>8. IsField(top.type, [type |-> c.type, off |-> c.addr - top.addr, n |-> Amount(c)])
    BY <2>1, <2>2, <2>4, <2>7 DEF IsField, MemberOf
  <2>. QED  BY <1>3, <2>6, <2>8
<1>8. CASE parents # <<>> /\ ~top.array /\ Cat(top.type) = "pointer"
  <2>1. c.addr = prog.memory[top.addr]
    BY <1>1, <1>8 DEF Below, AreaOf
  <2>2. prog.memory[top.addr] \in Referred
    BY <1>4, <1>8, LiveTarget DEF StateType
  <2>3. \A o \in objects : o.addr # c.addr
    BY <1>1, <1>2, <1>8, RegisteredMeans DEF StateType
  <2>4. ~Records(c.type)
    BY <1>8 DEF Records
  <2>. QED  BY <1>3, <2>1, <2>2, <2>3, <2>4
<1>9. CASE parents # <<>> /\ ~top.array /\ Cat(top.type) = "number"
  BY <1>1, <1>9 DEF Below
<1>10. parents # <<>> => Cat(top.type) \in {"number", "pointer", "class"}
  BY <1>4, TypeFacts
<1>. QED  BY <1>5, <1>6, <1>7, <1>8, <1>9, <1>10

\* Two ranges of addresses are apart, or one begins in the other.
LEMMA ApartOrInside ==
  ASSUME NEW p \in Nat, NEW m \in Nat \ {0}, NEW q \in Nat, NEW n \in Nat \ {0}
  PROVE  Apart(p, m, q, n) \/ (q >= p /\ q < p + m) \/ (p >= q /\ p < q + n)
BY DEF Apart

\* What begin_area leaves.
LEMMA AreaBegins ==
  ASSUME StateType, MembersInv, ObjectsInv, prog' = prog,
         NEW t, NEW p, NEW n \in Nat \ {0}, NEW array \in BOOLEAN, Live(t, p, n),
         ~Inside(p) => p \in Referred /\ \A o \in objects : o.addr # p,
         Inside(p) /\ Records(t) =>
           IsField(Last(parents).type, [type |-> t, off |-> p - Last(parents).addr, n |-> n]),
         BeginArea(t, p, n, array)
  PROVE  /\ infos' \in [DOMAIN Types -> [members : Seq(MemberType), complete : BOOLEAN]]
         /\ objects' \subseteq ObjectType /\ objects \subseteq objects'
         /\ ~Inside(p) => [type |-> t, addr |-> p, n |-> n] \in objects'
         /\ MembersInv' /\ ObjectsInv'
<1>. DEFINE x == [type |-> t, addr |-> p, n |-> n]
            top == Last(parents)
            m == [type |-> t, off |-> p - top.addr, n |-> n]
<1>1. t \in DOMAIN Types /\ p \in Nat /\ x \in ObjectType
  BY DEF Live, ObjectType
<1>2. /\ infos' = IF Inside(p) /\ Records(t) THEN Recorded(t, p, n) ELSE infos
      /\ objects' = IF Inside(p) THEN objects ELSE objects \cup {x}
  BY DEF BeginArea
<1>3. objects \subseteq ObjectType /\ infos \in [DOMAIN Types -> [members : Seq(MemberType), complete : BOOLEAN]]
  BY DEF StateType
<1>4. /\ infos' \in [DOMAIN Types -> [members : Seq(MemberType), complete : BOOLEAN]]
      /\ MembersInv'
  <2>1. CASE ~(Inside(p) /\ Records(t))
    <3>1. infos' = infos
      BY <1>2, <2>1
    <3>. QED  BY <1>3, <3>1 DEF MembersInv, IsField, MemberOf
  <2>2. CASE Inside(p) /\ Records(t)
    <3>1. top \in ParentType /\ Cat(top.type) = "class"
      <4>1. parents # <<>> /\ parents \in Seq(ParentType)
        BY <2>2 DEF Inside, StateType
      <4>2. Len(parents) \in Nat \ {0} /\ top = parents[Len(parents)]
        BY <4>1, EmptySeq DEF Last
      <4>. QED  BY <2>2, <4>1, <4>2, ElementOfSeq DEF Records
    <3>2. PICK tt \in DOMAIN Types : tt = top.type
      BY <3>1 DEF ParentType
    <3>3. IsField(tt, m) /\ Cat(tt) = "class"
      BY <2>2, <3>1, <3>2
    <3>4. m \in MemberType
      <4>1. PICK i \in DOMAIN Types[tt].fields : m = MemberOf(Types[tt].fields[i])
        BY <3>3 DEF IsField
      <4>2. PICK f : f = Types[tt].fields[i] /\ f.type \in DOMAIN Types /\ f.off \in Nat /\ Count(f) \in Nat
        BY FieldFacts
      <4>. QED  BY <4>1, <4>2 DEF MemberOf, MemberType
    <3>5. PICK known \in Seq(MemberType) : known = infos[tt].members
      BY <1>3
    <3>6. PICK new \in Seq(MemberType) :
            /\ infos' = [infos EXCEPT ![tt].members = new]
            /\ \A k \in 1 .. Len(new) : new[k] = m \/ (k \in 1 .. Len(known) /\ new[k] = known[k])
      <4>1. infos' = [infos EXCEPT ![tt].members = IF m \in ToSet(known) THEN known ELSE Append(known, m)]
        BY <1>2, <2>2, <3>2, <3>5 DEF Recorded
      <4>2. CASE m \in ToSet(known)
        BY <4>1, <4>2
      <4>3. CASE m \notin ToSet(known)
        <5>1. Append(known, m) \in Seq(MemberType) /\ Len(Append(known, m)) = Len(known) + 1
          BY <3>4, AppendProperties
        <5>2. \A k \in 1 .. Len(known) + 1 :
                Append(known, m)[k] = m \/ (k \in 1 .. Len(known) /\ Append(known, m)[k] = known[k])
          BY <3>4, AppendProperties
        <5>. QED  BY <4>1, <4>3, <5>1, <5>2
      <4>. QED  BY <4>2, <4>3
    <3>7. /\ infos' \in [DOMAIN Types -> [members : Seq(MemberType), complete : BOOLEAN]]
          /\ \A u \in DOMAIN Types : infos'[u].members = IF u = tt THEN new ELSE infos[u].members
      BY <1>3, <3>6
    <3>8. ASSUME NEW u \in DOMAIN Types, NEW k \in 1 .. Len(infos'[u].members)
          PROVE  Cat(u) = "class" /\ IsField(u, infos'[u].members[k])
      <4>1. CASE u # tt
        BY <3>7, <3>8, <4>1 DEF MembersInv
      <4>2. CASE u = tt
        <5>1. infos'[u].members = new /\ k \in 1 .. Len(new)
          BY <3>7, <3>8, <4>2
        <5>2. CASE new[k] = m
          BY <3>3, <4>2, <5>1, <5>2
        <5>3. CASE k \in 1 .. Len(known) /\ new[k] = known[k]
          BY <3>5, <4>2, <5>1, <5>3 DEF MembersInv
        <5>. QED  BY <3>6, <5>1, <5>2, <5>3
      <4>. QED  BY <4>1, <4>2
    <3>. QED  BY <3>7, <3>8 DEF MembersInv, IsField, MemberOf
  <2>. QED  BY <2>1, <2>2
<1>5. /\ objects' \subseteq ObjectType /\ objects \subseteq objects'
      /\ ~Inside(p) => x \in objects'
  BY <1>1, <1>2, <1>3
<1>6. ObjectsInv'
  <2>1. CASE Inside(p)
    <3>1. objects' = objects
      BY <1>2, <2>1
    <3>. QED  BY <3>1 DEF ObjectsInv, Live, Referred, NoPointerInside, Apart, Extent, Holds
  <2>2. CASE ~Inside(p)
    <3>1. objects' = objects \cup {x} /\ x.type = t /\ x.addr = p /\ x.n = n
      BY <1>2, <2>2
    <3>2. p \in Referred /\ \A o \in objects : o.addr # p
      BY <2>2
    <3>3. ASSUME NEW o \in objects'  PROVE Live(o.type, o.addr, o.n) /\ o.addr \in Referred
      BY <3>1, <3>2, <3>3 DEF ObjectsInv
    <3>4. ASSUME NoPointerInside', NEW o \in objects  PROVE Apart(o.addr, Extent(o), x.addr, Extent(x))
      <4>1. \A y \in objects' : \A q \in Referred : Holds(y, q) => q = y.addr
        BY <3>4 DEF NoPointerInside, Referred, Holds, Extent
      <4>2. o \in objects' /\ x \in objects' /\ o.addr \in Referred /\ o \in ObjectType
        BY <1>3, <3>1 DEF ObjectsInv
      <4>3. o.addr \in Nat /\ Extent(o) \in Nat \ {0} /\ x.addr \in Nat /\ Extent(x) \in Nat \ {0}
        BY <1>1, <4>2, ObjectFacts
      <4>4. ~Holds(o, p) /\ ~Holds(x, o.addr)
        BY <3>1, <3>2, <4>1, <4>2
      <4>. QED  BY <3>1, <4>3, <4>4, ApartOrInside DEF Holds
    <3>5. \A o \in objects : Apart(o.addr, Extent(o), x.addr, Extent(x)) =>
                             Apart(x.addr, Extent(x), o.addr, Extent(o))
      BY DEF Apart
    <3>6. NoPointerInside' => NoPointerInside
      BY <1>5 DEF NoPointerInside, Referred, Holds, Extent
    <3>7. NoPointerInside' => \A o, y \in objects' : o = y \/ Apart(o.addr, Extent(o), y.addr, Extent(y))
      BY <3>1, <3>4, <3>5, <3>6 DEF ObjectsInv
    <3>. QED  BY <3>3, <3>7 DEF ObjectsInv, Live, Referred, Apart, Extent
  <2>. QED  BY <2>1, <2>2
<1>. QED  BY <1>4, <1>5, <1>6

\* The calls that the next one makes, and its end, come before those that are left.
LEMMA Descend ==
  ASSUME StateType, NEW lv \in [1 .. Len(todo) + 1 -> 0 .. Len(parents)], Levels(lv),
         todo # <<>>, Head(todo).do # "end", prog' = prog,
         NEW q \in ParentType, parents' = Append(parents, q),
         NEW pre \in Seq(CallType), todo' = pre \o <<EndOf(q.type)>> \o Tail(todo),
         \A i \in 1 .. Len(pre) :
           /\ pre[i].do # "end" /\ Gathers(pre[i]) /\ Below(q, pre[i])
           /\ ~q.array /\ Cat(q.type) = "pointer" => i = 1 /\ ~Registered(objects', pre[i].addr)
  PROVE  /\ todo' \in Seq(CallType) /\ parents' \in Seq(ParentType)
         /\ \E lw \in [1 .. Len(todo') + 1 -> 0 .. Len(parents')] : Levels(lw)'
<1>1. /\ todo \in Seq(CallType) /\ parents \in Seq(ParentType) /\ q.type \in DOMAIN Types
      /\ EndOf(q.type) \in CallType
  BY CallsTyped DEF StateType, ParentType, EndOf, CallType
<1>2. PICK k \in Nat, d \in Nat \ {0}, np \in Nat \ {0} :
        k = Len(pre) /\ d = Len(todo) /\ np = Len(parents) + 1
  <2>1. Len(pre) \in Nat /\ Len(todo) \in Nat \ {0} /\ Len(parents) + 1 \in Nat \ {0}
    BY <1>1, EmptySeq
  <2>. QED  BY <2>1
<1>3. PICK e \in CallType : e = EndOf(q.type)
  BY <1>1
<1>4. PICK r \in Seq(CallType) : r = todo'
  <2>1. pre \o <<e>> \o Tail(todo) \in Seq(CallType)
    BY <1>1, HeadReplacedBy
  <2>. QED  BY <1>3, <2>1
<1>5. /\ Len(r) = k + d
      /\ \A i \in 1 .. k : r[i] = pre[i]
      /\ r[k + 1] = e
      /\ \A i \in 2 .. d : r[k + i] = todo[i]
      /\ todo[1] = Head(todo)
  <2>1. /\ Len(pre \o <<e>> \o Tail(todo)) = Len(pre) + Len(todo)
        /\ \A i \in 1 .. Len(pre) : (pre \o <<e>> \o Tail(todo))[i] = pre[i]
        /\ (pre \o <<e>> \o Tail(todo))[Len(pre) + 1] = e
        /\ \A i \in 2 .. Len(todo) : (pre \o <<e>> \o Tail(todo))[Len(pre) + i] = todo[i]
        /\ Head(todo) = todo[1]
    BY <1>1, HeadReplacedBy
  <2>2. r = pre \o <<e>> \o Tail(todo)
    BY <1>3, <1>4
  <2>. QED  BY <1>2, <2>1, <2>2
<1>6. PICK ps \in Seq(ParentType) : ps = parents'
  BY <1>1, AppendProperties
<1>7. Len(ps) = np /\ ps[np] = q /\ \A i \in 1 .. np - 1 : ps[i] = parents[i]
  BY <1>1, <1>2, <1>6, AppendProperties
<1>8. /\ lv[1] = np - 1 /\ lv[d + 1] = 0 /\ \A i \in 1 .. d + 1 : lv[i] \in 0 .. np - 1
      /\ \A i, j \in 1 .. d + 1 : i <= j => lv[j] <= lv[i]
      /\ \A i \in 1 .. d : Level(todo[i], i, lv[i], lv[i + 1])
  BY <1>2 DEF Levels
<1>9. lv[2] = np - 1
  <2>1. Level(todo[1], 1, lv[1], lv[1 + 1])
    BY <1>2, <1>8
  <2>. QED  BY <1>5, <1>8, <2>1 DEF Level
<1>. DEFINE lw == [i \in 1 .. (k + d) + 1 |-> IF i <= k + 1 THEN np ELSE lv[i - k]]
<1>10. lw \in [1 .. (k + d) + 1 -> 0 .. np]
  <2>1. ASSUME NEW i \in 1 .. (k + d) + 1
        PROVE  (IF i <= k + 1 THEN np ELSE lv[i - k]) \in 0 .. np
    <3>1. CASE i <= k + 1
      BY <1>2, <3>1
    <3>2. CASE ~(i <= k + 1)
      <4>1. PICK j \in 1 .. d + 1 : j = i - k
        BY <1>2, <3>2, BehindPrefix
      <4>2. lv[j] \in 0 .. np - 1
        BY <1>8
      <4>3. lv[j] \in 0 .. np
        BY <1>2, <4>2
      <4>. QED  BY <3>2, <4>1, <4>3
    <3>. QED  BY <3>1, <3>2
  <2>. QED  BY ONLY <2>1
<1>11. /\ \A i \in 1 .. k + 1 : lw[i] = np
       /\ \A j \in 2 .. d + 1 : lw[k + j] = lv[j]
  <2>1. \A i \in 1 .. k + 1 : lw[i] = np
    BY <1>2
  <2>2. ASSUME NEW j \in 2 .. d + 1  PROVE lw[k + j] = lv[j]
    <3>1. PICK i \in 1 .. (k + d) + 1 : i = k + j /\ ~(i <= k + 1) /\ i - k = j
      <4>1. k + j \in 1 .. (k + d) + 1 /\ ~(k + j <= k + 1) /\ (k + j) - k = j
        BY <1>2
      <4>. QED  BY <4>1
    <3>2. lw[i] = lv[i - k]
      BY <3>1
    <3>. HIDE DEF lw
    <3>. QED  BY <3>1, <3>2
  <2>. QED  BY <2>1, <2>2
<1>. HIDE DEF lw
<1>12. lw[1] = np /\ lw[(k + d) + 1] = 0
  <2>1. 1 \in 1 .. k + 1 /\ d + 1 \in 2 .. d + 1 /\ k + (d + 1) = (k + d) + 1
    BY <1>2
  <2>. QED  BY <1>8, <1>11, <2>1
<1>13. ASSUME NEW i \in 1 .. (k + d) + 1, NEW j \in 1 .. (k + d) + 1, i <= j  PROVE lw[j] <= lw[i]
  <2>1. CASE j <= k + 1
    <3>1. i \in 1 .. k + 1 /\ j \in 1 .. k + 1
      BY <1>2, <1>13, <2>1
    <3>2. lw[i] = np /\ lw[j] = np
      BY <1>11, <3>1
    <3>. QED  BY <1>2, <3>2
  <2>2. CASE ~(j <= k + 1)
    <3>1. PICK b \in 2 .. d + 1 : j = k + b
      <4>1. j - k \in 2 .. d + 1 /\ j = k + (j - k)
        BY <1>2, <2>2
      <4>. QED  BY <4>1
    <3>2. lw[j] = lv[b] /\ lv[b] \in 0 .. np - 1
      <4>1. b \in 1 .. d + 1
        OBVIOUS
      <4>. QED  BY <1>8, <1>11, <3>1, <4>1
    <3>3. CASE i <= k + 1
      <4>1. i \in 1 .. k + 1
        BY <3>3
      <4>2. lw[i] = np
        BY <1>11, <4>1
      <4>. QED  BY <1>2, <3>2, <4>2
    <3>4. CASE ~(i <= k + 1)
      <4>1. PICK a \in 2 .. d + 1 : i = k + a /\ a <= b
        <5>1. i - k \in 2 .. d + 1 /\ i = k + (i - k) /\ i - k <= b
          BY <1>2, <1>13, <3>1, <3>4
        <5>. QED  BY <5>1
      <4>2. lw[i] = lv[a]
        BY <1>11, <4>1
      <4>3. a \in 1 .. d + 1 /\ b \in 1 .. d + 1
        OBVIOUS
      <4>. QED  BY <1>8, <3>2, <4>1, <4>2, <4>3
    <3>. QED  BY <3>3, <3>4
  <2>. QED  BY <2>1, <2>2
<1>14. ASSUME NEW i \in 1 .. k + d  PROVE Level(r[i], i, lw[i], lw[i + 1])'
  <2>1. CASE i <= k
    <3>1. i \in 1 .. k /\ i \in 1 .. k + 1 /\ i + 1 \in 1 .. k + 1
      BY <1>2, <2>1
    <3>2. lw[i] = np /\ lw[i + 1] = np
      BY <1>11, <3>1
    <3>3. PICK c : c = pre[i] /\ c = r[i]
      BY <1>5, <3>1
    <3>4. /\ c.do # "end" /\ Gathers(c) /\ Below(q, c)
          /\ ~q.array /\ Cat(q.type) = "pointer" => i = 1 /\ ~Registered(objects', c.addr)
      BY <1>2, <3>1, <3>3
    <3>5. Gathers(c)' /\ Below(q, c)'
      BY <3>4 DEF Gathers, Live, Below
    <3>6. Level(c, i, np, np)'
      BY <1>6, <1>7, <3>4, <3>5 DEF Level
    <3>. QED  BY <3>2, <3>3, <3>6
  <2>2. CASE i = k + 1
    <3>1. lw[i] = np
      <4>1. i \in 1 .. k + 1
        BY <1>2, <2>2
      <4>. QED  BY <1>11, <4>1
    <3>2. lw[i + 1] = np - 1
      <4>1. i + 1 = k + 2 /\ 2 \in 2 .. d + 1
        BY <1>2, <2>2
      <4>2. lw[k + 2] = lv[2]
        BY <1>11, <4>1
      <4>. QED  BY <1>9, <4>1, <4>2
    <3>3. r[i] = e /\ e.do = "end" /\ e.type = q.type
      BY <1>3, <1>5, <2>2 DEF EndOf
    <3>4. Level(e, i, np, np - 1)'
      BY <1>6, <1>7, <3>3 DEF Level
    <3>. QED  BY <3>1, <3>2, <3>3, <3>4
  <2>3. CASE i > k + 1
    <3>1. PICK j \in 2 .. d : i = k + j /\ i + 1 = k + (j + 1)
      <4>1. /\ i - k \in 2 .. d /\ i = k + (i - k)
            /\ i + 1 = k + ((i - k) + 1)
        BY <1>2, <2>3
      <4>. QED  BY <4>1
    <3>2. PICK c : c = r[i] /\ c = todo[j]
      BY <1>5, <3>1
    <3>3. PICK l \in 0 .. np - 1, m \in 0 .. np - 1 : l = lv[j] /\ m = lv[j + 1]
      <4>1. j \in 1 .. d + 1 /\ j + 1 \in 1 .. d + 1
        OBVIOUS
      <4>. QED  BY <1>8, <4>1
    <3>4. lw[i] = l /\ lw[i + 1] = m
      <4>1. j \in 2 .. d + 1 /\ j + 1 \in 2 .. d + 1
        OBVIOUS
      <4>. QED  BY <1>11, <3>1, <3>3, <4>1
    <3>5. Level(c, j, l, m)
      <4>1. j \in 1 .. d
        OBVIOUS
      <4>. QED  BY <1>8, <3>2, <3>3, <4>1
    <3>6. l > 0 => ps[l] = parents[l]
      BY <1>7, <3>3
    <3>7. Level(c, i, l, m)'
      <4>1. CASE c.do = "end"
        BY <1>6, <3>3, <3>5, <3>6, <4>1 DEF Level
      <4>2. CASE c.do # "end"
        <5>1. m = l /\ Gathers(c) /\ l > 0 /\ Below(ps[l], c)
              /\ ~(~ps[l].array /\ Cat(ps[l].type) = "pointer")
          BY <3>1, <3>3, <3>5, <3>6, <4>2 DEF Level
        <5>2. Gathers(c)' /\ Below(ps[l], c)'
          BY <5>1 DEF Gathers, Live, Below
        <5>3. parents'[l] = ps[l] /\ l # 0
          BY <1>6, <3>3, <5>1
        <5>4. ~(~ps[l].array /\ Cat(ps[l].type) = "pointer")
          BY <5>1
        <5>. QED  BY <4>2, <5>1, <5>2, <5>3, <5>4 DEF Level
      <4>. QED  BY <4>1, <4>2
    <3>. QED  BY <3>2, <3>4, <3>7
  <2>. QED  BY <2>1, <2>2, <2>3
<1>15. Levels(lw)'
  BY <1>4, <1>5, <1>6, <1>7, <1>12, <1>13, <1>14 DEF Levels
<1>16. lw \in [1 .. Len(todo') + 1 -> 0 .. Len(parents')]
  BY <1>4, <1>5, <1>6, <1>7, <1>10
<1>. QED  BY <1>4, <1>6, <1>15, <1>16

\* While it gathers nothing is in the block.
LEMMA NothingWritten ==
  ASSUME prog' = prog, pc' = "gather", DOMAIN placed' = {}, buffer' = <<>>, refs' = <<>>,
         slots' = <<>>
  PROVE  PlacesInv' /\ BytesInv' /\ WriteInv'
<1>1. PlacesInv'
  BY DEF PlacesInv
<1>2. DOMAIN buffer' = {} /\ Len(refs') = 0 /\ DOMAIN slots' = {}
  OBVIOUS
<1>3. BytesInv'
  BY <1>2 DEF BytesInv, CopiedOnce
<1>4. WriteInv'
  BY <1>2 DEF WriteInv, RefsInv
<1>. QED  BY <1>1, <1>3, <1>4

\* A call of blit_impl begins an area and makes the calls in it.
LEMMA CallStep ==
  ASSUME BlitInv, pc = "gather", todo # <<>>, NEW c, c = Head(todo), c.do \in {"blit", "area"},
         NEW array \in BOOLEAN, ~array => Amount(c) = 1,
         BeginArea(c.type, c.addr, Amount(c), array),
         UNCHANGED <<prog, written, slots, pc>>,
         NEW pre \in Seq(CallType), todo' = pre \o <<EndOf(c.type)>> \o Tail(todo),
         NEW q,
         q = [type |-> c.type, addr |-> c.addr, size |-> Amount(c) * Size(c.type), array |-> array],
         \A i \in 1 .. Len(pre) :
           /\ pre[i].do # "end" /\ Gathers(pre[i]) /\ Below(q, pre[i])
           /\ ~array /\ Cat(c.type) = "pointer" => i = 1 /\ ~Registered(objects', pre[i].addr)
  PROVE  BlitInv'
<1>1. StateType /\ MembersInv /\ ObjectsInv /\ GatherInv
  BY DEF BlitInv
<1>2. /\ c \in CallType
      /\ parents = <<>> => c = BlitOf(prog.type, prog.addr) /\ objects = {}
  BY <1>1, TopCall
<1>3. /\ Amount(c) \in Nat \ {0} /\ Live(c.type, c.addr, Amount(c))
      /\ ~Inside(c.addr) => c.addr \in Referred /\ \A o \in objects : o.addr # c.addr
      /\ Inside(c.addr) /\ Records(c.type) =>
           IsField(Last(parents).type,
                   [type |-> c.type, off |-> c.addr - Last(parents).addr, n |-> Amount(c)])
  BY <1>1, CallBegins
<1>4. prog' = prog
  OBVIOUS
<1>5. /\ infos' \in [DOMAIN Types -> [members : Seq(MemberType), complete : BOOLEAN]]
      /\ objects' \subseteq ObjectType /\ objects \subseteq objects'
      /\ ~Inside(c.addr) => [type |-> c.type, addr |-> c.addr, n |-> Amount(c)] \in objects'
      /\ MembersInv' /\ ObjectsInv'
  BY <1>1, <1>3, <1>4, AreaBegins
<1>6. q \in ParentType
  <2>1. c.type \in DOMAIN Types /\ c.addr \in Nat
    BY <1>3 DEF Live
  <2>2. PICK s \in Nat \ {0} : s = Size(c.type)
    BY <2>1, TypeFacts
  <2>3. PICK n \in Nat : Amount(c) = n + 1
    <3>1. Amount(c) - 1 \in Nat /\ Amount(c) = (Amount(c) - 1) + 1
      BY <1>3
    <3>. QED  BY <3>1
  <2>4. (n + 1) * s = n * s + s /\ n * s \in Nat
    OBVIOUS
  <2>5. Amount(c) * Size(c.type) \in Nat \ {0}
    BY <2>2, <2>3, <2>4
  <2>. QED  BY <2>1, <2>5 DEF ParentType
<1>7. parents' = Append(parents, q)
  BY DEF BeginArea
<1>8. /\ DOMAIN placed = {} /\ buffer = <<>> /\ refs = <<>> /\ slots = <<>>
      /\ \A k \in 1 .. Len(parents) : ~parents[k].array =>
           parents[k].size = Size(parents[k].type) /\ Live(parents[k].type, parents[k].addr, 1)
      /\ \E lv \in [1 .. Len(todo) + 1 -> 0 .. Len(parents)] : Levels(lv)
  BY <1>1 DEF GatherInv
<1>9. PICK lv \in [1 .. Len(todo) + 1 -> 0 .. Len(parents)] : Levels(lv)
  BY <1>8
<1>10. /\ todo' \in Seq(CallType) /\ parents' \in Seq(ParentType)
       /\ \E lw \in [1 .. Len(todo') + 1 -> 0 .. Len(parents')] : Levels(lw)'
  <2>1. todo' = pre \o <<EndOf(q.type)>> \o Tail(todo) /\ Head(todo).do # "end"
    OBVIOUS
  <2>2. \A i \in 1 .. Len(pre) :
          /\ pre[i].do # "end" /\ Gathers(pre[i]) /\ Below(q, pre[i])
          /\ ~q.array /\ Cat(q.type) = "pointer" => i = 1 /\ ~Registered(objects', pre[i].addr)
    OBVIOUS
  <2>. QED  BY <1>1, <1>4, <1>6, <1>7, <1>9, <2>1, <2>2, Descend
<1>11. /\ pc' = "gather" /\ placed' = placed /\ buffer' = buffer /\ refs' = refs /\ slots' = slots
  BY DEF written
<1>12. PlacesInv' /\ BytesInv' /\ WriteInv'
  BY <1>4, <1>8, <1>11, NothingWritten
<1>13. StateType'
  <2>1. prog \in Programs /\ buffer \in Seq(Int) /\ refs \in Seq([at : Nat, to : Nat])
        /\ DOMAIN placed \subseteq objects /\ placed \in [DOMAIN placed -> Nat]
    BY <1>1 DEF StateType
  <2>. QED  BY <1>4, <1>5, <1>10, <1>11, <2>1 DEF StateType
<1>14. RootObject' \in objects'
  <2>1. RootObject' = RootObject
    BY <1>4 DEF RootObject
  <2>2. CASE parents = <<>>
    <3>1. ~Inside(c.addr) /\ c = BlitOf(prog.type, prog.addr)
      BY <1>2, <2>2 DEF Inside
    <3>2. [type |-> c.type, addr |-> c.addr, n |-> Amount(c)] = RootObject
      BY <3>1 DEF BlitOf, Amount, RootObject
    <3>. QED  BY <1>5, <2>1, <3>1, <3>2
  <2>3. CASE parents # <<>>
    <3>1. RootObject \in objects
      BY <1>1, <2>3 DEF GatherInv
    <3>. QED  BY <1>5, <2>1, <3>1
  <2>. QED  BY <2>2, <2>3
<1>15. ASSUME NEW k \in 1 .. Len(parents'), ~parents'[k].array
       PROVE  parents'[k].size = Size(parents'[k].type) /\ Live(parents'[k].type, parents'[k].addr, 1)
  <2>1. parents \in Seq(ParentType)
    BY <1>1 DEF StateType
  <2>2. /\ Len(parents') = Len(parents) + 1 /\ parents'[Len(parents) + 1] = q
        /\ \A i \in 1 .. Len(parents) : parents'[i] = parents[i]
    BY <1>6, <1>7, <2>1, AppendProperties
  <2>3. CASE k \in 1 .. Len(parents)
    BY <1>8, <1>15, <2>2, <2>3
  <2>4. CASE k = Len(parents) + 1
    <3>1. parents'[k] = q /\ ~array /\ Amount(c) = 1
      BY <1>15, <2>2, <2>4
    <3>2. Size(c.type) \in Nat
      BY <1>3, TypeFacts DEF Live
    <3>. QED  BY <1>3, <3>1, <3>2
  <2>5. Len(parents) \in Nat
    BY <2>1, LenProperties
  <2>. QED  BY <1>15, <2>2, <2>3, <2>4, <2>5
<1>16. GatherInv'
  BY <1>4, <1>8, <1>10, <1>11, <1>14, <1>15 DEF GatherInv, Live
<1>. QED  BY <1>5, <1>12, <1>13, <1>16 DEF BlitInv

LEMMA BlitStep ==
  ASSUME BlitInv, Blit
  PROVE  BlitInv'
<1>. DEFINE c == Call
            q == [type |-> c.type, addr |-> c.addr, size |-> Amount(c) * Size(c.type), array |-> FALSE]
<1>1. StateType /\ GatherInv
  BY DEF BlitInv
<1>2. /\ pc = "gather" /\ todo # <<>> /\ c.do = "blit" /\ BeginArea(c.type, c.addr, 1, FALSE)
      /\ UNCHANGED <<prog, written, slots, pc>>
      /\ todo' = Parts(c.type, c.addr) \o <<EndOf(c.type)>> \o Tail(todo)
  BY DEF Blit, Doing
<1>3. c = Head(todo) /\ Amount(c) = 1
  BY <1>2 DEF Call, Amount
<1>4. Live(c.type, c.addr, 1)
  <2>1. Live(c.type, c.addr, Amount(c))
    BY <1>1, <1>2, <1>3, CallBegins
  <2>. QED  BY <1>3, <2>1
<1>5. PICK t \in DOMAIN Types, p \in Nat : t = c.type /\ p = c.addr
  BY <1>4 DEF Live
<1>6. Live(t, p, 1) /\ q.type = t /\ q.addr = p /\ q.array = FALSE
  BY <1>4, <1>5
<1>. HIDE DEF q, c
<1>7. PICK pre : pre = Parts(t, p)
  OBVIOUS
<1>8. /\ pre \in Seq(CallType)
      /\ \A i \in 1 .. Len(pre) :
             /\ pre[i].do # "end" /\ Gathers(pre[i]) /\ Below(q, pre[i])
             /\ Cat(t) = "pointer" => i = 1 /\ ~Registered(objects', pre[i].addr)
  <2>1. CASE Cat(t) = "number"
    <3>1. pre = <<>>
      BY <1>7, <2>1 DEF Parts
    <3>. QED  BY <3>1
  <2>2. CASE Cat(t) = "class"
    <3>1. PICK fs \in Seq([type : DOMAIN Types, off : Nat, n : Nat]) : fs = Types[t].fields
      BY TypeFacts
    <3>2. PICK n \in Nat : n = Len(fs) /\ DOMAIN fs = 1 .. n
      BY LenProperties
    <3>3. ASSUME NEW i \in 1 .. n
          PROVE  /\ FieldOf(fs[i], p) \in CallType /\ FieldOf(fs[i], p).do # "end"
                 /\ Gathers(FieldOf(fs[i], p)) /\ Below(q, FieldOf(fs[i], p))
      <4>1. PICK f : f = fs[i]
        OBVIOUS
      <4>2. f.type \in DOMAIN Types /\ f.off \in Nat /\ f.n \in Nat
        BY <3>1, <3>2, <4>1, FieldFacts
      <4>3. Live(f.type, p + f.off, Count(f))
        BY <1>1, <1>6, <2>2, <3>1, <3>2, <4>1, LiveField DEF StateType
      <4>4. CASE f.n = 0
        <5>1. FieldOf(f, p) = BlitOf(f.type, p + f.off) /\ Count(f) = 1
          BY <4>4 DEF FieldOf, Count
        <5>2. p + f.off \in Nat
          BY <4>2
        <5>3. BlitOf(f.type, p + f.off) \in CallType
          BY <4>2, <5>2 DEF BlitOf, CallType
        <5>4. Gathers(FieldOf(f, p)) /\ FieldOf(f, p).do # "end"
          BY <4>3, <5>1 DEF Gathers, BlitOf
        <5>5. Below(q, FieldOf(f, p))
          BY <1>6, <2>2, <3>1, <3>2, <4>1 DEF Below
        <5>. QED  BY <4>1, <5>1, <5>3, <5>4, <5>5
      <4>5. CASE f.n # 0
        <5>1. FieldOf(f, p) = AreaOf(f.type, p + f.off, f.n) /\ Count(f) = f.n
          BY <4>5 DEF FieldOf, Count
        <5>2. p + f.off \in Nat
          BY <4>2
        <5>3. AreaOf(f.type, p + f.off, f.n) \in CallType
          BY <4>2, <5>2 DEF AreaOf, CallType
        <5>4. Gathers(FieldOf(f, p)) /\ FieldOf(f, p).do # "end"
          BY <4>3, <4>5, <5>1 DEF Gathers, AreaOf
        <5>5. Below(q, FieldOf(f, p))
          BY <1>6, <2>2, <3>1, <3>2, <4>1 DEF Below
        <5>. QED  BY <4>1, <5>1, <5>3, <5>4, <5>5
      <4>. QED  BY <4>4, <4>5
    <3>4. pre = [i \in 1 .. n |-> FieldOf(fs[i], p)]
      BY <1>7, <2>2, <3>1, <3>2 DEF Parts
    <3>5. pre \in Seq(CallType) /\ Len(pre) = n /\ \A i \in 1 .. n : pre[i] = FieldOf(fs[i], p)
      BY <3>3, <3>4
    <3>6. Cat(t) # "pointer"
      BY <2>2
    <3>. QED  BY <3>3, <3>5, <3>6
  <2>3. CASE Cat(t) = "pointer"
    <3>. DEFINE m == prog.memory[p]
    <3>1. CASE m = Null \/ Registered(objects', m)
      <4>1. pre = <<>>
        BY <1>7, <2>3, <3>1 DEF Parts
      <4>. QED  BY <4>1
    <3>2. CASE ~(m = Null \/ Registered(objects', m))
      <4>1. pre = <<AreaOf(Types[t].to, m, Types[t].n)>>
        BY <1>7, <2>3, <3>2 DEF Parts
      <4>2. Live(Types[t].to, m, Types[t].n) /\ m \in Nat
        BY <1>1, <1>6, <2>3, <3>2, LiveTarget DEF StateType
      <4>3. Types[t].to \in DOMAIN Types /\ Types[t].n \in Nat \ {0}
        BY <2>3, TypeFacts
      <4>4. PICK a \in CallType : a = AreaOf(Types[t].to, m, Types[t].n)
        BY <4>2, <4>3 DEF AreaOf, CallType
      <4>5. a.do = "area" /\ a.type = Types[t].to /\ a.addr = m /\ a.n = Types[t].n
        BY <4>4 DEF AreaOf
      <4>6. Gathers(a)
        BY <4>2, <4>3, <4>5 DEF Gathers
      <4>7. Below(q, a)
        BY <1>6, <2>3, <3>2, <4>4 DEF Below
      <4>8. ~Registered(objects', a.addr)
        BY <3>2, <4>5
      <4>9. pre \in Seq(CallType) /\ Len(pre) = 1 /\ pre[1] = a
        BY <4>1, <4>4
      <4>. QED  BY <4>5, <4>6, <4>7, <4>8, <4>9
    <3>. QED  BY <3>1, <3>2
  <2>4. Cat(t) \in {"number", "pointer", "class"}
    BY TypeFacts
  <2>. QED  BY <2>1, <2>2, <2>3, <2>4
<1>9. todo' = pre \o <<EndOf(c.type)>> \o Tail(todo)
  BY <1>2, <1>5, <1>7
<1>10. BeginArea(c.type, c.addr, Amount(c), FALSE)
  BY <1>2, <1>3
<1>11. q = [type |-> c.type, addr |-> c.addr, size |-> Amount(c) * Size(c.type), array |-> FALSE]
  BY DEF q
<1>12. c.do \in {"blit", "area"} /\ FALSE \in BOOLEAN
  BY <1>2
<1>13. \A i \in 1 .. Len(pre) :
         /\ pre[i].do # "end" /\ Gathers(pre[i]) /\ Below(q, pre[i])
         /\ ~FALSE /\ Cat(c.type) = "pointer" => i = 1 /\ ~Registered(objects', pre[i].addr)
  BY <1>5, <1>8
<1>. QED  BY <1>2, <1>3, <1>8, <1>9, <1>10, <1>11, <1>12, <1>13, CallStep

LEMMA BlitAreaStep ==
  ASSUME BlitInv, BlitArea
  PROVE  BlitInv'
<1>. DEFINE c == Call
            q == [type |-> c.type, addr |-> c.addr, size |-> Amount(c) * Size(c.type), array |-> TRUE]
<1>1. StateType /\ GatherInv
  BY DEF BlitInv
<1>2. /\ pc = "gather" /\ todo # <<>> /\ c.do = "area" /\ BeginArea(c.type, c.addr, c.n, TRUE)
      /\ UNCHANGED <<prog, written, slots, pc>>
      /\ todo' = [i \in 1 .. c.n |-> BlitOf(c.type, c.addr + (i - 1) * Size(c.type))]
                   \o <<EndOf(c.type)>> \o Tail(todo)
  BY DEF BlitArea, Doing
<1>3. c = Head(todo) /\ Amount(c) = c.n
  BY <1>2 DEF Call, Amount
<1>4. Live(c.type, c.addr, c.n) /\ c.n \in Nat \ {0}
  <2>1. Live(c.type, c.addr, Amount(c)) /\ Amount(c) \in Nat \ {0}
    BY <1>1, <1>2, <1>3, CallBegins
  <2>. QED  BY <1>3, <2>1
<1>5. PICK t \in DOMAIN Types, p \in Nat, n \in Nat \ {0} : t = c.type /\ p = c.addr /\ n = c.n
  BY <1>4 DEF Live
<1>6. PICK s \in Nat \ {0} : s = Size(t)
  BY TypeFacts
<1>7. Live(t, p, n) /\ q.type = t /\ q.addr = p /\ q.array = TRUE /\ q.size = n * s
  BY <1>3, <1>4, <1>5, <1>6
<1>. HIDE DEF q, c
<1>8. ASSUME NEW i \in 1 .. n
      PROVE  /\ BlitOf(t, p + (i - 1) * s) \in CallType
             /\ Gathers(BlitOf(t, p + (i - 1) * s)) /\ Below(q, BlitOf(t, p + (i - 1) * s))
  <2>1. PICK j \in 0 .. n - 1 : j = i - 1
    BY <1>5
  <2>2. j * s \in Nat /\ n * s \in Nat /\ j * s + s <= n * s
    BY <1>5, <1>6, PartFits
  <2>3. PICK x \in Nat, y \in Nat : x = j * s /\ y = n * s /\ x + s <= y
    BY <2>2
  <2>4. PICK b : b = BlitOf(t, p + x)
    OBVIOUS
  <2>5. b.do = "blit" /\ b.type = t /\ b.addr = p + x
    BY <2>4 DEF BlitOf
  <2>6. p + x \in Nat /\ p + x \in p .. p + y - 1
    BY <1>5, <1>6, <2>3
  <2>7. b \in CallType
    BY <2>4, <2>6 DEF BlitOf, CallType
  <2>8. Live(t, p + x, 1)
    <3>1. Live(t, p + j * Size(t), 1)
      BY <1>5, <1>7, LivePart
    <3>. QED  BY <1>6, <2>3, <3>1
  <2>9. Gathers(b)
    BY <2>5, <2>8 DEF Gathers
  <2>10. Below(q, b)
    BY <1>7, <2>3, <2>5, <2>6 DEF Below
  <2>11. b = BlitOf(t, p + (i - 1) * s)
    BY <2>1, <2>3, <2>4
  <2>. QED  BY <2>7, <2>9, <2>10, <2>11
<1>9. PICK pre : pre = [i \in 1 .. n |-> BlitOf(t, p + (i - 1) * s)]
  OBVIOUS
<1>10. pre \in Seq(CallType) /\ Len(pre) = n /\ \A i \in 1 .. n : pre[i] = BlitOf(t, p + (i - 1) * s)
  BY <1>5, <1>8, <1>9
<1>11. todo' = pre \o <<EndOf(c.type)>> \o Tail(todo)
  BY <1>2, <1>5, <1>6, <1>9
<1>12. BeginArea(c.type, c.addr, Amount(c), TRUE)
  BY <1>2, <1>3
<1>13. q = [type |-> c.type, addr |-> c.addr, size |-> Amount(c) * Size(c.type), array |-> TRUE]
  BY DEF q
<1>14. c.do \in {"blit", "area"} /\ TRUE \in BOOLEAN
  BY <1>2
<1>15. \A i \in 1 .. Len(pre) :
         /\ pre[i].do # "end" /\ Gathers(pre[i]) /\ Below(q, pre[i])
         /\ ~TRUE /\ Cat(c.type) = "pointer" => i = 1 /\ ~Registered(objects', pre[i].addr)
  BY <1>8, <1>10 DEF BlitOf
<1>. QED  BY <1>2, <1>3, <1>10, <1>11, <1>12, <1>13, <1>14, <1>15, CallStep

LEMMA EndAreaStep ==
  ASSUME BlitInv, EndArea
  PROVE  BlitInv'
<1>1. StateType /\ MembersInv /\ ObjectsInv /\ GatherInv
  BY DEF BlitInv
<1>2. /\ pc = "gather" /\ todo # <<>> /\ Call.do = "end" /\ Call = Head(todo)
      /\ parents' = Front(parents) /\ todo' = Tail(todo)
      /\ infos' = [t \in DOMAIN infos |->
                     IF t \in Around(parents') \cup {Call.type}
                     THEN [infos[t] EXCEPT !.complete = TRUE] ELSE infos[t]]
      /\ prog' = prog /\ objects' = objects /\ placed' = placed /\ buffer' = buffer /\ refs' = refs
      /\ slots' = slots /\ pc' = pc
  BY DEF EndArea, Doing, Call, written
<1>3. /\ prog \in Programs /\ todo \in Seq(CallType) /\ parents \in Seq(ParentType) /\ buffer \in Seq(Int)
      /\ infos \in [DOMAIN Types -> [members : Seq(MemberType), complete : BOOLEAN]]
      /\ objects \subseteq ObjectType
      /\ DOMAIN placed \subseteq objects /\ placed \in [DOMAIN placed -> Nat]
      /\ refs \in Seq([at : Nat, to : Nat])
  BY <1>1 DEF StateType
<1>4. /\ DOMAIN placed = {} /\ buffer = <<>> /\ refs = <<>> /\ slots = <<>>
      /\ \A k \in 1 .. Len(parents) : ~parents[k].array =>
           parents[k].size = Size(parents[k].type) /\ Live(parents[k].type, parents[k].addr, 1)
      /\ \E lv \in [1 .. Len(todo) + 1 -> 0 .. Len(parents)] : Levels(lv)
  BY <1>1, <1>2 DEF GatherInv
<1>5. PICK lv \in [1 .. Len(todo) + 1 -> 0 .. Len(parents)] : Levels(lv)
  BY <1>4
<1>6. PICK d \in Nat : Len(todo) = d + 1
  <2>1. Len(todo) - 1 \in Nat /\ Len(todo) = (Len(todo) - 1) + 1
    BY <1>2, <1>3, EmptySeq
  <2>. QED  BY <2>1
<1>7. PICK rest \in Seq(CallType) : rest = todo'
  BY <1>2, <1>3, HeadTailProperties
<1>8. /\ Len(rest) = d /\ todo[1] = Call
      /\ \A i \in 1 .. d : rest[i] = todo[i + 1]
  <2>1. /\ Len(Tail(todo)) = Len(todo) - 1 /\ Head(todo) = todo[1]
        /\ \A i \in 1 .. Len(Tail(todo)) : Tail(todo)[i] = todo[i + 1]
    BY <1>2, <1>3, HeadTailProperties
  <2>2. Len(Tail(todo)) = d
    BY <1>6, <2>1
  <2>. QED  BY <1>2, <1>7, <2>1, <2>2
<1>9. PICK np \in Nat : Len(parents) = np + 1 /\ lv[1] = np + 1 /\ lv[2] = np
  <2>1. Level(todo[1], 1, lv[1], lv[1 + 1]) /\ lv[1] = Len(parents)
    BY <1>5, <1>6 DEF Levels
  <2>2. Len(parents) > 0 /\ lv[2] = Len(parents) - 1
    BY <1>2, <1>8, <2>1 DEF Level
  <2>3. Len(parents) - 1 \in Nat /\ Len(parents) = (Len(parents) - 1) + 1
    BY <1>3, <2>2
  <2>. QED  BY <2>1, <2>2, <2>3
<1>10. /\ parents' \in Seq(ParentType) /\ Len(parents') = np
       /\ \A k \in 1 .. np : parents'[k] = parents[k]
  <2>1. parents' = SubSeq(parents, 1, Len(parents) - 1)
    BY <1>2 DEF Front
  <2>2. parents' = SubSeq(parents, 1, np)
    BY <1>9, <2>1
  <2>3. \A k \in 1 .. np : k \in 1 .. Len(parents)
    BY <1>9
  <2>4. \A k \in 1 .. np : parents[k] \in ParentType
    BY <1>3, <2>3, ElementOfSeq
  <2>5. /\ SubSeq(parents, 1, np) \in Seq(ParentType)
        /\ Len(SubSeq(parents, 1, np)) = IF 1 <= np THEN np - 1 + 1 ELSE 0
        /\ \A k \in 1 .. np - 1 + 1 : SubSeq(parents, 1, np)[k] = parents[1 + k - 1]
    <3>1. 1 \in Int /\ np \in Int
      BY <1>9
    <3>. QED  BY <2>4, <3>1, SubSeqProperties
  <2>6. \A k \in 1 .. np : k \in 1 .. np - 1 + 1 /\ 1 + k - 1 = k
    BY <1>9
  <2>7. (IF 1 <= np THEN np - 1 + 1 ELSE 0) = np
    BY <1>9
  <2>. QED  BY <2>2, <2>5, <2>6, <2>7
<1>11. /\ lv[d + 2] = 0
       /\ \A i \in 1 .. d + 2 : lv[i] \in Nat
       /\ \A i, j \in 1 .. d + 2 : i <= j => lv[j] <= lv[i]
       /\ \A i \in 1 .. d + 1 : Level(todo[i], i, lv[i], lv[i + 1])
  <2>1. (d + 1) + 1 = d + 2
    OBVIOUS
  <2>. QED  BY <1>5, <1>6, <2>1 DEF Levels
<1>. DEFINE lw == [i \in 1 .. d + 1 |-> lv[i + 1]]
<1>12. \A i \in 1 .. d + 1 : lw[i] = lv[i + 1] /\ i + 1 \in 1 .. d + 2 /\ i + 1 >= 2 /\ lv[i + 1] \in 0 .. np
  <2>1. ASSUME NEW i \in 1 .. d + 1  PROVE i + 1 \in 1 .. d + 2 /\ i + 1 >= 2 /\ lv[i + 1] \in 0 .. np
    <3>1. PICK j \in 2 .. d + 2 : j = i + 1
      BY <1>6
    <3>2. 2 \in 1 .. d + 2 /\ j \in 1 .. d + 2 /\ 2 <= j
      BY <1>6, <3>1
    <3>3. lv[j] <= lv[2] /\ lv[j] \in Nat
      BY <1>11, <3>2
    <3>. QED  BY <1>9, <3>1, <3>2, <3>3
  <2>. QED  BY <2>1
<1>13. lw \in [1 .. d + 1 -> 0 .. np]
  BY <1>12
<1>. HIDE DEF lw
<1>14. lw[1] = np /\ lw[d + 1] = 0
  <2>1. 1 \in 1 .. d + 1 /\ d + 1 \in 1 .. d + 1 /\ (d + 1) + 1 = d + 2
    BY <1>6
  <2>. QED  BY <1>9, <1>11, <1>12, <2>1
<1>15. \A i, j \in 1 .. d + 1 : i <= j => lw[j] <= lw[i]
  <2>1. ASSUME NEW i \in 1 .. d + 1, NEW j \in 1 .. d + 1, i <= j  PROVE lv[j + 1] <= lv[i + 1]
    <3>1. i + 1 \in 1 .. d + 2 /\ j + 1 \in 1 .. d + 2 /\ i + 1 <= j + 1
      BY <1>6, <2>1
    <3>. QED  BY <1>11, <3>1
  <2>. QED  BY <1>12, <2>1
<1>16. ASSUME NEW i \in 1 .. d  PROVE Level(rest[i], i, lw[i], lw[i + 1])'
  <2>1. PICK j \in 2 .. d + 1 : j = i + 1
    BY <1>6
  <2>2. PICK c : c = rest[i] /\ c = todo[j]
    BY <1>8, <2>1
  <2>3. PICK l \in 0 .. np, m \in 0 .. np : l = lv[j] /\ m = lv[j + 1]
    <3>1. i \in 1 .. d + 1 /\ j \in 1 .. d + 1
      BY <1>6, <2>1
    <3>. QED  BY <1>12, <2>1, <3>1
  <2>4. lw[i] = l /\ lw[i + 1] = m
    <3>1. i \in 1 .. d + 1 /\ j \in 1 .. d + 1
      BY <1>6, <2>1
    <3>. QED  BY <1>12, <2>1, <2>3, <3>1
  <2>5. Level(c, j, l, m)
    <3>1. j \in 1 .. d + 1
      OBVIOUS
    <3>. QED  BY <1>11, <2>2, <2>3, <3>1
  <2>6. l > 0 => parents'[l] = parents[l]
    BY <1>10, <2>3
  <2>7. CASE c.do = "end"
    BY <1>2, <2>2, <2>3, <2>4, <2>5, <2>6, <2>7 DEF Level
  <2>8. CASE c.do # "end"
    <3>1. j # 1
      OBVIOUS
    <3>2. m = l /\ Gathers(c) /\ l > 0 /\ Below(parents[l], c)
          /\ ~(~parents[l].array /\ Cat(parents[l].type) = "pointer")
      BY <2>3, <2>5, <2>8, <3>1 DEF Level
    <3>3. Gathers(c)' /\ Below(parents[l], c)'
      <4>1. PICK q : q = parents[l]
        OBVIOUS
      <4>2. Below(q, c)'
        BY <1>2, <3>2, <4>1 DEF Below
      <4>3. Gathers(c)'
        BY <1>2, <3>2 DEF Gathers, Live
      <4>. QED  BY <2>6, <3>2, <4>1, <4>2, <4>3
    <3>. QED  BY <2>2, <2>4, <2>6, <2>8, <3>2, <3>3 DEF Level
  <2>. QED  BY <2>7, <2>8
<1>17. Levels(lw)'
  BY <1>7, <1>8, <1>10, <1>14, <1>15, <1>16 DEF Levels
<1>18. /\ infos' \in [DOMAIN Types -> [members : Seq(MemberType), complete : BOOLEAN]]
       /\ \A t \in DOMAIN Types : infos'[t].members = infos[t].members
  BY <1>2, <1>3
<1>19. StateType'
  BY <1>2, <1>3, <1>7, <1>10, <1>18 DEF StateType
<1>20. MembersInv'
  <2>1. ASSUME NEW t \in DOMAIN Types, NEW k \in 1 .. Len(infos'[t].members)
        PROVE  Cat(t) = "class" /\ IsField(t, infos'[t].members[k])
    <3>1. infos'[t].members = infos[t].members
      BY <1>18
    <3>. QED  BY <1>1, <2>1, <3>1 DEF MembersInv
  <2>. QED  BY <2>1 DEF MembersInv, IsField, MemberOf
<1>21. ObjectsInv'
  BY <1>1, <1>2 DEF ObjectsInv, Live, Referred, NoPointerInside, Holds, Apart, Extent
<1>22. RootObject \in objects
  <2>1. parents # <<>>
    BY <1>9
  <2>. QED  BY <1>1, <2>1 DEF GatherInv
<1>23. \A k \in 1 .. Len(parents') : ~parents'[k].array =>
         parents'[k].size = Size(parents'[k].type) /\ Live(parents'[k].type, parents'[k].addr, 1)
  <2>1. \A k \in 1 .. np : k \in 1 .. Len(parents) /\ parents'[k] = parents[k]
    BY <1>9, <1>10
  <2>. QED  BY <1>4, <1>10, <2>1
<1>24. \E lz \in [1 .. Len(todo') + 1 -> 0 .. Len(parents')] : Levels(lz)'
  BY <1>7, <1>8, <1>10, <1>13, <1>17
<1>25. GatherInv'
  BY <1>2, <1>4, <1>22, <1>23, <1>24 DEF GatherInv, RootObject, Live
<1>26. PlacesInv' /\ BytesInv' /\ WriteInv'
  BY <1>2, <1>4, NothingWritten
<1>. QED  BY <1>19, <1>20, <1>21, <1>25, <1>26 DEF BlitInv

LEMMA InitStep ==
  ASSUME Init
  PROVE  BlitInv
<1>1. /\ prog \in Programs
      /\ infos = [t \in DOMAIN Types |-> [members |-> <<>>, complete |-> FALSE]]
      /\ objects = {} /\ parents = <<>>
      /\ todo = <<BlitOf(prog.type, prog.addr)>>
      /\ buffer = <<>> /\ placed = <<>> /\ refs = <<>> /\ slots = <<>>
      /\ pc = "gather"
  BY DEF Init
<1>2. PICK c : c = BlitOf(prog.type, prog.addr)
  OBVIOUS
<1>3. Live(prog.type, prog.addr, 1)
  BY <1>1, RootIsLive
<1>4. c \in CallType /\ c.do = "blit" /\ Gathers(c)
  BY <1>2, <1>3 DEF BlitOf, CallType, Gathers, Live
<1>5. todo \in Seq(CallType) /\ Len(todo) = 1 /\ todo[1] = c /\ todo # <<>>
  BY <1>1, <1>2, <1>4
<1>6. DOMAIN placed = {} /\ placed \in [DOMAIN placed -> Nat]
  BY <1>1
<1>7. Len(parents) = 0 /\ Len(buffer) = 0 /\ Len(refs) = 0 /\ DOMAIN slots = {} /\ DOMAIN buffer = {}
  BY <1>1
<1>8. StateType
  <2>1. infos \in [DOMAIN Types -> [members : Seq(MemberType), complete : BOOLEAN]]
    BY <1>1
  <2>2. parents \in Seq(ParentType) /\ buffer \in Seq(Int) /\ refs \in Seq([at : Nat, to : Nat])
    BY <1>1
  <2>. QED  BY <1>1, <1>5, <1>6, <2>1, <2>2 DEF StateType
<1>9. MembersInv
  <2>1. \A t \in DOMAIN Types : infos[t].members = <<>>
    BY <1>1
  <2>. QED  BY <2>1 DEF MembersInv
<1>10. ObjectsInv
  BY <1>1 DEF ObjectsInv
<1>11. GatherInv
  <2>1. PICK lv : lv = [i \in 1 .. 2 |-> 0]
    OBVIOUS
  <2>2. lv \in [1 .. 2 -> 0 .. 0] /\ lv[1] = 0 /\ lv[2] = 0
    BY <2>1
  <2>3. Level(c, 1, 0, 0)
    BY <1>1, <1>2, <1>4 DEF Level
  <2>4. \A i, j \in 1 .. 2 : i <= j => lv[j] <= lv[i]
    BY <2>1
  <2>5. Levels(lv)
    BY <1>5, <1>7, <2>2, <2>3, <2>4 DEF Levels
  <2>6. lv \in [1 .. Len(todo) + 1 -> 0 .. Len(parents)]
    BY <1>5, <1>7, <2>2
  <2>. QED  BY <1>1, <1>5, <1>6, <1>7, <2>5, <2>6 DEF GatherInv
<1>12. PlacesInv /\ BytesInv /\ WriteInv
  BY <1>1, <1>6, <1>7 DEF PlacesInv, BytesInv, CopiedOnce, WriteInv, RefsInv
<1>. QED  BY <1>8, <1>9, <1>10, <1>11, <1>12 DEF BlitInv

-----------------------------------------------------------------------------
(* Writing.                                                                *)

\* What has been gathered stays as it is while it is written.
LEMMA GatheredKept ==
  ASSUME MembersInv, ObjectsInv, GatherInv, prog' = prog, gathered' = gathered,
         pc' # "gather", pc # "gather" \/ todo = <<>>
  PROVE  /\ infos' = infos /\ objects' = objects /\ parents' = parents
         /\ RootObject \in objects
         /\ MembersInv' /\ ObjectsInv' /\ GatherInv'
<1>1. infos' = infos /\ objects' = objects /\ parents' = parents
  BY DEF gathered
<1>2. RootObject \in objects
  BY DEF GatherInv
<1>3. MembersInv'
  BY <1>1 DEF MembersInv, IsField, MemberOf
<1>4. ObjectsInv'
  BY <1>1 DEF ObjectsInv, Live, Referred, NoPointerInside, Holds, Apart, Extent
<1>5. GatherInv'
  BY <1>1, <1>2 DEF GatherInv, RootObject
<1>. QED  BY <1>1, <1>2, <1>3, <1>4, <1>5

LEMMA WriteOutStep ==
  ASSUME BlitInv, WriteOut
  PROVE  BlitInv'
<1>1. /\ pc = "gather" /\ todo = <<>> /\ todo' = <<ObjectOf(RootObject)>> /\ pc' = "write"
      /\ prog' = prog /\ gathered' = gathered
      /\ buffer' = buffer /\ placed' = placed /\ refs' = refs /\ slots' = slots
  BY DEF WriteOut, written, RootObject
<1>2. StateType /\ MembersInv /\ ObjectsInv /\ GatherInv
  BY DEF BlitInv
<1>3. /\ infos' = infos /\ objects' = objects /\ parents' = parents
      /\ RootObject \in objects
      /\ MembersInv' /\ ObjectsInv' /\ GatherInv'
  BY <1>1, <1>2, GatheredKept
<1>4. DOMAIN placed = {} /\ buffer = <<>> /\ refs = <<>> /\ slots = <<>>
  BY <1>1, <1>2 DEF GatherInv
<1>5. PICK c : c = ObjectOf(RootObject)
  OBVIOUS
<1>6. c \in CallType /\ c.do = "object" /\ c.obj = RootObject
  BY <1>2, <1>3, <1>5 DEF ObjectOf, CallType, StateType
<1>7. todo' \in Seq(CallType) /\ Len(todo') = 1 /\ todo'[1] = c
  BY <1>1, <1>5, <1>6
<1>8. StateType'
  BY <1>1, <1>2, <1>3, <1>7 DEF StateType
<1>9. PlacesInv'
  BY <1>1, <1>4 DEF PlacesInv
<1>10. BytesInv'
  <2>1. DOMAIN buffer' = {}
    BY <1>1, <1>4
  <2>. QED  BY <1>1, <1>4, <2>1 DEF BytesInv, CopiedOnce
<1>11. WriteInv'
  <2>1. Writes(c)'
    BY <1>3, <1>6 DEF Writes
  <2>2. Len(refs') = 0 /\ DOMAIN slots' = {}
    BY <1>1, <1>4
  <2>. QED  BY <1>1, <1>4, <1>6, <1>7, <2>1, <2>2 DEF WriteInv, RefsInv, CallsReady
<1>. QED  BY <1>3, <1>8, <1>9, <1>10, <1>11 DEF BlitInv

\* What has been copied stays where it is.
LEMMA WritesKept ==
  ASSUME prog' = prog, objects' = objects, DOMAIN placed \subseteq DOMAIN placed',
         \A o \in DOMAIN placed : placed'[o] = placed[o], NEW c, Writes(c)
  PROVE  Writes(c)'
<1>1. ASSUME NEW at, NEW t, NEW n, Copied(at, t, n)  PROVE Copied(at, t, n)'
  BY <1>1 DEF Copied, Live, Extent
<1>2. ASSUME NEW at, NEW n, CopiedPointers(at, n)  PROVE CopiedPointers(at, n)'
  BY <1>1, <1>2 DEF CopiedPointers
<1>3. CASE c.do = "object" /\ c.obj \in objects
  BY <1>3 DEF Writes
<1>4. CASE c.do = "members" /\ Copied(c.at, c.type, 1)
  BY <1>1, <1>4 DEF Writes
<1>5. CASE c.do = "pointers" /\ CopiedPointers(c.at, c.n)
  BY <1>2, <1>5 DEF Writes
<1>6. CASE c.do = "follow" /\ CopiedPointers(c.at, 1)
  BY <1>2, <1>6 DEF Writes
<1>7. CASE c.do = "swap" /\ Cat(c.type) = "number" /\ Copied(c.at, c.type, c.n)
  BY <1>1, <1>7 DEF Writes
<1>8. CASE /\ c.do = "ref" /\ c.obj \in objects /\ c.delta < Extent(c.obj)
           /\ CopiedPointers(c.at, 1) /\ PointsInto(c.at, c.obj, c.delta)
  <2>1. /\ CopiedPointers(c.at, 1)' /\ c.obj \in objects' /\ c.delta < Extent(c.obj)
        /\ PointsInto(c.at, c.obj, c.delta)'
    BY <1>2, <1>8 DEF PointsInto, Holds, Extent
  <2>. QED  BY <1>8, <2>1 DEF Writes
<1>. QED  BY <1>3, <1>4, <1>5, <1>6, <1>7, <1>8 DEF Writes

LEMMA RefsKept ==
  ASSUME RefsInv, prog' = prog, refs' = refs, DOMAIN placed \subseteq DOMAIN placed',
         \A o \in DOMAIN placed : placed'[o] = placed[o],
         pc' = "written" => slots' = Offsets
  PROVE  RefsInv'
<1>1. \A r : Leads(r) => Leads(r)'
  BY DEF Leads, PointsInto, Holds, Extent
<1>2. Offsets' = Offsets
  BY DEF Offsets
<1>. QED  BY <1>1, <1>2 DEF RefsInv

\* The next call is replaced by those it makes.
LEMMA CallsReplaced ==
  ASSUME todo \in Seq(CallType), todo # <<>>, CallsReady, prog' = prog, objects' = objects,
         DOMAIN placed \subseteq DOMAIN placed', \A o \in DOMAIN placed : placed'[o] = placed[o],
         Head(todo).do = "object" => Head(todo).obj \in DOMAIN placed',
         NEW pre \in Seq(CallType), todo' = pre \o Tail(todo),
         \A i \in 1 .. Len(pre) :
           /\ Writes(pre[i])'
           /\ pre[i].do = "ref" => i > 1 /\ pre[i - 1] = ObjectOf(pre[i].obj)
  PROVE  todo' \in Seq(CallType) /\ CallsReady'
<1>1. PICK k \in Nat, d \in Nat : k = Len(pre) /\ Len(todo) = d + 1
  <2>1. Len(pre) \in Nat /\ Len(todo) - 1 \in Nat /\ Len(todo) = (Len(todo) - 1) + 1
    BY EmptySeq
  <2>. QED  BY <2>1
<1>2. PICK r \in Seq(CallType) : r = todo'
  BY HeadReplaced
<1>3. /\ Len(r) = k + d /\ Head(todo) = todo[1]
      /\ \A i \in 1 .. k : r[i] = pre[i]
      /\ \A i \in 1 .. d : r[k + i] = todo[i + 1]
  <2>1. /\ Len(pre \o Tail(todo)) = Len(pre) + (Len(todo) - 1)
        /\ \A i \in 1 .. Len(pre) : (pre \o Tail(todo))[i] = pre[i]
        /\ \A i \in 1 .. Len(todo) - 1 : (pre \o Tail(todo))[Len(pre) + i] = todo[i + 1]
        /\ Head(todo) = todo[1]
    BY HeadReplaced
  <2>2. Len(todo) - 1 = d
    BY <1>1
  <2>. QED  BY <1>1, <1>2, <2>1, <2>2
<1>4. ASSUME NEW i \in 1 .. k
      PROVE  /\ Writes(r[i])'
             /\ r[i].do = "ref" =>
                  r[i].obj \in DOMAIN placed' \/ (i > 1 /\ r[i - 1] = ObjectOf(r[i].obj))
  <2>1. r[i] = pre[i] /\ Writes(pre[i])' /\ (pre[i].do = "ref" => i > 1 /\ pre[i - 1] = ObjectOf(pre[i].obj))
    BY <1>1, <1>3
  <2>2. i > 1 => r[i - 1] = pre[i - 1]
    <3>1. i > 1 => i - 1 \in 1 .. k
      BY <1>1
    <3>. QED  BY <1>3, <3>1
  <2>. QED  BY <2>1, <2>2
<1>5. ASSUME NEW j \in 1 .. d
      PROVE  /\ Writes(r[k + j])'
             /\ r[k + j].do = "ref" =>
                  r[k + j].obj \in DOMAIN placed' \/ (k + j > 1 /\ r[k + j - 1] = ObjectOf(r[k + j].obj))
  <2>1. PICK m \in 2 .. d + 1 : m = j + 1
    BY <1>1
  <2>2. PICK c : c = todo[m] /\ c = r[k + j]
    BY <1>3, <2>1
  <2>3. /\ Writes(c)
        /\ c.do = "ref" => c.obj \in DOMAIN placed \/ todo[m - 1] = ObjectOf(c.obj)
    <3>1. m \in 1 .. Len(todo)
      BY <1>1
    <3>. QED  BY <2>2, <3>1 DEF CallsReady
  <2>4. Writes(c)'
    BY <2>3, WritesKept
  <2>5. ASSUME c.do = "ref", c.obj \notin DOMAIN placed'
        PROVE  k + j > 1 /\ r[k + j - 1] = ObjectOf(c.obj)
    <3>1. todo[m - 1] = ObjectOf(c.obj)
      BY <2>3, <2>5
    <3>2. CASE j = 1
      <4>1. Head(todo) = ObjectOf(c.obj)
        BY <1>3, <2>1, <3>1, <3>2
      <4>. QED  BY <2>5, <4>1 DEF ObjectOf
    <3>3. CASE j # 1
      <4>1. PICK b \in 1 .. d : j = b + 1 /\ k + j - 1 = k + b /\ m - 1 = b + 1 /\ k + j > 1
        <5>1. /\ j - 1 \in 1 .. d /\ j = (j - 1) + 1 /\ k + j - 1 = k + (j - 1)
              /\ m - 1 = (j - 1) + 1 /\ k + j > 1
          BY <1>1, <2>1, <3>3
        <5>. QED  BY <5>1
      <4>2. r[k + b] = todo[b + 1]
        BY <1>3, <4>1
      <4>. QED  BY <3>1, <4>1, <4>2
    <3>. QED  BY <3>2, <3>3
  <2>. QED  BY <2>2, <2>4, <2>5
<1>6. ASSUME NEW i \in 1 .. k + d
      PROVE  /\ Writes(r[i])'
             /\ r[i].do = "ref" =>
                  r[i].obj \in DOMAIN placed' \/ (i > 1 /\ r[i - 1] = ObjectOf(r[i].obj))
  <2>1. CASE i <= k
    <3>1. i \in 1 .. k
      BY <2>1
    <3>. QED  BY <1>4, <3>1
  <2>2. CASE ~(i <= k)
    <3>1. PICK j \in 1 .. d : i = k + j
      <4>1. i - k \in 1 .. d /\ i = k + (i - k)
        BY <1>1, <2>2
      <4>. QED  BY <4>1
    <3>2. /\ Writes(r[k + j])'
          /\ r[k + j].do = "ref" =>
               r[k + j].obj \in DOMAIN placed' \/ (k + j > 1 /\ r[k + j - 1] = ObjectOf(r[k + j].obj))
      BY <1>5
    <3>3. PICK c : c = r[k + j] /\ c = r[i]
      BY <3>1
    <3>4. k + j - 1 = i - 1
      BY <3>1
    <3>5. r[k + j - 1] = r[i - 1]
      BY <3>4
    <3>6. c.do = "ref" => c.obj \in DOMAIN placed' \/ (i > 1 /\ r[i - 1] = ObjectOf(c.obj))
      BY <3>1, <3>2, <3>3, <3>5
    <3>7. Writes(c)'
      BY <3>2, <3>3
    <3>. QED  BY <3>3, <3>6, <3>7
  <2>. QED  BY <2>1, <2>2
<1>. QED  BY <1>2, <1>3, <1>6 DEF CallsReady

LEMMA BlockKept ==
  ASSUME PlacesInv, BytesInv, prog' = prog, objects' = objects, placed' = placed, buffer' = buffer
  PROVE  PlacesInv' /\ BytesInv'
<1>1. PlacesInv'
  BY DEF PlacesInv, Extent, Apart
<1>2. NoPointerInside' = NoPointerInside
  BY DEF NoPointerInside, Referred, Holds, Extent
<1>3. CopiedOnce'
  BY <1>2 DEF BytesInv, CopiedOnce
<1>. QED  BY <1>1, <1>3 DEF BytesInv, Holds, Extent

\* A step that only makes calls.
LEMMA CallOnlyStep ==
  ASSUME BlitInv, pc = "write", todo # <<>>, UNCHANGED <<prog, gathered, written, slots, pc>>,
         Head(todo).do = "object" => Head(todo).obj \in DOMAIN placed,
         NEW pre \in Seq(CallType), todo' = pre \o Tail(todo),
         \A i \in 1 .. Len(pre) :
           /\ Writes(pre[i])
           /\ pre[i].do = "ref" => i > 1 /\ pre[i - 1] = ObjectOf(pre[i].obj)
  PROVE  BlitInv'
<1>1. /\ StateType /\ MembersInv /\ ObjectsInv /\ GatherInv /\ PlacesInv /\ BytesInv /\ WriteInv
      /\ CallsReady
  BY DEF BlitInv, WriteInv
<1>2. /\ prog' = prog /\ gathered' = gathered /\ pc' = pc
      /\ buffer' = buffer /\ placed' = placed /\ refs' = refs /\ slots' = slots
  BY DEF written
<1>3. /\ infos' = infos /\ objects' = objects /\ parents' = parents
      /\ RootObject \in objects
      /\ MembersInv' /\ ObjectsInv' /\ GatherInv'
  BY <1>1, <1>2, GatheredKept
<1>4. todo' \in Seq(CallType) /\ CallsReady'
  <2>1. \A i \in 1 .. Len(pre) : Writes(pre[i])'
    BY <1>2, <1>3, WritesKept
  <2>2. todo \in Seq(CallType)
    BY <1>1 DEF StateType
  <2>. QED  BY <1>1, <1>2, <1>3, <2>1, <2>2, CallsReplaced
<1>5. PlacesInv' /\ BytesInv'
  BY <1>1, <1>2, <1>3, BlockKept
<1>6. StateType'
  BY <1>1, <1>2, <1>3, <1>4 DEF StateType
<1>7. RefsInv'
  BY <1>1, <1>2, RefsKept DEF WriteInv
<1>8. WriteInv'
  BY <1>1, <1>2, <1>4, <1>7 DEF WriteInv
<1>. QED  BY <1>3, <1>5, <1>6, <1>8 DEF BlitInv

\* A part of what has been copied has been copied.
LEMMA CopiedPart ==
  ASSUME StateType, NEW at, NEW t, NEW n \in Nat, Copied(at, t, n),
         NEW i \in 0 .. n - 1
  PROVE  Copied(at + i * Size(t), t, 1)
<1>1. PICK o \in DOMAIN placed, a \in Nat :
        /\ at = placed[o] + (a - o.addr) /\ o.addr <= a /\ a + n * Size(t) <= o.addr + Extent(o)
        /\ Live(t, a, n)
  BY DEF Copied
<1>2. t \in DOMAIN Types /\ o \in ObjectType /\ placed[o] \in Nat
  BY <1>1 DEF Live, StateType
<1>3. o.addr \in Nat /\ Extent(o) \in Nat
  BY <1>2, ObjectFacts
<1>4. PICK s \in Nat : s = Size(t)
  BY <1>2, TypeFacts
<1>5. i * s \in Nat /\ n * s \in Nat /\ i * s + s <= n * s
  BY <1>4, PartFits
<1>6. PICK x \in Nat, y \in Nat : x = i * s /\ y = n * s /\ x + s <= y
  BY <1>5
<1>7. Live(t, a + x, 1)
  <2>1. Live(t, a + i * Size(t), 1)
    BY <1>1, LivePart
  <2>. QED  BY <1>4, <1>6, <2>1
<1>8. PICK e \in Nat, z \in Nat, b \in Nat : e = Extent(o) /\ z = placed[o] /\ b = o.addr
  BY <1>2, <1>3
<1>9. at = z + (a - b) /\ b <= a /\ a + y <= b + e
  BY <1>1, <1>4, <1>6, <1>8
<1>10. at + x = z + ((a + x) - b) /\ b <= a + x /\ (a + x) + s <= b + e
  BY <1>1, <1>4, <1>6, <1>8, <1>9
<1>11. 1 * Size(t) = s /\ i * Size(t) = x /\ a + x \in Nat
  BY <1>1, <1>4, <1>6
<1>. QED  BY <1>7, <1>8, <1>10, <1>11 DEF Copied

\* What is at a pointer that has been copied; behind it are the others of its array.
LEMMA CopiedPointer ==
  ASSUME StateType, PlacesInv, BytesInv, NEW at, NEW n \in Nat \ {0}, CopiedPointers(at, n)
  PROVE  /\ at \in Nat /\ at < Len(buffer) /\ Fetched(at) \in Nat
         /\ \A o \in ObjectType : o.addr = Fetched(at) => PointsInto(at, o, 0)
         /\ CopiedPointers(at, 1) /\ CopiedPointers(at + Size("pointer"), n - 1)
<1>1. PICK t \in DOMAIN Types, o \in DOMAIN placed, a \in Nat :
        /\ Cat(t) = "pointer" /\ at = placed[o] + (a - o.addr) /\ o.addr <= a
        /\ a + n * Size(t) <= o.addr + Extent(o) /\ Live(t, a, n)
  BY DEF CopiedPointers, Copied
<1>2. o \in ObjectType /\ placed[o] \in Nat /\ prog \in Programs /\ Len(buffer) \in Nat
  BY <1>1 DEF StateType
<1>3. PICK e \in Nat, z \in Nat, b \in Nat, l \in Nat :
        e = Extent(o) /\ z = placed[o] /\ b = o.addr /\ l = Len(buffer)
  BY <1>2, ObjectFacts
<1>4. PICK s \in Nat \ {0} : s = Size(t) /\ s = Size("pointer")
  BY <1>1, TypeFacts
<1>5. PICK m \in Nat : n = m + 1 /\ m = n - 1
  <2>1. n - 1 \in Nat /\ n = (n - 1) + 1
    OBVIOUS
  <2>. QED  BY <2>1
<1>6. (m + 1) * s = m * s + s /\ m * s \in Nat
  BY <1>4, <1>5
<1>7. PICK x \in Nat : x = m * s /\ n * s = x + s
  BY <1>5, <1>6
<1>8. /\ x \in Nat /\ s \in Nat \ {0} /\ a \in Nat /\ b \in Nat /\ z \in Nat /\ e \in Nat /\ l \in Nat
      /\ at = z + (a - b) /\ b <= a /\ a + (x + s) <= b + e /\ z + e <= l
  <2>1. placed[o] + Extent(o) <= Len(buffer)
    BY <1>1 DEF PlacesInv
  <2>. QED  BY <1>1, <1>3, <1>4, <1>7, <2>1
<1>9. at \in Nat /\ at < l /\ a >= b /\ a < b + e
  BY <1>8
<1>10. Live(t, a, 1)
  <2>1. 0 \in 0 .. n - 1 /\ a + 0 * s = a
    BY <1>1, <1>4
  <2>2. Live(t, a + 0 * Size(t), 1)
    BY <1>1, <2>1, LivePart
  <2>. QED  BY <1>4, <2>1, <2>2
<1>11. buffer[at + 1] = a
  <2>1. PICK v \in prog.heap : v = [type |-> t, addr |-> a]
    BY <1>10, LiveOne
  <2>2. Holds(o, v.addr) /\ Cat(v.type) = "pointer"
    BY <1>1, <1>3, <1>9, <2>1 DEF Holds
  <2>3. buffer[placed[o] + (v.addr - o.addr) + 1] = v.addr
    BY <1>1, <2>2 DEF BytesInv
  <2>. QED  BY <1>1, <2>1, <2>3
<1>12. Fetched(at) \in Nat
  <2>1. prog.memory[a] \in Nat
    BY <1>1, <1>2, <1>10, LiveTarget
  <2>. QED  BY <1>11, <2>1 DEF Fetched
<1>13. CopiedPointers(at, 1)
  <2>1. 0 \in 0 .. n - 1
    OBVIOUS
  <2>2. Copied(at, t, n)
    BY <1>1 DEF Copied
  <2>3. Copied(at + 0 * Size(t), t, 1)
    BY <2>1, <2>2, CopiedPart
  <2>4. at + 0 * Size(t) = at
    BY <1>4, <1>9
  <2>. QED  BY <1>1, <2>3, <2>4 DEF CopiedPointers
<1>14. CopiedPointers(at + Size("pointer"), n - 1)
  <2>1. Live(t, a + s, m)
    <3>1. ASSUME NEW i \in 0 .. m - 1
          PROVE  [type |-> t, addr |-> (a + s) + i * Size(t)] \in prog.heap
      <4>1. PICK j \in 0 .. n - 1 : j = i + 1
        BY <1>5
      <4>2. (i + 1) * s = i * s + s /\ i * s \in Nat
        BY <1>4
      <4>3. PICK y \in Nat : y = i * s
        BY <4>2
      <4>4. a + j * Size(t) = (a + s) + i * Size(t)
        <5>1. j * Size(t) = y + s
          BY <1>4, <4>1, <4>2, <4>3
        <5>2. i * Size(t) = y
          BY <1>4, <4>3
        <5>3. a + (y + s) = (a + s) + y
          BY <1>1, <1>4, <4>3
        <5>. QED  BY <5>1, <5>2, <5>3
      <4>5. [type |-> t, addr |-> a + j * Size(t)] \in Values(t, a, n)
        BY ValueAt
      <4>. QED  BY <1>1, <4>4, <4>5 DEF Live
    <3>2. Values(t, a + s, m) \subseteq prog.heap
      BY <3>1 DEF Values
    <3>. QED  BY <1>1, <1>4, <3>2 DEF Live
  <2>2. at + s = z + ((a + s) - b) /\ b <= a + s /\ (a + s) + x <= b + e /\ a + s \in Nat
    BY <1>8
  <2>3. m * Size(t) = x
    BY <1>4, <1>7
  <2>4. Copied(at + s, t, m)
    BY <1>1, <1>3, <2>1, <2>2, <2>3 DEF Copied
  <2>. QED  BY <1>1, <1>4, <1>5, <2>4 DEF CopiedPointers
<1>15. ASSUME NEW q \in ObjectType, q.addr = Fetched(at)  PROVE PointsInto(at, q, 0)
  <2>1. a \in DOMAIN prog.memory
    BY <1>1, <1>2, <1>10, LiveTarget
  <2>2. Holds(o, a)
    BY <1>3, <1>9 DEF Holds
  <2>3. prog.memory[a] = q.addr + 0
    <3>1. q.addr \in Nat /\ prog.memory[a] = q.addr
      BY <1>11, <1>15, ObjectFacts DEF Fetched
    <3>. QED  BY <3>1
  <2>. QED  BY <1>1, <2>1, <2>2, <2>3 DEF PointsInto
<1>. QED  BY <1>3, <1>9, <1>12, <1>13, <1>14, <1>15

\* The next call.
LEMMA NextCall ==
  ASSUME StateType, CallsReady, todo # <<>>
  PROVE  /\ Call \in CallType /\ Writes(Call) /\ Call = Head(todo)
         /\ Tail(todo) \in Seq(CallType) /\ <<>> \o Tail(todo) = Tail(todo)
<1>1. todo \in Seq(CallType)
  BY DEF StateType
<1>2. Call = todo[1] /\ 1 \in 1 .. Len(todo) /\ Call = Head(todo) /\ Tail(todo) \in Seq(CallType)
  BY <1>1, HeadTailProperties, EmptySeq DEF Call
<1>3. Call \in CallType /\ Writes(Call)
  BY <1>1, <1>2, ElementOfSeq DEF CallsReady
<1>. QED  BY <1>2, <1>3, ConcatEmptySeq

LEMMA FoundObject ==
  ASSUME StateType, NEW p \in Nat, Found(p)
  PROVE  Target(p) \in objects /\ Target(p) \in ObjectType /\ Target(p).addr = p
BY RegisteredMeans DEF Found, Target, StateType

LEMMA PointersStep ==
  ASSUME BlitInv, Pointers
  PROVE  BlitInv'
<1>1. /\ pc = "write" /\ todo # <<>> /\ Call.do = "pointers" /\ Call = Head(todo)
      /\ UNCHANGED <<prog, gathered, written, slots, pc>>
  BY DEF Pointers, Doing, Call
<1>2. /\ StateType /\ PlacesInv /\ BytesInv /\ CallsReady
  BY <1>1 DEF BlitInv, WriteInv
<1>3. Call \in CallType /\ Writes(Call) /\ <<>> \o Tail(todo) = Tail(todo)
  BY <1>1, <1>2, NextCall
<1>4. Call.at \in Nat /\ Call.n \in Nat /\ CopiedPointers(Call.at, Call.n)
  BY <1>1, <1>3, CallFields DEF Writes
<1>5. CASE todo' = Tail(todo)
  <2>1. <<>> \in Seq(CallType) /\ todo' = <<>> \o Tail(todo)
    BY <1>3, <1>5
  <2>2. Head(todo).do # "object"
    BY <1>1
  <2>3. \A i \in 1 .. Len(<<>>) : FALSE
    OBVIOUS
  <2>. QED  BY <1>1, <2>1, <2>2, <2>3, CallOnlyStep
<1>6. CASE /\ Call.n > 0 /\ Found(Fetched(Call.at))
           /\ todo' = <<ObjectOf(Target(Fetched(Call.at))), RefOf(Call.at, Target(Fetched(Call.at)), 0),
                        PointersOf(Call.at + Size("pointer"), Call.n - 1)>> \o Tail(todo)
  <2>1. PICK at \in Nat, n \in Nat \ {0} : at = Call.at /\ n = Call.n
    BY <1>4, <1>6
  <2>2. /\ Fetched(at) \in Nat /\ CopiedPointers(at, 1)
        /\ CopiedPointers(at + Size("pointer"), n - 1)
        /\ \A x \in ObjectType : x.addr = Fetched(at) => PointsInto(at, x, 0)
    BY <1>2, <1>4, <2>1, CopiedPointer
  <2>3. PICK o \in objects : o = Target(Fetched(at)) /\ o \in ObjectType /\ o.addr = Fetched(at)
    BY <1>2, <1>6, <2>1, <2>2, FoundObject
  <2>4. Size("pointer") \in Nat
    BY TypeFacts, TypeAssumption DEF TypeAssumption
  <2>. DEFINE a == ObjectOf(o)
              b == RefOf(at, o, 0)
              c == PointersOf(at + Size("pointer"), n - 1)
  <2>5. at + Size("pointer") \in Nat /\ n - 1 \in Nat
    BY <2>1, <2>4
  <2>6. a \in CallType /\ a.do = "object" /\ a.obj = o
    BY <2>3 DEF ObjectOf, CallType
  <2>7. b \in CallType /\ b.do = "ref" /\ b.at = at /\ b.obj = o /\ b.delta = 0
    BY <2>1, <2>3 DEF RefOf, CallType
  <2>8. c \in CallType /\ c.do = "pointers" /\ c.at = at + Size("pointer") /\ c.n = n - 1
    BY <2>5 DEF PointersOf, CallType
  <2>9. PICK pre : pre = <<a, b, c>>
    OBVIOUS
  <2>10. todo' = pre \o Tail(todo) /\ a = ObjectOf(o)
    BY <1>6, <2>1, <2>3, <2>9
  <2>. HIDE DEF a, b, c
  <2>11. pre \in Seq(CallType) /\ Len(pre) = 3 /\ pre[1] = a /\ pre[2] = b /\ pre[3] = c
    BY <2>6, <2>7, <2>8, <2>9
  <2>12. Writes(a) /\ Writes(c)
    BY <2>2, <2>3, <2>6, <2>8 DEF Writes
  <2>13. Writes(b)
    <3>1. 0 < Extent(o) /\ PointsInto(at, o, 0)
      BY <2>2, <2>3, ObjectFacts
    <3>. QED  BY <2>2, <2>3, <2>7, <3>1 DEF Writes
  <2>14. \A i \in 1 .. Len(pre) :
           Writes(pre[i]) /\ (pre[i].do = "ref" => i > 1 /\ pre[i - 1] = ObjectOf(pre[i].obj))
    <3>1. \A i \in 1 .. 3 : i = 1 \/ i = 2 \/ i = 3
      OBVIOUS
    <3>2. pre[2].do = "ref" => 2 > 1 /\ pre[2 - 1] = ObjectOf(pre[2].obj)
      BY <2>7, <2>10, <2>11
    <3>. QED  BY <2>6, <2>8, <2>11, <2>12, <2>13, <3>1, <3>2
  <2>15. Head(todo).do # "object"
    BY <1>1
  <2>. QED  BY <1>1, <2>10, <2>11, <2>14, <2>15, CallOnlyStep
<1>. QED  BY <1>5, <1>6 DEF Pointers

LEMMA FollowStep ==
  ASSUME BlitInv, Follow
  PROVE  BlitInv'
<1>1. /\ pc = "write" /\ todo # <<>> /\ Call.do = "follow" /\ Call = Head(todo)
      /\ UNCHANGED <<prog, gathered, written, slots, pc>>
  BY DEF Follow, Doing, Call
<1>2. /\ StateType /\ PlacesInv /\ BytesInv /\ CallsReady
  BY <1>1 DEF BlitInv, WriteInv
<1>3. Call \in CallType /\ Writes(Call) /\ <<>> \o Tail(todo) = Tail(todo)
  BY <1>1, <1>2, NextCall
<1>4. PICK at \in Nat : at = Call.at
  BY <1>1, <1>3, CallFields
<1>5. PICK p : p = Fetched(at)
  OBVIOUS
<1>6. /\ CopiedPointers(at, 1) /\ p \in Nat
      /\ \A x \in ObjectType : x.addr = p => PointsInto(at, x, 0)
  <2>1. CopiedPointers(at, 1) /\ 1 \in Nat \ {0}
    BY <1>1, <1>3, <1>4, <1>5 DEF Writes
  <2>. QED  BY <1>2, <1>4, <1>5, <2>1, CopiedPointer
<1>7. todo' = (IF Found(p) THEN <<ObjectOf(Target(p)), RefOf(at, Target(p), LocalOffset(Target(p), p))>>
               ELSE <<>>) \o Tail(todo)
  BY <1>4, <1>5 DEF Follow
<1>8. Head(todo).do # "object"
  BY <1>1
<1>9. CASE ~Found(p)
  <2>1. <<>> \in Seq(CallType) /\ todo' = <<>> \o Tail(todo)
    BY <1>7, <1>9
  <2>2. \A i \in 1 .. Len(<<>>) : FALSE
    OBVIOUS
  <2>. QED  BY <1>1, <1>8, <2>1, <2>2, CallOnlyStep
<1>10. CASE Found(p)
  <2>1. PICK o \in objects : o = Target(p) /\ o \in ObjectType /\ o.addr = p
    BY <1>2, <1>6, <1>10, FoundObject
  <2>2. LocalOffset(o, p) = 0
    BY <1>6, <2>1 DEF LocalOffset
  <2>. DEFINE a == ObjectOf(o)
              b == RefOf(at, o, 0)
  <2>3. a \in CallType /\ a.do = "object" /\ a.obj = o
    BY <2>1 DEF ObjectOf, CallType
  <2>4. b \in CallType /\ b.do = "ref" /\ b.at = at /\ b.obj = o /\ b.delta = 0
    BY <1>4, <1>5, <2>1 DEF RefOf, CallType
  <2>5. PICK pre : pre = <<a, b>>
    OBVIOUS
  <2>6. todo' = pre \o Tail(todo) /\ a = ObjectOf(o)
    BY <1>7, <1>10, <2>1, <2>2, <2>5
  <2>. HIDE DEF a, b
  <2>7. pre \in Seq(CallType) /\ Len(pre) = 2 /\ pre[1] = a /\ pre[2] = b
    BY <2>3, <2>4, <2>5
  <2>8. Writes(a) /\ Writes(b)
    <3>1. 0 < Extent(o) /\ PointsInto(at, o, 0)
      BY <1>6, <2>1, ObjectFacts
    <3>. QED  BY <1>6, <2>1, <2>3, <2>4, <3>1 DEF Writes
  <2>9. \A i \in 1 .. Len(pre) :
          Writes(pre[i]) /\ (pre[i].do = "ref" => i > 1 /\ pre[i - 1] = ObjectOf(pre[i].obj))
    <3>1. \A i \in 1 .. 2 : i = 1 \/ i = 2
      OBVIOUS
    <3>2. pre[2].do = "ref" => 2 > 1 /\ pre[2 - 1] = ObjectOf(pre[2].obj)
      BY <2>4, <2>6, <2>7
    <3>. QED  BY <2>3, <2>7, <2>8, <3>1, <3>2
  <2>. QED  BY <1>1, <1>8, <2>6, <2>7, <2>9, CallOnlyStep
<1>. QED  BY <1>9, <1>10

\* Flattened, for calls.
LEMMA FlattenedCalls ==
  ASSUME NEW n \in Nat, NEW ss \in [1 .. n -> Seq(CallType)]
  PROVE  /\ FlattenSeq(ss) \in Seq(CallType)
         /\ ToSet(FlattenSeq(ss)) = UNION {ToSet(ss[i]) : i \in 1 .. n}
BY Flattened

\* The calls for a member of a class that has been copied.
LEMMA MemberWrites ==
  ASSUME StateType, MembersInv, NEW t \in DOMAIN Types, NEW at \in Nat, Copied(at, t, 1),
         NEW k \in 1 .. Len(infos[t].members), NEW m, m = infos[t].members[k]
  PROVE  /\ MemberCalls(m, at) \in Seq(CallType)
         /\ \A x \in ToSet(MemberCalls(m, at)) : Writes(x) /\ x.do # "ref"
<1>1. PICK i \in DOMAIN Types[t].fields : m = MemberOf(Types[t].fields[i]) /\ Cat(t) = "class"
  BY DEF MembersInv, IsField
<1>2. PICK f : f = Types[t].fields[i]
  OBVIOUS
<1>3. /\ f.type \in DOMAIN Types /\ f.off \in Nat /\ Count(f) \in Nat \ {0}
      /\ f.off + Count(f) * Size(f.type) <= Size(t)
  BY <1>1, <1>2, FieldFacts
<1>4. PICK u \in DOMAIN Types, off \in Nat, n \in Nat \ {0} : u = m.type /\ off = m.off /\ n = m.n
  BY <1>1, <1>2, <1>3 DEF MemberOf
<1>5. u = f.type /\ off = f.off /\ n = Count(f)
  BY <1>1, <1>2, <1>4 DEF MemberOf
<1>6. PICK s \in Nat \ {0} : s = Size(u)
  BY TypeFacts
<1>7. Copied(at + off, u, n)
  <2>1. PICK o \in DOMAIN placed, a \in Nat :
          /\ at = placed[o] + (a - o.addr) /\ o.addr <= a /\ a + 1 * Size(t) <= o.addr + Extent(o)
          /\ Live(t, a, 1)
    BY DEF Copied
  <2>2. Live(u, a + off, n)
    BY <1>1, <1>2, <1>5, <2>1, LiveField DEF StateType
  <2>3. o \in ObjectType /\ placed[o] \in Nat
    BY <2>1 DEF StateType
  <2>4. PICK e \in Nat, z \in Nat, b \in Nat : e = Extent(o) /\ z = placed[o] /\ b = o.addr
    BY <2>3, ObjectFacts
  <2>5. PICK w \in Nat, y \in Nat : w = Size(t) /\ y = n * s
    <3>1. \A p, q \in Nat : p * q \in Nat
      OBVIOUS
    <3>2. n * s \in Nat /\ Size(t) \in Nat
      BY <1>4, <1>6, <3>1, TypeFacts
    <3>. QED  BY <3>2
  <2>6. /\ a \in Nat /\ z \in Nat /\ b \in Nat /\ e \in Nat /\ w \in Nat /\ y \in Nat /\ off \in Nat
        /\ at = z + (a - b) /\ b <= a /\ a + w <= b + e /\ off + y <= w
    <3>1. off + n * s <= Size(t)
      BY <1>3, <1>5, <1>6
    <3>2. off + y <= w
      BY <2>5, <3>1
    <3>3. 1 * w = w
      OBVIOUS
    <3>4. at = z + (a - b) /\ b <= a /\ a + w <= b + e
      BY <2>1, <2>4, <2>5, <3>3
    <3>. QED  BY <3>2, <3>4
  <2>7. at + off = z + ((a + off) - b) /\ b <= a + off /\ (a + off) + y <= b + e /\ a + off \in Nat
    <3>1. at + off = z + ((a + off) - b)
      BY <2>6
    <3>2. b <= a + off /\ a + off \in Nat
      BY <2>6
    <3>3. (a + off) + y <= b + e
      BY <2>6
    <3>. QED  BY <3>1, <3>2, <3>3
  <2>. QED  BY <1>6, <2>1, <2>2, <2>4, <2>5, <2>7 DEF Copied
<1>8. PICK calls : calls = MemberCalls(m, at)
  OBVIOUS
<1>. DEFINE nth(j) == CASE Cat(u) = "class"   -> MembersOf(u, at + off + (j - 1) * s)
                        [] Cat(u) = "pointer" -> FollowOf(at + off + (j - 1) * s)
                        [] Cat(u) = "number"  -> SwapOf(u, at + off, n)
<1>9. calls = [j \in 1 .. n |-> nth(j)]
  <2>1. u = m.type /\ off = m.off /\ n = m.n /\ s = Size(u)
    BY <1>4, <1>6
  <2>. QED  BY ONLY <1>8, <2>1 DEF MemberCalls
<1>10. Cat(u) \in {"number", "pointer", "class"}
  BY TypeFacts
<1>11. ASSUME NEW j \in 1 .. n  PROVE calls[j] \in CallType /\ Writes(calls[j]) /\ calls[j].do # "ref"
  <2>1. PICK h \in 0 .. n - 1 : h = j - 1
    <3>1. j \in Nat /\ 1 <= j /\ j <= n /\ n \in Nat
      BY <1>4
    <3>2. j - 1 \in 0 .. n - 1
      BY ONLY <3>1
    <3>. QED  BY <3>2
  <2>2. h * s \in Nat
    BY <1>4, <1>6, PartFits
  <2>3. PICK here \in Nat : here = at + off + h * s
    <3>1. PICK y \in Nat : y = h * s
      BY <2>2
    <3>2. \A p, q, r \in Nat : p + q + r \in Nat
      OBVIOUS
    <3>. QED  BY <1>4, <3>1, <3>2
  <2>4. Copied(here, u, 1)
    <3>1. Copied((at + off) + h * Size(u), u, 1)
      BY <1>4, <1>7, CopiedPart
    <3>. QED  BY <1>6, <2>3, <3>1
  <2>5. here = at + off + (j - 1) * s
    BY <2>1, <2>3
  <2>6. CASE Cat(u) = "class"
    <3>1. calls[j] = MembersOf(u, here)
      BY <1>9, <2>5, <2>6
    <3>. QED  BY <2>4, <3>1 DEF MembersOf, CallType, Writes
  <2>7. CASE Cat(u) = "pointer"
    <3>1. calls[j] = FollowOf(here)
      BY <1>9, <2>5, <2>7
    <3>2. CopiedPointers(here, 1)
      BY <2>4, <2>7 DEF CopiedPointers
    <3>. QED  BY <3>1, <3>2 DEF FollowOf, CallType, Writes
  <2>8. CASE Cat(u) = "number"
    <3>1. calls[j] = SwapOf(u, at + off, n)
      BY <1>9, <2>8
    <3>2. at + off \in Nat
      BY <1>4
    <3>3. SwapOf(u, at + off, n) \in CallType
      BY <1>4, <3>2 DEF SwapOf, CallType
    <3>4. Writes(SwapOf(u, at + off, n)) /\ SwapOf(u, at + off, n).do = "swap"
      BY <1>7, <2>8 DEF SwapOf, Writes
    <3>. QED  BY <3>1, <3>3, <3>4
  <2>. QED  BY <1>10, <2>6, <2>7, <2>8
<1>12. calls \in Seq(CallType) /\ Len(calls) = n /\ DOMAIN calls = 1 .. n
  <2>1. calls \in [1 .. n -> CallType]
    <3>. HIDE DEF nth
    <3>1. \A j \in 1 .. n : nth(j) \in CallType
      BY <1>9, <1>11
    <3>. QED  BY <1>9, <3>1
  <2>. QED  BY <1>4, <2>1
<1>. QED  BY <1>8, <1>11, <1>12 DEF ToSet

LEMMA MembersStep ==
  ASSUME BlitInv, Members
  PROVE  BlitInv'
<1>1. /\ pc = "write" /\ todo # <<>> /\ Call.do = "members" /\ Call = Head(todo)
      /\ UNCHANGED <<prog, gathered, written, slots, pc>>
  <2>1. pc = "write" /\ Doing("members") /\ UNCHANGED <<prog, gathered, written, slots, pc>>
    BY DEF Members
  <2>. QED  BY ONLY <2>1 DEF Doing, Call
<1>2. /\ StateType /\ MembersInv /\ CallsReady
  BY <1>1 DEF BlitInv, WriteInv
<1>3. Call \in CallType /\ Writes(Call)
  BY <1>1, <1>2, NextCall
<1>4. PICK t \in DOMAIN Types, at \in Nat : t = Call.type /\ at = Call.at
  BY <1>1, <1>3, CallFields
<1>5. Copied(at, t, 1)
  BY <1>1, <1>3, <1>4 DEF Writes
<1>6. PICK ms \in Seq(MemberType) : ms = infos[t].members
  BY <1>2 DEF StateType
<1>7. PICK n \in Nat : n = Len(ms) /\ DOMAIN ms = 1 .. n
  BY LenProperties
<1>8. PICK ss : ss = [k \in 1 .. n |-> MemberCalls(ms[k], at)]
  OBVIOUS
<1>9. ASSUME NEW k \in 1 .. n
      PROVE  ss[k] \in Seq(CallType) /\ \A x \in ToSet(ss[k]) : Writes(x) /\ x.do # "ref"
  BY <1>2, <1>5, <1>6, <1>7, <1>8, MemberWrites
<1>10. ss \in [1 .. n -> Seq(CallType)]
  BY <1>8, <1>9
<1>11. PICK pre \in Seq(CallType) :
         pre = FlattenSeq(ss) /\ ToSet(pre) = UNION {ToSet(ss[k]) : k \in 1 .. n}
  <2>1. n \in Nat
    BY <1>7
  <2>2. /\ FlattenSeq(ss) \in Seq(CallType)
        /\ ToSet(FlattenSeq(ss)) = UNION {ToSet(ss[k]) : k \in 1 .. n}
    BY ONLY <1>10, <2>1, FlattenedCalls
  <2>. QED  BY ZenonT(30), <2>2
<1>12. todo' = pre \o Tail(todo)
  BY <1>4, <1>6, <1>7, <1>8, <1>11 DEF Members
<1>13. ASSUME NEW i \in 1 .. Len(pre)  PROVE Writes(pre[i]) /\ pre[i].do # "ref"
  <2>1. pre[i] \in ToSet(pre)
    BY LenProperties DEF ToSet
  <2>2. PICK k \in 1 .. n : pre[i] \in ToSet(ss[k])
    BY <1>11, <2>1
  <2>. QED  BY <1>9, <2>2
<1>14. Head(todo).do # "object"
  BY <1>1
<1>. QED  BY <1>1, <1>12, <1>13, <1>14, CallOnlyStep

\* In a block that fits memory, align_on leads to a multiple of the alignment, at its
\* end or behind it.
LEMMA AlignedOn ==
  ASSUME NEW n \in Nat, n + ObjectAlign <= 2^SizeBits
  PROVE  AlignOn(n) \in Nat /\ AlignOn(n) >= n /\ AlignOn(n) % ObjectAlign = 0
<1>1. SizeBits \in Nat /\ Doubling(SizeBits) /\ SizeBits \in 0 .. SizeBits + 1
  BY AlignAssumption
<1>2. PICK k \in 0 .. SizeBits : ObjectAlign = 2^k
  BY AlignAssumption
<1>3. PICK z \in Nat \ {0} : z = 2^SizeBits
  BY <1>1, PowerType
<1>4. PICK a \in Nat \ {0} : a = ObjectAlign
  <2>1. k \in 0 .. SizeBits + 1
    BY <1>1
  <2>. QED  BY <1>1, <1>2, <2>1, PowerType
<1>5. n + a <= z
  BY <1>3, <1>4
<1>6. PICK m \in 0 .. z - 1 : m = (n - 1) % z /\ IF n = 0 THEN m = z - 1 ELSE m = n - 1
  <2>1. CASE n = 0
    <3>1. (0 - 1) % z = z - 1
      BY <1>3
    <3>. QED  BY <2>1, <3>1
  <2>2. CASE n # 0
    <3>1. n - 1 \in 0 .. z - 1
      BY <1>4, <1>5, <2>2
    <3>2. (n - 1) % z = n - 1
      BY <3>1
    <3>. QED  BY <2>2, <3>1, <3>2
  <2>. QED  BY <2>1, <2>2
<1>7. PICK r : r = Or(m, ObjectAlign - 1, SizeBits)
  OBVIOUS
<1>8. r + 1 \in Nat /\ (r + 1) % a = 0 /\ m < r + 1 /\ r + 1 <= m + a
  <2>1. m \in 0 .. 2^SizeBits - 1
    BY <1>3
  <2>. QED  BY <1>1, <1>2, <1>4, <1>7, <2>1, AfterMask
<1>9. r \in 0 .. z - 1
  <2>1. m \in 0 .. 2^SizeBits - 1 /\ ObjectAlign - 1 \in 0 .. 2^SizeBits - 1
    BY <1>3, <1>4, <1>5
  <2>. QED  BY <1>1, <1>3, <1>7, <2>1, OrType
<1>10. AlignOn(n) = (r + 1) % z
  BY <1>3, <1>6, <1>7 DEF AlignOn
<1>11. CASE n = 0
  <2>1. r + 1 = z
    BY <1>6, <1>8, <1>9, <1>11
  <2>2. AlignOn(n) = 0
    BY <1>10, <2>1
  <2>3. 0 % a = 0
    OBVIOUS
  <2>. QED  BY <1>4, <1>11, <2>2, <2>3
<1>12. CASE n # 0
  <2>1. r + 1 \in 0 .. z - 1 /\ r + 1 >= n
    BY <1>5, <1>6, <1>8, <1>12
  <2>2. (r + 1) % z = r + 1
    BY <2>1
  <2>. QED  BY <1>4, <1>8, <1>10, <2>1, <2>2
<1>. QED  BY <1>11, <1>12

\* What fits with more bytes fits without.
LEMMA BlockFits ==
  ASSUME NEW l \in Nat, NEW e \in Nat, l + ObjectAlign + e <= 2^SizeBits
  PROVE  l + ObjectAlign <= 2^SizeBits
<1>1. SizeBits \in Nat /\ Doubling(SizeBits) /\ SizeBits \in 0 .. SizeBits + 1
  BY AlignAssumption
<1>2. PICK k \in 0 .. SizeBits + 1 : ObjectAlign = 2^k
  BY <1>1, AlignAssumption
<1>3. PICK a \in Nat, z \in Nat : a = ObjectAlign /\ z = 2^SizeBits
  BY <1>1, <1>2, PowerType
<1>4. l + a + e <= z
  BY <1>3
<1>5. l + a <= z
  BY <1>4
<1>. QED  BY <1>3, <1>5

\* n bytes from p on, appended to a buffer at offset at.
Pads(n) == [i \in 1 .. n |-> Pad]
BytesFrom(p, n) == [i \in 1 .. n |-> p + i - 1]
Extended(buf, at, p, n) == buf \o Pads(at - Len(buf)) \o BytesFrom(p, n)
Extends(new, buf, at, p, n) ==
  /\ new \in Seq(Int) /\ Len(new) = at + n
  /\ \A i \in 1 .. Len(buf) : new[i] = buf[i]
  /\ \A i \in 1 .. at : i > Len(buf) => new[i] = Pad
  /\ \A i \in 1 .. n : new[at + i] = p + i - 1
LEMMA Appended ==
  ASSUME NEW buf \in Seq(Int), NEW at \in Nat, at >= Len(buf), NEW n \in Nat, NEW p \in Nat
  PROVE  Extends(Extended(buf, at, p, n), buf, at, p, n)
<1>1. PICK pads, bytes, new :
        pads = Pads(at - Len(buf)) /\ bytes = BytesFrom(p, n) /\ new = Extended(buf, at, p, n)
  OBVIOUS
<1>2. PICK l \in Nat, k \in Nat : l = Len(buf) /\ k = at - l /\ at = l + k
  <2>1. Len(buf) \in Nat
    OBVIOUS
  <2>2. at - Len(buf) \in Nat /\ at = Len(buf) + (at - Len(buf))
    BY <2>1
  <2>. QED  BY <2>1, <2>2
<1>3. /\ pads \in Seq(Int) /\ Len(pads) = k
      /\ \A i \in 1 .. k : pads[i] = Pad
  <2>1. [i \in 1 .. k |-> Pad] \in Seq(Int) /\ Len([i \in 1 .. k |-> Pad]) = k
    BY <1>2 DEF Pad
  <2>. QED  BY <1>1, <1>2, <2>1 DEF Pads
<1>4. /\ bytes \in Seq(Int) /\ Len(bytes) = n
      /\ \A i \in 1 .. n : bytes[i] = p + i - 1
  BY <1>1 DEF BytesFrom
<1>5. /\ buf \o pads \in Seq(Int) /\ Len(buf \o pads) = l + k
      /\ \A i \in 1 .. l + k : (buf \o pads)[i] = IF i <= l THEN buf[i] ELSE pads[i - l]
  <2>1. /\ buf \o pads \in Seq(Int) /\ Len(buf \o pads) = Len(buf) + Len(pads)
        /\ \A i \in 1 .. Len(buf) + Len(pads) :
             (buf \o pads)[i] = IF i <= Len(buf) THEN buf[i] ELSE pads[i - Len(buf)]
    BY <1>3, ConcatProperties
  <2>. QED  BY <1>2, <1>3, <2>1
<1>6. PICK front \in Seq(Int) : front = buf \o pads
  BY <1>5
<1>7. /\ new \in Seq(Int) /\ Len(new) = at + n
      /\ \A i \in 1 .. at + n : new[i] = IF i <= at THEN front[i] ELSE bytes[i - at]
  <2>1. new = front \o bytes /\ Len(front) = at
    BY <1>1, <1>2, <1>3, <1>4, <1>5, <1>6 DEF Extended
  <2>2. /\ front \o bytes \in Seq(Int) /\ Len(front \o bytes) = Len(front) + Len(bytes)
        /\ \A i \in 1 .. Len(front) + Len(bytes) :
             (front \o bytes)[i] = IF i <= Len(front) THEN front[i] ELSE bytes[i - Len(front)]
    BY <1>4, ConcatProperties
  <2>. QED  BY <1>4, <2>1, <2>2
<1>8. ASSUME NEW i \in 1 .. at
      PROVE  new[i] = IF i <= l THEN buf[i] ELSE Pad
  <2>1. i \in 1 .. at + n /\ i <= at /\ i \in 1 .. l + k
    BY <1>2
  <2>2. new[i] = front[i] /\ front[i] = IF i <= l THEN buf[i] ELSE pads[i - l]
    BY <1>5, <1>6, <1>7, <2>1
  <2>3. ~(i <= l) => i - l \in 1 .. k
    BY <1>2
  <2>. QED  BY <1>3, <2>2, <2>3
<1>9. ASSUME NEW i \in 1 .. n  PROVE new[at + i] = p + i - 1
  <2>1. at + i \in 1 .. at + n /\ ~(at + i <= at) /\ (at + i) - at = i
    OBVIOUS
  <2>2. new[at + i] = bytes[(at + i) - at]
    BY <1>7, <2>1
  <2>. QED  BY <1>4, <2>1, <2>2
<1>10. \A i \in 1 .. l : i \in 1 .. at /\ i <= l
  BY <1>2
<1>11. \A i \in 1 .. at : i > l => ~(i <= l)
  BY <1>2
<1>. QED  BY <1>1, <1>2, <1>7, <1>8, <1>9, <1>10, <1>11 DEF Extends

\* What is written of an object that has been placed.
LEMMA ContentsWrite ==
  ASSUME StateType, prog' = prog, NEW o \in ObjectType, Live(o.type, o.addr, o.n),
         o \in DOMAIN placed', placed'[o] \in Nat, NEW at, at = placed'[o]
  PROVE  /\ Contents(o, at) \in Seq(CallType)
         /\ \A i \in 1 .. Len(Contents(o, at)) :
              Writes(Contents(o, at)[i])' /\ Contents(o, at)[i].do # "ref"
<1>1. PICK t \in DOMAIN Types, p \in Nat, n \in Nat \ {0}, s \in Nat \ {0} :
        t = o.type /\ p = o.addr /\ n = o.n /\ s = Size(t)
  <2>1. o.type \in DOMAIN Types /\ o.addr \in Nat /\ o.n \in Nat \ {0} /\ Size(o.type) \in Nat \ {0}
    BY ObjectFacts
  <2>. QED  BY <2>1
<1>2. Extent(o) = n * s /\ at \in Nat
  BY <1>1 DEF Extent
<1>3. ASSUME NEW i \in 0 .. n - 1  PROVE at + i * s \in Nat /\ Copied(at + i * s, t, 1)'
  <2>1. i * s \in Nat /\ n * s \in Nat /\ i * s + s <= n * s
    BY <1>1, PartFits
  <2>2. PICK x \in Nat, y \in Nat : x = i * s /\ y = n * s /\ x + s <= y
    BY <2>1
  <2>3. Live(t, p + x, 1)
    <3>1. Live(t, p + i * Size(t), 1)
      BY <1>1, LivePart
    <3>. QED  BY <1>1, <2>2, <3>1
  <2>4. Live(t, p + x, 1)'
    BY <2>3 DEF Live
  <2>5. at + x = at + ((p + x) - p) /\ p <= p + x /\ (p + x) + s <= p + y /\ p + x \in Nat
    BY <1>1, <1>2, <2>2
  <2>6. 1 * Size(t) = s /\ Extent(o) = y
    BY <1>1, <1>2, <2>2
  <2>7. Copied(at + x, t, 1)'
    BY <1>1, <2>4, <2>5, <2>6 DEF Copied, Extent
  <2>. QED  BY <1>2, <2>2, <2>7
<1>4. Copied(at, t, n)'
  <2>1. Live(t, p, n)'
    BY <1>1 DEF Live
  <2>2. at = at + (p - p) /\ p <= p
    BY <1>1, <1>2
  <2>. QED  BY <1>1, <1>2, <2>1, <2>2 DEF Copied, Extent
<1>5. PICK pre : pre = Contents(o, at)
  OBVIOUS
<1>6. CASE Cat(t) = "pointer"
  <2>1. PICK c : c = PointersOf(at, n)
    OBVIOUS
  <2>2. c \in CallType /\ c.do = "pointers" /\ c.at = at /\ c.n = n
    BY <1>1, <1>2, <2>1 DEF PointersOf, CallType
  <2>3. CopiedPointers(at, n)'
    BY <1>4, <1>6 DEF CopiedPointers
  <2>4. Writes(c)'
    BY <2>2, <2>3 DEF Writes
  <2>5. pre = <<c>>
    BY <1>1, <1>5, <1>6, <2>1 DEF Contents
  <2>6. pre \in Seq(CallType) /\ Len(pre) = 1 /\ pre[1] = c
    BY <2>2, <2>5
  <2>7. \A i \in 1 .. Len(pre) : Writes(pre[i])' /\ pre[i].do # "ref"
    BY <2>2, <2>4, <2>6
  <2>. QED  BY <1>5, <2>6, <2>7
<1>7. CASE Cat(t) = "number"
  <2>1. PICK c : c = SwapOf(t, at, n)
    OBVIOUS
  <2>2. c \in CallType /\ c.do = "swap" /\ c.type = t /\ c.at = at /\ c.n = n
    BY <1>1, <1>2, <2>1 DEF SwapOf, CallType
  <2>3. Writes(c)'
    BY <1>4, <1>7, <2>2 DEF Writes
  <2>4. pre = <<c>>
    BY <1>1, <1>5, <1>7, <2>1 DEF Contents
  <2>5. pre \in Seq(CallType) /\ Len(pre) = 1 /\ pre[1] = c
    BY <2>2, <2>4
  <2>6. \A i \in 1 .. Len(pre) : Writes(pre[i])' /\ pre[i].do # "ref"
    BY <2>2, <2>3, <2>5
  <2>. QED  BY <1>5, <2>5, <2>6
<1>8. CASE Cat(t) = "class"
  <2>1. pre = [i \in 1 .. n |-> MembersOf(t, at + (i - 1) * s)]
    BY <1>1, <1>5, <1>8 DEF Contents
  <2>2. ASSUME NEW i \in 1 .. n
        PROVE  /\ MembersOf(t, at + (i - 1) * s) \in CallType
               /\ Writes(MembersOf(t, at + (i - 1) * s))'
               /\ MembersOf(t, at + (i - 1) * s).do # "ref"
    <3>1. PICK j \in 0 .. n - 1 : j = i - 1
      BY <1>1
    <3>2. at + j * s \in Nat /\ Copied(at + j * s, t, 1)'
      BY <1>3
    <3>3. PICK c : c = MembersOf(t, at + j * s)
      OBVIOUS
    <3>4. c \in CallType /\ c.do = "members" /\ c.at = at + j * s /\ c.type = t
      BY <3>2, <3>3 DEF MembersOf, CallType
    <3>5. Writes(c)'
      BY <3>2, <3>4 DEF Writes
    <3>6. c = MembersOf(t, at + (i - 1) * s)
      BY <3>1, <3>3
    <3>. QED  BY <3>4, <3>5, <3>6
  <2>3. pre \in Seq(CallType) /\ Len(pre) = n /\ \A i \in 1 .. n : pre[i] = MembersOf(t, at + (i - 1) * s)
    BY <1>1, <2>1, <2>2
  <2>4. \A i \in 1 .. Len(pre) : Writes(pre[i])' /\ pre[i].do # "ref"
    BY <2>2, <2>3
  <2>. QED  BY <1>5, <2>3, <2>4
<1>9. Cat(t) \in {"number", "pointer", "class"}
  BY TypeFacts
<1>. QED  BY <1>6, <1>7, <1>8, <1>9

LEMMA WriteObjectStep ==
  ASSUME BlitInv, WriteObject
  PROVE  BlitInv'
<1>1. /\ pc = "write" /\ pc' = pc /\ todo # <<>> /\ Call.do = "object" /\ Call = Head(todo)
      /\ prog' = prog /\ gathered' = gathered /\ slots' = slots
  BY DEF WriteObject, Doing, Call
<1>2. /\ StateType /\ MembersInv /\ ObjectsInv /\ GatherInv /\ PlacesInv /\ BytesInv /\ WriteInv
      /\ CallsReady
  BY <1>1 DEF BlitInv, WriteInv
<1>3. Call \in CallType /\ Writes(Call) /\ <<>> \o Tail(todo) = Tail(todo)
  BY <1>1, <1>2, NextCall
<1>4. PICK o \in objects : o = Call.obj
  BY <1>1, <1>3 DEF Writes
<1>5. PICK at : at = AlignOn(Len(buffer))
  OBVIOUS
<1>6. CASE Written(o) /\ todo' = Tail(todo) /\ UNCHANGED written
  <2>1. <<>> \in Seq(CallType) /\ todo' = <<>> \o Tail(todo)
    BY <1>3, <1>6
  <2>2. Head(todo).do = "object" => Head(todo).obj \in DOMAIN placed
    BY <1>1, <1>4, <1>6 DEF Written
  <2>3. \A i \in 1 .. Len(<<>>) : FALSE
    OBVIOUS
  <2>4. UNCHANGED <<prog, gathered, written, slots, pc>>
    BY <1>1, <1>6
  <2>. QED  BY <1>1, <2>1, <2>2, <2>3, <2>4, CallOnlyStep
<1>7. CASE /\ ~Written(o) /\ Fits(o)
           /\ placed' = [x \in DOMAIN placed \cup {o} |-> IF x = o THEN at ELSE placed[x]]
           /\ buffer' = buffer \o [i \in 1 .. at - Len(buffer) |-> Pad]
                               \o [i \in 1 .. Extent(o) |-> o.addr + i - 1]
           /\ todo' = Contents(o, at) \o Tail(todo)
           /\ refs' = refs
  <2>1. /\ o \in ObjectType /\ DOMAIN placed \subseteq objects /\ placed \in [DOMAIN placed -> Nat]
        /\ buffer \in Seq(Int) /\ o \notin DOMAIN placed /\ objects \subseteq ObjectType
        /\ todo \in Seq(CallType)
    BY <1>2, <1>7 DEF StateType, Written
  <2>2. PICK l \in Nat, e \in Nat \ {0}, p \in Nat : l = Len(buffer) /\ e = Extent(o) /\ p = o.addr
    <3>1. Len(buffer) \in Nat /\ Extent(o) \in Nat \ {0} /\ o.addr \in Nat
      BY <2>1, ObjectFacts
    <3>. QED  BY <3>1
  <2>3. at \in Nat /\ at >= l /\ at % ObjectAlign = 0
    <3>1. l + ObjectAlign <= 2^SizeBits
      BY <1>7, <2>2, BlockFits DEF Fits
    <3>. QED  BY <1>5, <2>2, <3>1, AlignedOn
  <2>4. /\ buffer' \in Seq(Int) /\ Len(buffer') = at + e
        /\ \A i \in 1 .. l : buffer'[i] = buffer[i]
        /\ \A i \in 1 .. at : i > l => buffer'[i] = Pad
        /\ \A i \in 1 .. e : buffer'[at + i] = p + i - 1
    <3>1. PICK buf \in Seq(Int), m \in Nat, n \in Nat : buf = buffer /\ m = at /\ n = e
      BY <2>1, <2>2, <2>3
    <3>2. m >= Len(buf)
      BY <2>2, <2>3, <3>1
    <3>3. buffer' = Extended(buf, m, p, n)
      BY <1>7, <2>2, <3>1 DEF Extended, Pads, BytesFrom
    <3>4. Extends(Extended(buf, m, p, n), buf, m, p, n)
      BY <3>2, Appended
    <3>. QED  BY <2>2, <3>1, <3>3, <3>4 DEF Extends
  <2>5. /\ DOMAIN placed' = DOMAIN placed \cup {o} /\ placed'[o] = at
        /\ \A x \in DOMAIN placed : placed'[x] = placed[x]
        /\ placed' \in [DOMAIN placed' -> Nat]
    BY <1>7, <2>1, <2>3
  <2>6. /\ infos' = infos /\ objects' = objects /\ parents' = parents
        /\ RootObject \in objects
        /\ MembersInv' /\ ObjectsInv' /\ GatherInv'
    BY <1>1, <1>2, GatheredKept
  <2>7. todo' \in Seq(CallType) /\ CallsReady'
    <3>1. Live(o.type, o.addr, o.n)
      BY <1>2 DEF ObjectsInv
    <3>2. o \in DOMAIN placed' /\ placed'[o] \in Nat /\ at = placed'[o]
      BY <2>3, <2>5
    <3>3. /\ Contents(o, at) \in Seq(CallType)
          /\ \A i \in 1 .. Len(Contents(o, at)) :
               Writes(Contents(o, at)[i])' /\ Contents(o, at)[i].do # "ref"
      BY <1>1, <1>2, <2>1, <3>1, <3>2, ContentsWrite
    <3>4. PICK pre \in Seq(CallType) : pre = Contents(o, at)
      BY <3>3
    <3>5. /\ todo' = pre \o Tail(todo)
          /\ \A i \in 1 .. Len(pre) : Writes(pre[i])' /\ pre[i].do # "ref"
      BY <1>7, <3>3, <3>4
    <3>6. Head(todo).do = "object" => Head(todo).obj \in DOMAIN placed'
      BY <1>1, <1>4, <3>2
    <3>7. DOMAIN placed \subseteq DOMAIN placed'
      BY <2>5
    <3>. QED  BY <1>1, <1>2, <2>1, <2>5, <2>6, <3>5, <3>6, <3>7, CallsReplaced
  <2>8. StateType'
    <3>1. prog \in Programs /\ pc \in {"gather", "write", "written", "loaded"} /\ parents \in Seq(ParentType)
          /\ infos \in [DOMAIN Types -> [members : Seq(MemberType), complete : BOOLEAN]]
          /\ refs \in Seq([at : Nat, to : Nat])
      BY <1>2 DEF StateType
    <3>2. DOMAIN placed' \subseteq objects
      BY <2>1, <2>5
    <3>. QED  BY <1>1, <1>7, <2>1, <2>4, <2>5, <2>6, <2>7, <3>1, <3>2 DEF StateType
  <2>9. ASSUME NEW x \in DOMAIN placed
        PROVE  /\ placed[x] \in Nat /\ x \in ObjectType /\ x.addr \in Nat /\ Extent(x) \in Nat \ {0}
               /\ placed[x] % ObjectAlign = 0 /\ placed[x] + Extent(x) <= l
    BY <1>2, <2>1, <2>2, ObjectFacts DEF PlacesInv
  <2>10. PlacesInv'
    <3>1. ASSUME NEW x \in DOMAIN placed'
          PROVE  placed'[x] % ObjectAlign = 0 /\ placed'[x] + Extent(x) <= Len(buffer')
      <4>1. CASE x = o
        BY <2>2, <2>3, <2>4, <2>5, <4>1
      <4>2. CASE x \in DOMAIN placed
        BY <2>2, <2>3, <2>4, <2>5, <2>9, <4>2
      <4>. QED  BY <2>5, <4>1, <4>2
    <3>2. ASSUME NEW x \in DOMAIN placed
          PROVE  /\ Apart(placed'[x], Extent(x), placed'[o], Extent(o))
                 /\ Apart(placed'[o], Extent(o), placed'[x], Extent(x))
      BY <2>2, <2>3, <2>5, <2>9 DEF Apart
    <3>3. ASSUME NEW x \in DOMAIN placed, NEW y \in DOMAIN placed, x # y
          PROVE  Apart(placed'[x], Extent(x), placed'[y], Extent(y))
      BY <1>2, <2>5, <3>3 DEF PlacesInv
    <3>4. \A x, y \in DOMAIN placed' : x = y \/ Apart(placed'[x], Extent(x), placed'[y], Extent(y))
      BY <2>5, <3>2, <3>3
    <3>. QED  BY <3>1, <3>4 DEF PlacesInv, Extent, Apart
  <2>11. ASSUME NEW i \in 1 .. at + e, buffer'[i] # Pad
         PROVE  \/ i \in 1 .. l /\ buffer'[i] = buffer[i]
                \/ \E k \in 1 .. e : i = at + k /\ buffer'[i] = p + k - 1
    <3>1. CASE i <= l
      <4>1. i \in 1 .. l
        BY <3>1
      <4>. QED  BY <2>4, <4>1
    <3>2. CASE i > l /\ i <= at
      <4>1. i \in 1 .. at
        BY <3>2
      <4>. QED  BY <2>4, <2>11, <3>2, <4>1
    <3>3. CASE i > at
      <4>1. PICK k \in 1 .. e : i = at + k
        <5>1. i - at \in 1 .. e /\ i = at + (i - at)
          BY <2>2, <2>3, <3>3
        <5>. QED  BY <5>1
      <4>. QED  BY <2>4, <4>1
    <3>. QED  BY <2>2, <2>3, <3>1, <3>2, <3>3
  <2>12. \A k \in 1 .. e : Holds(o, p + k - 1)
    BY <2>2 DEF Holds
  <2>13. ASSUME NEW x \in DOMAIN placed', NEW v \in prog.heap, Cat(v.type) = "pointer", Holds(x, v.addr)
         PROVE  buffer'[placed'[x] + (v.addr - x.addr) + 1] = v.addr
    <3>1. v.addr \in Nat
      BY <1>2, ProgramAssumption DEF ProgramAssumption, StateType
    <3>2. CASE x = o
      <4>1. PICK k \in 1 .. e : v.addr = p + k - 1 /\ at + (v.addr - p) + 1 = at + k
        <5>1. v.addr >= p /\ v.addr < p + e
          BY <2>2, <2>13, <3>2 DEF Holds
        <5>2. /\ (v.addr - p) + 1 \in 1 .. e /\ v.addr = p + ((v.addr - p) + 1) - 1
              /\ at + (v.addr - p) + 1 = at + ((v.addr - p) + 1)
          BY <2>2, <2>3, <3>1, <5>1
        <5>. QED  BY <5>2
      <4>2. buffer'[at + k] = p + k - 1
        BY <2>4
      <4>3. placed'[x] + (v.addr - x.addr) + 1 = at + k
        BY <2>2, <2>5, <3>2, <4>1
      <4>. QED  BY <4>1, <4>2, <4>3
    <3>3. CASE x \in DOMAIN placed
      <4>1. buffer[placed[x] + (v.addr - x.addr) + 1] = v.addr
        BY <1>2, <2>13, <3>3 DEF BytesInv
      <4>2. placed[x] + (v.addr - x.addr) + 1 \in 1 .. l
        <5>1. PICK z \in Nat, b \in Nat, w \in Nat : z = placed[x] /\ b = x.addr /\ w = Extent(x) /\ z + w <= l
          BY <2>9, <3>3
        <5>2. v.addr >= b /\ v.addr < b + w
          BY <2>13, <5>1 DEF Holds
        <5>3. PICK c \in Nat : c = v.addr
          BY <3>1
        <5>4. z + (c - b) + 1 \in 1 .. l
          <6>1. /\ z \in Nat /\ b \in Nat /\ w \in Nat /\ c \in Nat /\ l \in Nat
                /\ z + w <= l /\ c >= b /\ c < b + w
            BY <2>2, <5>1, <5>2, <5>3
          <6>. QED  BY <6>1
        <5>. QED  BY <5>1, <5>3, <5>4
      <4>3. placed'[x] = placed[x]
        BY <2>5, <3>3
      <4>. QED  BY <2>4, <4>1, <4>2, <4>3
    <3>. QED  BY <2>5, <3>2, <3>3
  <2>14. ASSUME NEW i \in 1 .. at + e, buffer'[i] # Pad
         PROVE  \E x \in DOMAIN placed' : Holds(x, buffer'[i])
    <3>1. CASE i \in 1 .. l /\ buffer'[i] = buffer[i]
      <4>1. i \in DOMAIN buffer
        BY <2>1, <2>2, <3>1
      <4>2. PICK x \in DOMAIN placed : Holds(x, buffer[i])
        BY <1>2, <2>14, <3>1, <4>1 DEF BytesInv
      <4>. QED  BY <2>5, <3>1, <4>2
    <3>2. CASE \E k \in 1 .. e : i = at + k /\ buffer'[i] = p + k - 1
      BY <2>5, <2>12, <3>2
    <3>. QED  BY <2>11, <2>14, <3>1, <3>2
  <2>15. CopiedOnce'
    <3>1. SUFFICES ASSUME NoPointerInside', NEW i \in 1 .. at + e, NEW j \in 1 .. at + e,
                          buffer'[i] = buffer'[j], buffer'[i] # Pad
                   PROVE  i = j
      <4>1. DOMAIN buffer' = 1 .. at + e
        BY <2>4
      <4>. QED  BY <4>1 DEF CopiedOnce
    <3>2. NoPointerInside
      BY <1>1, <2>6, <3>1 DEF NoPointerInside, Referred, Holds, Extent
    <3>3. \A x \in DOMAIN placed : Apart(x.addr, Extent(x), o.addr, Extent(o))
      <4>1. \A x \in DOMAIN placed : x \in objects /\ x # o
        BY <2>1
      <4>. QED  BY <1>2, <3>2, <4>1 DEF ObjectsInv
    <3>4. ASSUME NEW a \in 1 .. l, buffer[a] # Pad, NEW k \in 1 .. e, buffer[a] = p + k - 1
          PROVE  FALSE
      <4>1. a \in DOMAIN buffer
        BY <2>1, <2>2
      <4>2. PICK x \in DOMAIN placed : Holds(x, buffer[a])
        BY <1>2, <3>4, <4>1 DEF BytesInv
      <4>3. PICK b \in Nat, w \in Nat : b = x.addr /\ w = Extent(x)
        BY <2>9
      <4>4. p + k - 1 >= b /\ p + k - 1 < b + w
        BY <3>4, <4>2, <4>3 DEF Holds
      <4>5. b + w <= p \/ p + e <= b
        BY <2>2, <3>3, <4>3 DEF Apart
      <4>. QED  BY <2>2, <4>3, <4>4, <4>5
    <3>5. CASE (i \in 1 .. l /\ buffer'[i] = buffer[i]) /\ (j \in 1 .. l /\ buffer'[j] = buffer[j])
      <4>1. i \in DOMAIN buffer /\ j \in DOMAIN buffer
        BY <2>1, <2>2, <3>5
      <4>. QED  BY <1>2, <3>1, <3>2, <3>5, <4>1 DEF BytesInv, CopiedOnce
    <3>6. CASE (i \in 1 .. l /\ buffer'[i] = buffer[i]) /\ \E k \in 1 .. e : j = at + k /\ buffer'[j] = p + k - 1
      BY <3>1, <3>4, <3>6
    <3>7. CASE (j \in 1 .. l /\ buffer'[j] = buffer[j]) /\ \E k \in 1 .. e : i = at + k /\ buffer'[i] = p + k - 1
      BY <3>1, <3>4, <3>7
    <3>8. CASE /\ \E k \in 1 .. e : i = at + k /\ buffer'[i] = p + k - 1
               /\ \E k \in 1 .. e : j = at + k /\ buffer'[j] = p + k - 1
      <4>1. PICK k \in 1 .. e, m \in 1 .. e :
              /\ i = at + k /\ buffer'[i] = p + k - 1
              /\ j = at + m /\ buffer'[j] = p + m - 1
        BY <3>8
      <4>2. p + k - 1 = p + m - 1
        BY <3>1, <4>1
      <4>. QED  BY <2>2, <2>3, <4>1, <4>2
    <3>. QED  BY <2>11, <3>1, <3>5, <3>6, <3>7, <3>8
  <2>16. BytesInv'
    <3>1. DOMAIN buffer' = 1 .. at + e
      BY <2>4
    <3>. QED  BY <1>1, <2>13, <2>14, <2>15, <3>1 DEF BytesInv, Holds, Extent
  <2>17. WriteInv'
    <3>1. ASSUME NEW k \in 1 .. Len(refs)  PROVE refs[k].at < at + e /\ refs[k].to < at + e
      <4>1. refs[k].at < l /\ refs[k].to < l
        BY <1>2, <2>2 DEF WriteInv
      <4>2. refs[k].at \in Nat /\ refs[k].to \in Nat
        <5>1. refs[k] \in [at : Nat, to : Nat]
          BY <1>2, ElementOfSeq DEF StateType
        <5>. QED  BY <5>1
      <4>. QED  BY <2>2, <2>3, <4>1, <4>2
    <3>2. RefsInv'
      BY <1>1, <1>2, <1>7, <2>5, RefsKept DEF WriteInv
    <3>. QED  BY <1>1, <1>2, <1>7, <2>4, <2>7, <3>1, <3>2 DEF WriteInv
  <2>. QED  BY <2>6, <2>8, <2>10, <2>16, <2>17 DEF BlitInv
<1>. QED  BY <1>4, <1>5, <1>6, <1>7 DEF WriteObject, written

LEMMA ReferStep ==
  ASSUME BlitInv, Refer
  PROVE  BlitInv'
<1>1. /\ pc = "write" /\ pc' = pc /\ todo # <<>> /\ Call.do = "ref" /\ Call = Head(todo)
      /\ prog' = prog /\ gathered' = gathered /\ buffer' = buffer /\ placed' = placed /\ slots' = slots
      /\ todo' = Tail(todo)
  BY DEF Refer, Doing, Call
<1>2. /\ StateType /\ MembersInv /\ ObjectsInv /\ GatherInv /\ PlacesInv /\ BytesInv /\ WriteInv
      /\ CallsReady
  BY <1>1 DEF BlitInv, WriteInv
<1>3. Call \in CallType /\ Writes(Call) /\ <<>> \o Tail(todo) = Tail(todo)
  BY <1>1, <1>2, NextCall
<1>4. /\ infos' = infos /\ objects' = objects /\ parents' = parents
      /\ RootObject \in objects
      /\ MembersInv' /\ ObjectsInv' /\ GatherInv'
  BY <1>1, <1>2, GatheredKept
<1>5. PlacesInv' /\ BytesInv'
  BY <1>1, <1>2, <1>4, BlockKept
<1>6. todo \in Seq(CallType) /\ refs \in Seq([at : Nat, to : Nat]) /\ Len(buffer) \in Nat
  BY <1>2 DEF StateType
<1>7. todo' \in Seq(CallType) /\ CallsReady'
  <2>1. <<>> \in Seq(CallType) /\ todo' = <<>> \o Tail(todo)
    BY <1>1, <1>3
  <2>2. Head(todo).do # "object"
    BY <1>1
  <2>3. \A i \in 1 .. Len(<<>>) : FALSE
    OBVIOUS
  <2>. QED  BY <1>1, <1>2, <1>4, <1>6, <2>1, <2>2, <2>3, CallsReplaced
<1>8. PICK at \in Nat, o \in ObjectType, delta \in Nat : at = Call.at /\ o = Call.obj /\ delta = Call.delta
  BY <1>1, <1>3, CallFields
<1>9. o \in DOMAIN placed
  <2>1. 1 \in 1 .. Len(todo) /\ todo[1] = Call
    BY <1>1, <1>6
  <2>2. todo[1].do = "ref" => todo[1].obj \in DOMAIN placed \/ (1 > 1 /\ todo[1 - 1] = ObjectOf(todo[1].obj))
    BY <1>2, <2>1 DEF CallsReady
  <2>. QED  BY <1>1, <1>8, <2>1, <2>2
<1>10. at < Len(buffer)
  <2>1. CopiedPointers(at, 1) /\ 1 \in Nat \ {0}
    BY <1>1, <1>3, <1>8 DEF Writes
  <2>. QED  BY <1>2, <2>1, CopiedPointer
<1>11. PICK to \in Nat : to = placed[o] + delta /\ to < Len(buffer)
  <2>1. PICK z \in Nat, e \in Nat, l \in Nat : z = placed[o] /\ e = Extent(o) /\ l = Len(buffer)
    BY <1>2, <1>6, <1>9, ObjectFacts DEF StateType
  <2>2. delta < e /\ z + e <= l
    BY <1>1, <1>2, <1>3, <1>8, <1>9, <2>1 DEF Writes, PlacesInv
  <2>3. z + delta \in Nat /\ z + delta < l
    BY <2>1, <2>2
  <2>. QED  BY <2>1, <2>3
<1>12. PICK r : r = [at |-> at, to |-> to]
  OBVIOUS
<1>13. r \in [at : Nat, to : Nat] /\ r.at = at /\ r.to = to /\ refs' = Append(refs, r)
  BY <1>8, <1>11, <1>12 DEF Refer
<1>14. /\ refs' \in Seq([at : Nat, to : Nat]) /\ Len(refs') = Len(refs) + 1
       /\ \A k \in 1 .. Len(refs') : (k \in 1 .. Len(refs) /\ refs'[k] = refs[k]) \/ refs'[k] = r
  BY <1>6, <1>13
<1>15. StateType'
  BY <1>1, <1>2, <1>4, <1>7, <1>14 DEF StateType
<1>16. WriteInv'
  <2>1. \A k \in 1 .. Len(refs') : refs'[k].at < Len(buffer) /\ refs'[k].to < Len(buffer)
    BY <1>2, <1>10, <1>11, <1>13, <1>14 DEF WriteInv
  <2>2. Leads(r)
    <3>1. delta < Extent(o) /\ PointsInto(at, o, delta)
      BY <1>1, <1>3, <1>8 DEF Writes
    <3>. QED  BY <1>9, <1>11, <1>13, <3>1 DEF Leads
  <2>3. \A q : Leads(q) => Leads(q)'
    BY <1>1 DEF Leads, PointsInto, Holds, Extent
  <2>4. \A k \in 1 .. Len(refs') : Leads(refs'[k])
    BY <1>2, <1>14, <2>2 DEF WriteInv, RefsInv
  <2>5. RefsInv'
    BY <1>1, <2>3, <2>4 DEF RefsInv
  <2>. QED  BY <1>1, <1>2, <1>7, <2>1, <2>5 DEF WriteInv
<1>. QED  BY <1>4, <1>5, <1>15, <1>16 DEF BlitInv

\* The last of the places where something holds.
LEMMA LastOf ==
  ASSUME NEW n \in Nat, NEW S \in SUBSET (1 .. n), S # {}
  PROVE  \E i \in S : \A j \in S : j <= i
<1>. DEFINE A == {n - i : i \in S}
            R == {ss \in Nat \X Nat : ss[1] < ss[2]}
<1>1. A \subseteq Nat /\ A # {}
  <2>1. \A i \in S : i \in 1 .. n /\ n - i \in Nat
    OBVIOUS
  <2>. QED  BY <2>1
<1>2. IsWellFoundedOn(R, Nat)
  BY NatLessThanWellFounded DEF OpToRel
<1>3. PICK a \in A : \A b \in A : ~(<<b, a>> \in R)
  <2>. HIDE DEF A, R
  <2>. QED  BY <1>1, <1>2, WFMin
<1>4. PICK i \in S : n - i = a
  BY <1>3
<1>5. ASSUME NEW j \in S  PROVE j <= i
  <2>1. n - j \in Nat /\ n - i \in Nat /\ n - j \in A /\ i \in 1 .. n /\ j \in 1 .. n
    OBVIOUS
  <2>2. ~(n - j < n - i)
    BY <1>3, <1>4, <2>1
  <2>. QED  BY <2>1, <2>2
<1>. QED  BY <1>5

\* What is set in a pointer is what one of its references says.
LEMMA OffsetsAre ==
  ASSUME NEW S, refs \in Seq(S)
  PROVE  \A at \in DOMAIN Offsets :
           \E i \in 1 .. Len(refs) : refs[i].at = at /\ Offsets[at] = refs[i].to
<1>1. DOMAIN refs = 1 .. Len(refs) /\ Len(refs) \in Nat
  OBVIOUS
<1>2. DOMAIN Offsets = {refs[i].at : i \in DOMAIN refs}
  BY DEF Offsets
<1>3. ASSUME NEW at \in DOMAIN Offsets
      PROVE  \E i \in 1 .. Len(refs) : refs[i].at = at /\ Offsets[at] = refs[i].to
  <2>. DEFINE I == {i \in DOMAIN refs : refs[i].at = at}
              last == CHOOSE i \in DOMAIN refs :
                        refs[i].at = at /\ \A j \in DOMAIN refs : refs[j].at = at => j <= i
  <2>1. I \in SUBSET (1 .. Len(refs)) /\ I # {}
    BY <1>1, <1>2
  <2>2. PICK i \in I : \A j \in I : j <= i
    <3>. HIDE DEF I
    <3>. QED  BY <1>1, <2>1, LastOf
  <2>3. \E k \in DOMAIN refs : refs[k].at = at /\ \A j \in DOMAIN refs : refs[j].at = at => j <= k
    BY <2>2
  <2>4. last \in DOMAIN refs /\ refs[last].at = at
    BY <2>3
  <2>5. Offsets[at] = refs[last].to
    BY <1>2 DEF Offsets
  <2>. QED  BY <1>1, <2>4, <2>5
<1>. QED  BY <1>3

LEMMA SetOffsetsStep ==
  ASSUME BlitInv, SetOffsets
  PROVE  BlitInv'
<1>1. /\ pc = "write" /\ pc' = "written" /\ todo = <<>> /\ slots' = Offsets
      /\ prog' = prog /\ gathered' = gathered /\ todo' = todo
      /\ buffer' = buffer /\ placed' = placed /\ refs' = refs
  BY DEF SetOffsets, written
<1>2. /\ StateType /\ MembersInv /\ ObjectsInv /\ GatherInv /\ PlacesInv /\ BytesInv /\ WriteInv
  BY DEF BlitInv
<1>3. /\ infos' = infos /\ objects' = objects /\ parents' = parents
      /\ RootObject \in objects
      /\ MembersInv' /\ ObjectsInv' /\ GatherInv'
  BY <1>1, <1>2, GatheredKept
<1>4. PlacesInv' /\ BytesInv'
  BY <1>1, <1>2, <1>3, BlockKept
<1>5. StateType'
  BY <1>1, <1>2, <1>3 DEF StateType
<1>6. \A at \in DOMAIN Offsets : at \in Nat /\ Offsets[at] \in Nat
  <2>1. refs \in Seq([at : Nat, to : Nat])
    BY <1>2 DEF StateType
  <2>2. \A i \in 1 .. Len(refs) : refs[i].at \in Nat /\ refs[i].to \in Nat
    <3>1. \A i \in 1 .. Len(refs) : refs[i] \in [at : Nat, to : Nat]
      BY <2>1, ElementOfSeq
    <3>. QED  BY <3>1
  <2>. QED  BY <2>1, <2>2, OffsetsAre
<1>7. RefsInv'
  BY <1>1, <1>2, RefsKept DEF WriteInv
<1>8. WriteInv'
  BY <1>1, <1>2, <1>6, <1>7 DEF WriteInv
<1>. QED  BY <1>3, <1>4, <1>5, <1>8 DEF BlitInv

LEMMA FixupStep ==
  ASSUME BlitInv, Fixup
  PROVE  BlitInv'
<1>. DEFINE At(at) == {i \in DOMAIN refs : refs[i].at = at}
<1>1. /\ pc = "written" /\ pc' = "loaded" /\ DOMAIN slots' = DOMAIN slots
      /\ \A at \in DOMAIN slots : slots'[at] = slots[at] + Base * Cardinality(At(at))
      /\ prog' = prog /\ gathered' = gathered /\ todo' = todo
      /\ buffer' = buffer /\ placed' = placed /\ refs' = refs
  BY DEF Fixup, written
<1>2. /\ StateType /\ MembersInv /\ ObjectsInv /\ GatherInv /\ PlacesInv /\ BytesInv /\ WriteInv
  BY DEF BlitInv
<1>3. /\ infos' = infos /\ objects' = objects /\ parents' = parents
      /\ RootObject \in objects
      /\ MembersInv' /\ ObjectsInv' /\ GatherInv'
  BY <1>1, <1>2, GatheredKept
<1>4. PlacesInv' /\ BytesInv'
  BY <1>1, <1>2, <1>3, BlockKept
<1>5. StateType'
  BY <1>1, <1>2, <1>3 DEF StateType
<1>6. ASSUME NEW at \in DOMAIN slots  PROVE slots'[at] \in Nat
  <2>1. refs \in Seq([at : Nat, to : Nat])
    BY <1>2 DEF StateType
  <2>2. DOMAIN refs = 1 .. Len(refs) /\ Len(refs) \in Nat
    BY <2>1
  <2>3. IsFiniteSet(1 .. Len(refs))
    BY <2>2, FS_Interval
  <2>4. At(at) \subseteq 1 .. Len(refs)
    BY <2>2
  <2>5. Cardinality(At(at)) \in Nat
    <3>. HIDE DEF At
    <3>. QED  BY <2>3, <2>4, FS_Subset, FS_CardinalityType
  <2>6. PICK c \in Nat : c = Cardinality(At(at))
    BY <2>5
  <2>7. Base * c \in Nat
    BY TypeAssumption DEF TypeAssumption
  <2>8. PICK d \in Nat : d = Base * Cardinality(At(at))
    <3>. HIDE DEF At
    <3>. QED  BY <2>6, <2>7
  <2>9. slots[at] \in Nat
    BY <1>2 DEF WriteInv
  <2>. HIDE DEF At
  <2>. QED  BY <1>1, <2>8, <2>9
<1>7. RefsInv'
  BY <1>1, <1>2, RefsKept DEF WriteInv
<1>8. WriteInv'
  BY <1>1, <1>2, <1>6, <1>7 DEF WriteInv
<1>. QED  BY <1>3, <1>4, <1>5, <1>8 DEF BlitInv

\* The part that an offset lies in, of n equal ones.
LEMMA PartOf ==
  ASSUME NEW n \in Nat, NEW s \in Nat \ {0}, NEW d \in Nat, d < n * s
  PROVE  /\ d \div s \in 0 .. n - 1 /\ d % s \in 0 .. s - 1
         /\ d = (d \div s) * s + (d % s) /\ (d \div s) * s + s <= n * s
         /\ (d \div s) * s \in Nat /\ n * s \in Nat
<1>1. PICK q \in Nat, r \in 0 .. s - 1 : q = d \div s /\ r = d % s /\ d = q * s + r
  BY DivMod
<1>2. q < n
  <2>1. SUFFICES ASSUME q >= n  PROVE FALSE
    OBVIOUS
  <2>2. PICK m \in Nat : q = n + m
    <3>1. q - n \in Nat /\ q = n + (q - n)
      BY <2>1
    <3>. QED  BY <3>1
  <2>3. (n + m) * s = n * s + m * s /\ n * s \in Nat /\ m * s \in Nat
    OBVIOUS
  <2>4. PICK x \in Nat, y \in Nat : x = n * s /\ y = m * s
    BY <2>3
  <2>5. d = (x + y) + r /\ d < x
    BY <1>1, <2>2, <2>3, <2>4
  <2>. QED  BY <2>4, <2>5
<1>3. q \in 0 .. n - 1
  BY <1>2
<1>4. q * s \in Nat /\ n * s \in Nat /\ q * s + s <= n * s
  BY <1>3, PartFits
<1>. QED  BY <1>1, <1>3, <1>4

\* Where the bytes of elements come from when these are swapped.
LEMMA ReversedTwice ==
  ASSUME NEW at \in Nat, NEW s \in Nat \ {0}, NEW n \in Nat, NEW k \in at .. at + n * s - 1
  PROVE  /\ Reversed(at, s, n, k) \in at .. at + n * s - 1
         /\ Reversed(at, s, n, Reversed(at, s, n, k)) = k
<1>1. PICK w \in Nat : w = n * s
  <2>1. n * s \in Nat
    OBVIOUS
  <2>. QED  BY <2>1
<1>2. PICK d \in Nat : k = at + d /\ d < w /\ k - at = d
  <2>1. k - at \in Nat /\ k = at + (k - at) /\ k - at < w
    BY <1>1
  <2>. QED  BY <2>1
<1>3. PICK q \in Nat, r \in 0 .. s - 1 : d % s = r /\ d = q * s + r /\ q * s + s <= w /\ q * s \in Nat
  <2>1. d < n * s
    BY <1>1, <1>2
  <2>2. /\ d % s \in 0 .. s - 1
        /\ d = (d \div s) * s + (d % s) /\ (d \div s) * s + s <= n * s
        /\ (d \div s) * s \in Nat
    BY <2>1, PartOf
  <2>3. PICK q \in Nat, r \in 0 .. s - 1 : q = d \div s /\ r = d % s
    BY <2>2, DivMod
  <2>4. d % s = r /\ d = q * s + r /\ q * s + s <= n * s /\ q * s \in Nat
    BY <2>2, <2>3
  <2>. QED  BY <1>1, <2>4
<1>4. PICK x \in Nat : x = q * s
  BY <1>3
<1>5. PICK r2 \in 0 .. s - 1 : r2 = s - 1 - r
  <2>1. s - 1 - r \in 0 .. s - 1
    OBVIOUS
  <2>. QED  BY <2>1
<1>6. PICK k2 \in Nat : k2 = at + (x + r2)
  <2>1. at + (x + r2) \in Nat
    OBVIOUS
  <2>. QED  BY <2>1
<1>7. k2 = Reversed(at, s, n, k) /\ k2 \in at .. at + w - 1
  <2>1. Reversed(at, s, n, k) = k - r + (s - 1 - r)
    BY <1>2, <1>3 DEF Reversed
  <2>2. k = at + (x + r) /\ x + s <= w
    BY <1>2, <1>3, <1>4
  <2>3. k - r + (s - 1 - r) = k2 /\ k2 \in at .. at + w - 1
    BY <1>5, <1>6, <2>2
  <2>. QED  BY <2>1, <2>3
<1>8. Reversed(at, s, n, k2) = k
  <2>1. (q * s + r2) % s = r2
    BY DivModUnique
  <2>2. k2 - at = x + r2
    BY <1>6
  <2>3. (k2 - at) % s = r2
    BY <1>4, <2>1, <2>2
  <2>4. Reversed(at, s, n, k2) = k2 - r2 + (s - 1 - r2)
    BY <2>3 DEF Reversed
  <2>5. k = at + (x + r)
    BY <1>2, <1>3, <1>4
  <2>6. k2 - r2 + (s - 1 - r2) = k
    BY <1>5, <1>6, <2>5
  <2>. QED  BY <2>4, <2>6
<1>. QED  BY <1>1, <1>7, <1>8

LEMMA SwapStep ==
  ASSUME BlitInv, Swap
  PROVE  BlitInv'
<1>1. /\ pc = "write" /\ pc' = pc /\ todo # <<>> /\ Call.do = "swap" /\ Call = Head(todo)
      /\ prog' = prog /\ gathered' = gathered /\ placed' = placed /\ refs' = refs /\ slots' = slots
      /\ todo' = Tail(todo)
  BY DEF Swap, Doing, Call
<1>2. /\ StateType /\ MembersInv /\ ObjectsInv /\ GatherInv /\ PlacesInv /\ BytesInv /\ WriteInv
      /\ CallsReady
  BY <1>1 DEF BlitInv, WriteInv
<1>3. Call \in CallType /\ Writes(Call) /\ <<>> \o Tail(todo) = Tail(todo)
  BY <1>1, <1>2, NextCall
<1>4. /\ infos' = infos /\ objects' = objects /\ parents' = parents
      /\ RootObject \in objects
      /\ MembersInv' /\ ObjectsInv' /\ GatherInv'
  BY <1>1, <1>2, GatheredKept
<1>5. todo \in Seq(CallType) /\ buffer \in Seq(Int) /\ prog \in Programs
  BY <1>2 DEF StateType
<1>6. todo' \in Seq(CallType) /\ CallsReady'
  <2>1. <<>> \in Seq(CallType) /\ todo' = <<>> \o Tail(todo)
    BY <1>1, <1>3
  <2>2. Head(todo).do # "object"
    BY <1>1
  <2>3. \A i \in 1 .. Len(<<>>) : FALSE
    OBVIOUS
  <2>. QED  BY <1>1, <1>2, <1>4, <1>5, <2>1, <2>2, <2>3, CallsReplaced
<1>7. PICK t \in DOMAIN Types, n \in Nat : t = Call.type /\ n = Call.n
  BY <1>1, <1>3, CallFields
<1>8. Cat(t) = "number" /\ Copied(Call.at, t, n)
  BY <1>1, <1>3, <1>7 DEF Writes
<1>9. PICK o \in DOMAIN placed, a \in Nat :
        /\ Call.at = placed[o] + (a - o.addr) /\ o.addr <= a
        /\ a + n * Size(t) <= o.addr + Extent(o) /\ Live(t, a, n)
  BY <1>8 DEF Copied
<1>10. PICK s \in Nat \ {0}, w \in Nat, l \in Nat : s = Size(t) /\ w = n * s /\ l = Len(buffer)
  <2>1. PICK s \in Nat \ {0} : s = Size(t)
    BY TypeFacts
  <2>2. n * s \in Nat /\ Len(buffer) \in Nat
    BY <1>5
  <2>. QED  BY <2>1, <2>2
<1>11. ASSUME NEW x \in DOMAIN placed
       PROVE  placed[x] \in Nat /\ x.addr \in Nat /\ Extent(x) \in Nat \ {0} /\ placed[x] + Extent(x) <= l
  <2>1. x \in ObjectType /\ placed[x] \in Nat
    BY <1>2 DEF StateType
  <2>. QED  BY <1>2, <1>10, <2>1, ObjectFacts DEF PlacesInv
<1>12. PICK z \in Nat, b \in Nat, e \in Nat : z = placed[o] /\ b = o.addr /\ e = Extent(o)
  BY <1>11
<1>13. b <= a /\ a + w <= b + e /\ z + e <= l
  BY <1>9, <1>10, <1>11, <1>12
<1>14. PICK at \in Nat : at = Call.at /\ at = z + (a - b)
  <2>1. z + (a - b) \in Nat
    BY <1>13
  <2>. QED  BY <1>9, <1>12, <2>1
<1>. DEFINE from(k) == IF prog.big /\ k - 1 \in at .. at + w - 1
                       THEN Reversed(at, s, n, k - 1) + 1 ELSE k
<1>15. ASSUME NEW k \in 1 .. l
       PROVE  from(k) \in 1 .. l /\ from(from(k)) = k /\ (k - 1 \notin at .. at + w - 1 => from(k) = k)
  <2>1. CASE prog.big /\ k - 1 \in at .. at + w - 1
    <3>1. PICK i \in at .. at + w - 1 : i = k - 1
      BY <2>1
    <3>2. PICK j \in at .. at + w - 1 : j = Reversed(at, s, n, i) /\ Reversed(at, s, n, j) = i
      <4>1. i \in at .. at + n * s - 1
        BY <1>10
      <4>2. Reversed(at, s, n, i) \in at .. at + n * s - 1 /\ Reversed(at, s, n, Reversed(at, s, n, i)) = i
        BY <4>1, ReversedTwice
      <4>. QED  BY <1>10, <4>2
    <3>3. from(k) = j + 1
      BY <2>1, <3>1, <3>2
    <3>4. (j + 1) - 1 = j /\ i + 1 = k
      BY <3>1
    <3>5. from(j + 1) = i + 1
      BY <2>1, <3>2, <3>4
    <3>6. j + 1 \in 1 .. l
      <4>1. at + w <= l
        BY <1>13, <1>14
      <4>. QED  BY <4>1
    <3>. QED  BY <2>1, <3>3, <3>4, <3>5, <3>6
  <2>2. CASE ~(prog.big /\ k - 1 \in at .. at + w - 1)
    <3>1. from(k) = k
      BY <2>2
    <3>. QED  BY <3>1
  <2>. QED  BY <2>1, <2>2
<1>16. /\ buffer' \in Seq(Int) /\ Len(buffer') = l
       /\ \A k \in 1 .. l : buffer'[k] = buffer[from(k)]
  <2>1. DOMAIN buffer = 1 .. l /\ \A k \in 1 .. l : buffer[k] \in Int
    BY <1>5, <1>10
  <2>2. CASE ~prog.big
    <3>1. buffer' = buffer
      BY <2>2 DEF Swap
    <3>. QED  BY <1>5, <1>10, <2>2, <3>1
  <2>3. CASE prog.big
    <3>1. buffer' = [k \in 1 .. l |-> IF k - 1 \in at .. at + w - 1
                                      THEN buffer[Reversed(at, s, n, k - 1) + 1] ELSE buffer[k]]
      BY <1>7, <1>10, <1>14, <2>1, <2>3 DEF Swap
    <3>2. \A k \in 1 .. l : buffer'[k] = buffer[from(k)]
      BY <2>3, <3>1
    <3>3. \A k \in 1 .. l : buffer'[k] \in Int
      <4>. HIDE DEF from
      <4>. QED  BY <1>15, <2>1, <3>2
    <3>4. DOMAIN buffer' = 1 .. l /\ buffer' = [k \in 1 .. l |-> buffer'[k]]
      BY <3>1
    <3>5. buffer' \in [1 .. l -> Int]
      BY <3>3, <3>4
    <3>. HIDE DEF from
    <3>. QED  BY <1>10, <3>2, <3>5
  <2>. QED  BY <2>2, <2>3
<1>. HIDE DEF from
\* No pointer is among the numbers.
<1>17. ASSUME NEW x \in DOMAIN placed, NEW v \in prog.heap, Cat(v.type) = "pointer", Holds(x, v.addr)
       PROVE  /\ placed[x] + (v.addr - x.addr) + 1 \in 1 .. l
              /\ (placed[x] + (v.addr - x.addr) + 1) - 1 \notin at .. at + w - 1
  <2>1. PICK y \in Nat, c \in Nat, f \in Nat, p \in Nat :
          y = placed[x] /\ c = x.addr /\ f = Extent(x) /\ p = v.addr
    <3>1. v.addr \in Nat
      BY <1>5, ProgramAssumption DEF ProgramAssumption
    <3>. QED  BY <1>11, <3>1
  <2>2. p >= c /\ p < c + f /\ y + f <= l
    BY <1>11, <1>17, <2>1 DEF Holds
  <2>3. y + (p - c) + 1 \in 1 .. l
    BY <2>2
  <2>4. (y + (p - c) + 1) - 1 \notin at .. at + w - 1
    <3>1. SUFFICES ASSUME y + (p - c) >= at, y + (p - c) < at + w  PROVE FALSE
      BY <2>2
    <3>2. CASE x # o
      <4>1. Apart(placed[o], Extent(o), placed[x], Extent(x))
        BY <1>2, <3>2 DEF PlacesInv
      <4>2. z + e <= y \/ y + f <= z
        BY <1>12, <2>1, <4>1 DEF Apart
      <4>3. y + (p - c) >= y /\ y + (p - c) < y + f /\ at >= z /\ at + w <= z + e
        BY <1>13, <1>14, <2>2
      <4>4. PICK g \in Nat : g = y + (p - c)
        <5>1. y + (p - c) \in Nat
          BY <2>2
        <5>. QED  BY <5>1
      <4>. QED  BY <3>1, <4>2, <4>3, <4>4
    <3>3. CASE x = o
      <4>1. y = z /\ c = b
        BY <1>12, <2>1, <3>3
      <4>2. p >= a /\ p < a + w
        BY <1>13, <1>14, <3>1, <4>1
      <4>3. PICK d \in Nat : p = a + d /\ d < w
        <5>1. p - a \in Nat /\ p = a + (p - a) /\ p - a < w
          BY <4>2
        <5>. QED  BY <5>1
      <4>4. PICK q \in 0 .. n - 1, r \in 0 .. s - 1 : d = q * s + r
        <5>1. d < n * s
          BY <1>10, <4>3
        <5>2. d \div s \in 0 .. n - 1 /\ d % s \in 0 .. s - 1 /\ d = (d \div s) * s + (d % s)
          BY <5>1, PartOf
        <5>. QED  BY <5>2
      <4>5. PICK u \in Nat : u = q * s
        <5>1. q * s \in Nat
          OBVIOUS
        <5>. QED  BY <5>1
      <4>6. [type |-> t, addr |-> a + u] \in prog.heap
        <5>1. [type |-> t, addr |-> a + q * Size(t)] \in prog.heap
          BY <1>9, ValueAt DEF Live
        <5>. QED  BY <1>10, <4>5, <5>1
      <4>7. PICK h \in prog.heap : h = [type |-> t, addr |-> a + u]
        BY <4>6
      <4>8. Apart(h.addr, Size(h.type), v.addr, Size(v.type))
        <5>1. h # v /\ Cat(h.type) # "class" /\ Cat(v.type) # "class"
          BY <1>8, <1>17, <4>7
        <5>. QED  BY <1>5, <5>1, ProgramAssumption DEF ProgramAssumption
      <4>9. PICK g \in Nat \ {0} : g = Size(v.type)
        <5>1. v.type \in DOMAIN Types
          BY <1>5, ProgramAssumption DEF ProgramAssumption
        <5>. QED  BY <5>1, TypeFacts
      <4>10. (a + u) + s <= p \/ p + g <= a + u
        BY <1>10, <2>1, <4>7, <4>8, <4>9 DEF Apart
      <4>11. p = a + (u + r)
        BY <4>3, <4>4, <4>5
      <4>. QED  BY <4>10, <4>11
    <3>. QED  BY <3>2, <3>3
  <2>. QED  BY <2>1, <2>3, <2>4
<1>18. PlacesInv'
  <2>1. Len(buffer') = Len(buffer)
    BY <1>10, <1>16
  <2>. QED  BY <1>1, <1>2, <2>1 DEF PlacesInv, Extent, Apart
<1>19. CopiedOnce'
  <2>1. SUFFICES ASSUME NoPointerInside', NEW i \in 1 .. l, NEW j \in 1 .. l,
                        buffer'[i] = buffer'[j], buffer'[i] # Pad
                 PROVE  i = j
    <3>1. DOMAIN buffer' = 1 .. l
      BY <1>16
    <3>. QED  BY <3>1 DEF CopiedOnce
  <2>2. NoPointerInside
    BY <1>1, <1>4, <2>1 DEF NoPointerInside, Referred, Holds, Extent
  <2>3. PICK f \in DOMAIN buffer, g \in DOMAIN buffer : f = from(i) /\ g = from(j)
    <3>1. from(i) \in 1 .. l /\ from(j) \in 1 .. l /\ DOMAIN buffer = 1 .. l
      BY <1>5, <1>10, <1>15
    <3>. QED  BY <3>1
  <2>4. buffer[f] = buffer[g] /\ buffer[f] # Pad
    BY <1>16, <2>1, <2>3
  <2>5. f = g
    BY <1>2, <2>2, <2>4 DEF BytesInv, CopiedOnce
  <2>6. from(f) = i /\ from(g) = j
    BY <1>15, <2>3
  <2>. QED  BY <2>5, <2>6
<1>20. ASSUME NEW i \in 1 .. l, buffer'[i] # Pad
       PROVE  \E x \in DOMAIN placed : Holds(x, buffer'[i])
  <2>1. from(i) \in DOMAIN buffer
    BY <1>5, <1>10, <1>15
  <2>2. buffer'[i] = buffer[from(i)]
    BY <1>16
  <2>. QED  BY <1>2, <1>20, <2>1, <2>2 DEF BytesInv
<1>21. ASSUME NEW x \in DOMAIN placed, NEW v \in prog.heap, Cat(v.type) = "pointer", Holds(x, v.addr)
       PROVE  buffer'[placed[x] + (v.addr - x.addr) + 1] = v.addr
  <2>1. PICK k \in 1 .. l : k = placed[x] + (v.addr - x.addr) + 1 /\ k - 1 \notin at .. at + w - 1
    BY <1>17, <1>21
  <2>2. buffer[k] = v.addr
    BY <1>2, <1>21, <2>1 DEF BytesInv
  <2>3. buffer'[k] = buffer[k]
    BY <1>15, <1>16, <2>1
  <2>. QED  BY <2>1, <2>2, <2>3
<1>22. BytesInv'
  <2>1. DOMAIN buffer' = 1 .. l
    BY <1>16
  <2>. QED  BY <1>1, <1>19, <1>20, <1>21, <2>1 DEF BytesInv, Holds, Extent
<1>23. StateType'
  BY <1>1, <1>2, <1>4, <1>6, <1>16 DEF StateType
<1>24. RefsInv'
  BY <1>1, <1>2, RefsKept DEF WriteInv
<1>25. WriteInv'
  BY <1>1, <1>2, <1>6, <1>10, <1>16, <1>24 DEF WriteInv
<1>. QED  BY <1>4, <1>18, <1>22, <1>23, <1>25 DEF BlitInv

-----------------------------------------------------------------------------
(* The invariant.                                                          *)

LEMMA Stutter ==
  ASSUME BlitInv, UNCHANGED vars
  PROVE  BlitInv'
<1>1. /\ prog' = prog /\ infos' = infos /\ objects' = objects /\ parents' = parents /\ todo' = todo
      /\ buffer' = buffer /\ placed' = placed /\ refs' = refs /\ slots' = slots /\ pc' = pc
  BY DEF vars, gathered, written
<1>2. /\ StateType /\ MembersInv /\ ObjectsInv /\ GatherInv /\ PlacesInv /\ BytesInv /\ WriteInv
  BY DEF BlitInv
<1>3. StateType'
  BY <1>1, <1>2 DEF StateType
<1>4. MembersInv'
  BY <1>1, <1>2 DEF MembersInv, IsField, MemberOf
<1>5. ObjectsInv'
  BY <1>1, <1>2 DEF ObjectsInv, Live, Referred, NoPointerInside, Holds, Apart, Extent
<1>6. PlacesInv' /\ BytesInv'
  BY <1>1, <1>2, BlockKept
<1>7. CallsReady => CallsReady'
  <2>1. \A c : Writes(c) => Writes(c)'
    BY <1>1, WritesKept
  <2>. QED  BY <1>1, <2>1 DEF CallsReady
<1>8. WriteInv'
  <2>1. RefsInv'
    BY <1>1, <1>2, RefsKept DEF WriteInv, RefsInv
  <2>. QED  BY <1>1, <1>2, <1>7, <2>1 DEF WriteInv
<1>9. GatherInv'
  <2>1. ASSUME NEW lv, Levels(lv)  PROVE Levels(lv)'
    <3>1. ASSUME NEW c, NEW i, NEW k, NEW m, Level(c, i, k, m)  PROVE Level(c, i, k, m)'
      BY <1>1, <3>1 DEF Level, Gathers, Live, Below
    <3>. QED  BY <1>1, <2>1, <3>1 DEF Levels
  <2>2. (\E lv \in [1 .. Len(todo) + 1 -> 0 .. Len(parents)] : Levels(lv)) =>
          \E lv \in [1 .. Len(todo') + 1 -> 0 .. Len(parents')] : Levels(lv)'
    BY <1>1, <2>1
  <2>. QED  BY <1>1, <1>2, <2>2 DEF GatherInv, RootObject, Live
<1>. QED  BY <1>3, <1>4, <1>5, <1>6, <1>8, <1>9 DEF BlitInv

\* Whatever the types and the program are, what has been gathered and written is
\* described by the invariant.
THEOREM BlitInvariant == Spec => []BlitInv
<1>1. Init => BlitInv
  BY InitStep
<1>2. BlitInv /\ [Next]_vars => BlitInv'
  <2>. SUFFICES ASSUME BlitInv, [Next]_vars  PROVE BlitInv'
    OBVIOUS
  <2>1. CASE Blit
    BY <2>1, BlitStep
  <2>2. CASE BlitArea
    BY <2>2, BlitAreaStep
  <2>3. CASE EndArea
    BY <2>3, EndAreaStep
  <2>4. CASE WriteOut
    BY <2>4, WriteOutStep
  <2>5. CASE WriteObject
    BY <2>5, WriteObjectStep
  <2>6. CASE Pointers
    BY <2>6, PointersStep
  <2>7. CASE Members
    BY <2>7, MembersStep
  <2>8. CASE Follow
    BY <2>8, FollowStep
  <2>9. CASE Swap
    BY <2>9, SwapStep
  <2>10. CASE Refer
    BY <2>10, ReferStep
  <2>11. CASE SetOffsets
    BY <2>11, SetOffsetsStep
  <2>12. CASE Fixup
    BY <2>12, FixupStep
  <2>13. CASE UNCHANGED vars
    BY <2>13, Stutter
  <2>. QED  BY <2>1, <2>2, <2>3, <2>4, <2>5, <2>6, <2>7, <2>8, <2>9, <2>10, <2>11, <2>12, <2>13 DEF Next
<1>. QED  BY <1>1, <1>2, PTL DEF Spec

\* The members recorded of a class lie in it, what is written has been gathered, and
\* every pointer that write_out_object notes is in the block and leads into it.
THEOREM BlitTypeCorrect == Spec => []TypeOK
<1>1. BlitInv => TypeOK
  <2>. SUFFICES ASSUME BlitInv  PROVE TypeOK
    OBVIOUS
  <2>1. StateType /\ MembersInv /\ WriteInv
    BY DEF BlitInv
  <2>2. ASSUME NEW t \in DOMAIN Types, NEW m \in ToSet(infos[t].members)
        PROVE  m.type \in DOMAIN Types /\ m.off \in 0 .. Size(t) - 1
    <3>1. infos[t].members \in Seq(MemberType)
      BY <2>1 DEF StateType
    <3>2. PICK k \in 1 .. Len(infos[t].members) : m = infos[t].members[k]
      BY <3>1 DEF ToSet
    <3>3. PICK i \in DOMAIN Types[t].fields : m = MemberOf(Types[t].fields[i])
      BY <2>1, <3>2 DEF MembersInv, IsField
    <3>4. PICK f : f = Types[t].fields[i]
      OBVIOUS
    <3>5. /\ f.type \in DOMAIN Types /\ f.off \in Nat /\ Count(f) \in Nat \ {0}
          /\ f.off + Count(f) * Size(f.type) <= Size(t)
      BY <3>4, FieldFacts
    <3>6. PICK off \in Nat, n \in Nat \ {0}, s \in Nat \ {0}, size \in Nat :
            off = f.off /\ n = Count(f) /\ s = Size(f.type) /\ size = Size(t)
      BY <3>5, TypeFacts
    <3>7. n * s \in Nat \ {0}
      OBVIOUS
    <3>8. PICK w \in Nat \ {0} : w = n * s
      BY <3>7
    <3>9. off \in 0 .. size - 1
      <4>1. off + w <= size
        BY <3>5, <3>6, <3>8
      <4>. QED  BY <4>1
    <3>. QED  BY <3>3, <3>4, <3>5, <3>6, <3>9 DEF MemberOf
  <2>3. ASSUME NEW r \in ToSet(refs)
        PROVE  r.at \in 0 .. Len(buffer) - 1 /\ r.to \in 0 .. Len(buffer) - 1
    <3>1. refs \in Seq([at : Nat, to : Nat]) /\ Len(buffer) \in Nat
      BY <2>1 DEF StateType
    <3>2. PICK k \in 1 .. Len(refs) : r = refs[k]
      BY <3>1 DEF ToSet
    <3>3. r \in [at : Nat, to : Nat]
      BY <3>1, <3>2, ElementOfSeq
    <3>4. r.at < Len(buffer) /\ r.to < Len(buffer)
      BY <2>1, <3>2 DEF WriteInv
    <3>. QED  BY <3>1, <3>3, <3>4
  <2>4. \A o \in objects : o.type \in DOMAIN Types /\ o.addr \in Nat /\ o.n \in Nat
    BY <2>1 DEF StateType, ObjectType
  <2>. QED  BY <2>1, <2>2, <2>3, <2>4 DEF TypeOK, StateType, WriteInv
<1>. QED  BY <1>1, BlitInvariant, PTL

\* write_out_object begins every object at a multiple of the alignment of its class.
THEOREM BlitCopiesAligned == Spec => []CopiesAligned
<1>1. BlitInv => CopiesAligned
  BY DEF BlitInv, PlacesInv, CopiesAligned
<1>. QED  BY <1>1, BlitInvariant, PTL

\* Where no pointer leads into the middle of an object, no byte of memory is written
\* twice: an object that several pointers refer to is found by find_object_at and
\* written once, and the numbers that are swapped stay apart.
THEOREM BlitCopiedOnce == Spec => []CopiedOnce
<1>1. BlitInv => CopiedOnce
  BY DEF BlitInv, BytesInv
<1>. QED  BY <1>1, BlitInvariant, PTL

\* A pointer that set_offsets has set leads to the copy of what it referred to.
PointersLead ==
  pc = "written" =>
    \A o \in DOMAIN placed : \A v \in DOMAIN prog.memory :
      Holds(o, v) /\ placed[o] + v - o.addr \in DOMAIN slots =>
        \E x \in DOMAIN placed :
          /\ Holds(x, prog.memory[v])
          /\ slots[placed[o] + v - o.addr] = placed[x] + prog.memory[v] - x.addr

\* Whatever the shape of memory, the objects written on the way, and the references
\* from one place, what set_offsets stores in a pointer of the block is the offset
\* at which the copy of what the pointer referred to begins, or lies.
THEOREM BlitPointersLead == Spec => []PointersLead
<1>1. BlitInv => PointersLead
  <2>. SUFFICES ASSUME BlitInv, pc = "written", NEW o \in DOMAIN placed,
                       NEW v \in DOMAIN prog.memory, Holds(o, v),
                       NEW at, at = placed[o] + v - o.addr, at \in DOMAIN slots
                PROVE  \E x \in DOMAIN placed :
                         /\ Holds(x, prog.memory[v])
                         /\ slots[at] = placed[x] + prog.memory[v] - x.addr
    BY DEF PointersLead
  <2>1. StateType /\ PlacesInv /\ RefsInv /\ slots = Offsets
    BY DEF BlitInv, WriteInv, RefsInv
  <2>2. PICK i \in 1 .. Len(refs) : refs[i].at = at /\ slots[at] = refs[i].to
    BY <2>1, OffsetsAre DEF StateType
  <2>3. PICK x \in DOMAIN placed, delta \in Nat :
          delta < Extent(x) /\ slots[at] = placed[x] + delta /\ PointsInto(at, x, delta)
    BY <2>1, <2>2 DEF RefsInv, Leads
  <2>4. PICK y \in DOMAIN placed, w \in DOMAIN prog.memory :
          Holds(y, w) /\ at = placed[y] + (w - y.addr) /\ prog.memory[w] = x.addr + delta
    BY <2>3 DEF PointsInto
  <2>5. ASSUME NEW q \in DOMAIN placed
        PROVE  placed[q] \in Nat /\ q.addr \in Nat /\ Extent(q) \in Nat
    BY <2>1, ObjectFacts DEF StateType
  <2>6. ASSUME NEW u \in DOMAIN prog.memory  PROVE u \in Nat
    <3>1. DOMAIN prog.memory = {q.addr : q \in {p \in prog.heap : Cat(p.type) = "pointer"}}
      BY <2>1, ProgramAssumption DEF ProgramAssumption, StateType
    <3>2. PICK q \in prog.heap : u = q.addr
      BY <3>1
    <3>. QED  BY <2>1, <3>2, ProgramAssumption DEF ProgramAssumption, StateType
  <2>7. PICK z \in Nat, b \in Nat, e \in Nat, c \in Nat :
          z = placed[o] /\ b = o.addr /\ e = Extent(o) /\ c = v
    BY <2>5, <2>6
  <2>8. PICK g \in Nat, h \in Nat, f \in Nat, d \in Nat :
          g = placed[y] /\ h = y.addr /\ f = Extent(y) /\ d = w
    BY <2>5, <2>6
  <2>9. /\ c >= b /\ c < b + e /\ at = z + c - b
        /\ d >= h /\ d < h + f /\ at = g + (d - h)
    BY <2>4, <2>7, <2>8 DEF Holds
  <2>10. o = y
    <3>1. o = y \/ z + e <= g \/ g + f <= z
      BY <2>1, <2>7, <2>8 DEF PlacesInv, Apart
    <3>2. ~(z + e <= g \/ g + f <= z)
      BY <2>9
    <3>. QED  BY <3>1, <3>2
  <2>11. v = w
    <3>1. z = g /\ b = h
      BY <2>7, <2>8, <2>10
    <3>2. c = d
      BY <2>9, <3>1
    <3>. QED  BY <2>7, <2>8, <3>2
  <2>12. PICK k \in Nat, m \in Nat, n \in Nat : k = x.addr /\ m = Extent(x) /\ n = placed[x]
    BY <2>5
  <2>13. Holds(x, prog.memory[v]) /\ slots[at] = placed[x] + prog.memory[v] - x.addr
    <3>1. k + delta >= k /\ k + delta < k + m /\ n + delta = n + (k + delta) - k
      BY <2>3, <2>12
    <3>. QED  BY <2>3, <2>4, <2>11, <2>12, <3>1 DEF Holds
  <2>. QED  BY <2>13
<1>. QED  BY <1>1, BlitInvariant, PTL

=============================================================================
