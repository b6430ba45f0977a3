----------------------------- MODULE ByteStream -----------------------------
(***************************************************************************)
(* What a source of pulmotor promises its user: a stream of a known        *)
(* length with a cursor.  fetch(n) hands out the next n bytes, or what is  *)
(* left of them, and advance(n) skips n bytes; a request is answered in    *)
(* one step.  A byte is represented by its position in the stream.         *)
(***************************************************************************)
EXTENDS Integers

VARIABLES
  length,   \* size()
  pos,      \* offset()
  pending,  \* the request being served, [op, n], or no request
  got       \* the bytes the last request delivered, as a function 0 .. k-1

vars == <<length, pos, pending, got>>

None    == [op |-> "none", n |-> 0]
Nothing == <<>>

Init == length \in Nat /\ pos = 0 /\ pending = None /\ got = Nothing

\* A source may be opened and closed; each time it starts from a position.
Attach == /\ pending = None /\ UNCHANGED pending
          /\ length' \in Nat /\ pos' \in 0 .. length'
          /\ got' = Nothing

Request == /\ pending = None
           /\ pending' \in [op : {"fetch", "advance"}, n : Nat]
           /\ pending'.op = "advance" => pending'.n <= length - pos
           /\ got' = Nothing
           /\ UNCHANGED <<length, pos>>

Left == length - pos
Answer ==
  LET k == IF pending.n < Left THEN pending.n ELSE Left IN
  /\ pending # None
  /\ pending' = None
  /\ pos' = pos + k
  /\ got' = IF pending.op = "fetch" THEN [i \in 0 .. k - 1 |-> pos + i] ELSE Nothing
  /\ UNCHANGED length

Next == Attach \/ Request \/ Answer

SafeSpec == Init /\ [][Next]_vars
\* A request is answered.
Spec == SafeSpec /\ WF_vars(Answer)
=============================================================================
