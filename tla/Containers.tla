----------------------------- MODULE Containers -----------------------------
(***************************************************************************)
(* Values made of other values: classes with members and base classes,     *)
(* arrays of classes (serialize.hpp), std::vector, std::map, std::string,  *)
(* std::pair and std::unique_ptr (std/).  A value is read onto a variable  *)
(* that holds another one already, and the code of a class, or an          *)
(* allocation, may throw at any depth: what the containers hold then, and  *)
(* who owns the objects unique_ptr allocates, is the subject.              *)
(*                                                                         *)
(* How a single object is prefixed and constructed is ObjectStream's       *)
(* subject; where the bytes are, ArchiveLayout's.                          *)
(*                                                                         *)
(* A definition marked "Slip" is not part of the model: it is a mistake    *)
(* that could be made in the definition after it, kept to test that the    *)
(* properties notice it.                                                   *)
(***************************************************************************)
EXTENDS Integers, Sequences, SequencesExt

CONSTANTS
  Programs,   \* a sequence of [type, values]: a type and values of it
  MaxLoads    \* how often the variable is read onto

(* Types: [c |-> "number"], [c |-> "string"],                              *)
(* [c |-> "class", versioned, wants, of |-> <<types of members, bases>>],  *)
(* [c |-> "array", of, n], [c |-> "vector", of], [c |-> "map", of] with    *)
(* numbers as keys, [c |-> "unique", of].                                  *)
(* Values: numbers; sequences of members, elements, characters; sequences  *)
(* of <<key, value>>; for unique, <<>> (null) or <<object>>.               *)
NumberT == [c |-> "number"]
Wants(T) == T.c = "class" /\ T.wants
Pair(A, B) == [c |-> "class", versioned |-> FALSE, wants |-> FALSE, of |-> <<A, B>>]

VARIABLES
  prog,      \* the program
  root,      \* the value of its variable
  wanted,    \* the value being read, or read last
  before,    \* what the variable held then
  stream,    \* the tokens that were written for it
  pos,       \* how many of them are read
  frames,    \* the calls of the reader, the innermost first
  live,      \* how many objects unique_ptr holds or has lost
  dropped,   \* how many of them an exception took the only pointer to
  pc, loads

vars == <<prog, root, wanted, before, stream, pos, frames, live, dropped, pc, loads>>

Type == Programs[prog].type

RECURSIVE Default(_)
Default(T) ==
  CASE T.c = "number" -> 0
    [] T.c = "class"  -> [i \in DOMAIN T.of |-> Default(T.of[i])]
    [] T.c = "array"  -> [i \in 1 .. T.n |-> Default(T.of)]
    [] T.c \in {"string", "vector", "map", "unique"} -> <<>>

-----------------------------------------------------------------------------
(* Writing: s_serializable of a value, and serialize_save of containers.   *)

Prefix(null) == [t |-> "prefix", null |-> null]
Size(n)      == [t |-> "size", n |-> n]
Data(x)      == [t |-> "data", x |-> x]

RECURSIVE Prefixed(_)
Prefixed(T) == CASE T.c = "class"  -> T.versioned
                 [] T.c = "array"  -> T.of.c # "array" /\ Prefixed(T.of)
                 [] T.c \in {"vector", "map", "unique"} -> TRUE
                 [] T.c \in {"number", "string"} -> FALSE

\* An element of an array is bare, a row of an array of arrays is not.
Element(T) == IF T.of.c = "array" THEN "place" ELSE "bare"

RECURSIVE Body(_, _)
ByValue(T, v) == (IF Prefixed(T) THEN <<Prefix(FALSE)>> ELSE <<>>) \o Body(T, v)
Body(T, v) ==
  CASE T.c = "number" -> <<Data(v)>>
    [] T.c = "string" -> <<Size(Len(v))>> \o IF v = <<>> THEN <<>> ELSE <<Data(v)>>
    [] T.c = "class"  -> FlattenSeq([i \in DOMAIN v |-> ByValue(T.of[i], v[i])])
    [] T.c = "array"  -> FlattenSeq([i \in DOMAIN v |-> IF Element(T) = "bare" THEN Body(T.of, v[i])
                                                   ELSE ByValue(T.of, v[i])])
    [] T.c = "vector" -> <<Size(Len(v))>>
                         \o FlattenSeq([i \in DOMAIN v |-> ByValue(T.of, v[i])])
    [] T.c = "map"    -> <<Size(Len(v))>>
                         \o FlattenSeq([i \in DOMAIN v |-> Body(Pair(NumberT, T.of), v[i])])
    [] T.c = "unique" /\ v = <<>> -> <<Prefix(TRUE)>>
    [] T.c = "unique" /\ v # <<>> ->
         <<Prefix(FALSE)>> \o IF Wants(T.of) THEN Body(T.of, v[1]) ELSE ByValue(T.of, v[1])

-----------------------------------------------------------------------------
(* The objects a value owns through its unique_ptrs.                       *)

RECURSIVE Owned(_, _)
Owned(T, v) ==
  LET All(s) == FoldLeft(LAMBDA a, b : a + b, 0, s) IN
  CASE T.c \in {"number", "string"} -> 0
    [] T.c = "class"  -> All([i \in DOMAIN v |-> Owned(T.of[i], v[i])])
    [] T.c \in {"array", "vector"} -> All([i \in DOMAIN v |-> Owned(T.of, v[i])])
    [] T.c = "map"    -> All([i \in DOMAIN v |-> Owned(T.of, v[i][2])])
    [] T.c = "unique" -> IF v = <<>> THEN 0 ELSE 1 + Owned(T.of, v[1])

-----------------------------------------------------------------------------
(* Reading.  A frame is the call that reads a value of type t; v is what   *)
(* it has so far, done the number of elements in it that are read, n their *)
(* number.  "how" says where the value is: in its holder ("place", or      *)
(* "bare" in an array, whose prefix is the array's), a local variable      *)
(* ("local"), the members of an object that is constructed from them       *)
(* ("pure"), or memory behind a unique_ptr's local pointer ("heap", and    *)
(* "raw" for a class that is constructed there).                           *)

Call(T, v, how) ==
  [t |-> T, v |-> v, how |-> how, done |-> 0,
   n |-> CASE T.c = "class" -> Len(T.of) [] T.c = "array" -> T.n
           [] T.c \in {"number", "string", "vector", "map", "unique"} -> 0,
   at |-> IF how = "pure" \/ (how \in {"place", "local", "heap"} /\ Prefixed(T))
          THEN "prefix"
          ELSE IF T.c \in {"class", "array"} THEN "elements" ELSE "start"]

Top == Head(frames)
Put(f) == frames' = <<f>> \o Tail(frames)

\* What a holder makes of the value v read by the call it made.
Taken(f, v) ==
  [f EXCEPT !.done = @ + 1,
            !.v = CASE f.t.c = "unique" -> <<v>>
                    [] f.t.c = "map" -> IF \E i \in DOMAIN @ : @[i][1] = v[1]
                                        THEN @ ELSE Append(@, v)
                    [] f.t.c = "vector" /\ Wants(f.t.of) -> Append(@, v)
                    [] OTHER -> [@ EXCEPT ![f.done + 1] = v]]

\* Slip: the old object is not deleted.
ReplacedNever(f) == 0
\* The objects that end when f takes a new value: unique_ptr::reset.
Replaced(f) == IF f.t.c = "unique" THEN Owned(f.t, f.v) ELSE 0

\* The innermost call returns with v, having ended some objects.
Return(v, ended) ==
  IF Len(frames) = 1
  THEN /\ frames' = <<>> /\ root' = v /\ pc' = "ready"
       /\ live' = live - ended
  ELSE /\ frames' = <<Taken(frames[2], v)>> \o SubSeq(frames, 3, Len(frames))
       /\ live' = live - ended - Replaced(frames[2])
       /\ UNCHANGED <<root, pc>>

Next1 == stream[pos + 1]
Sees(t) == pos < Len(stream) /\ Next1.t = t
Reading == pc = "load"
At(c, stage) == Reading /\ Top.t.c = c /\ Top.at = stage

\* ar | value, with a value the variable may not have held before.
Load(k) ==
  /\ pc = "ready" /\ loads < MaxLoads
  /\ wanted' = Programs[prog].values[k] /\ before' = root
  /\ stream' = ByValue(Type, wanted') /\ pos' = 0
  /\ frames' = <<Call(Type, root, "place")>>
  /\ pc' = "load" /\ loads' = loads + 1
  /\ UNCHANGED <<prog, root, live, dropped>>

ReadPrefix ==
  /\ Reading /\ Top.at = "prefix" /\ Sees("prefix")
  /\ pos' = pos + 1
  /\ Put([Top EXCEPT !.at = IF Top.t.c \in {"class", "array"} THEN "elements" ELSE "start"])
  /\ UNCHANGED <<prog, root, wanted, before, stream, live, dropped, pc, loads>>

ReadNumber ==
  /\ At("number", "start") /\ Sees("data")
  /\ pos' = pos + 1
  /\ Return(Next1.x, 0)
  /\ UNCHANGED <<prog, wanted, before, stream, dropped, loads>>

\* Slip: an empty string leaves the old characters.
NoCharactersKept(f) == f.v
\* What is left of a string that is to get no characters: clear().
NoCharacters(f) == <<>>

ReadStringSize ==
  /\ At("string", "start") /\ Sees("size")
  /\ pos' = pos + 1
  /\ \/ /\ Next1.n = 0
        /\ Return(NoCharacters(Top), 0)
     \/ /\ Next1.n # 0
        /\ Put([Top EXCEPT !.n = Next1.n, !.at = "sized"])
        /\ UNCHANGED <<root, live, pc>>
  /\ UNCHANGED <<prog, wanted, before, stream, dropped, loads>>

\* A string of n characters, those of v as far as it has them.
Resized(v, n) == [i \in 1 .. n |-> IF i <= Len(v) THEN v[i] ELSE Default(NumberT)]

ResizeString ==
  /\ At("string", "sized")
  /\ Put([Top EXCEPT !.v = Resized(@, Top.n), !.at = "characters"])
  /\ UNCHANGED <<prog, root, wanted, before, stream, pos, live, dropped, pc, loads>>

ReadString ==
  /\ At("string", "characters") /\ Sees("data")
  /\ pos' = pos + 1
  /\ Return(Next1.x, 0)
  /\ UNCHANGED <<prog, wanted, before, stream, dropped, loads>>

\* Slip: what the container holds is not cleared.
UnclearedSize == [Top EXCEPT !.n = Next1.n, !.at = "sized"]
\* A container without elements, that is to get as many as the stream says.
ClearedSize == [Top EXCEPT !.v = <<>>, !.n = Next1.n, !.at = "sized"]

\* A vector or map is cleared before its size is read.
ReadSize ==
  /\ Reading /\ Top.t.c \in {"vector", "map"} /\ Top.at = "start" /\ Sees("size")
  /\ pos' = pos + 1
  /\ live' = live - Owned(Top.t, Top.v)
  /\ Put(ClearedSize)
  /\ UNCHANGED <<prog, root, wanted, before, stream, dropped, pc, loads>>

\* Elements that are constructed, and a map's, are made one by one; the others
\* are all there before the first is read.
Resize ==
  /\ Reading /\ Top.t.c \in {"vector", "map"} /\ Top.at = "sized"
  /\ Put([Top EXCEPT !.at = "elements",
                     !.v = IF Top.t.c = "map" \/ Wants(Top.t.of) THEN @
                           ELSE [i \in 1 .. Top.n |-> Default(Top.t.of)]])
  /\ UNCHANGED <<prog, root, wanted, before, stream, pos, live, dropped, pc, loads>>

\* The call that reads the next element.
ElementCall ==
  LET f == Top
      i == f.done + 1
  IN CASE f.t.c = "class"  -> IF Wants(f.t.of[i])
                              THEN Call(f.t.of[i], Default(f.t.of[i]), "pure")
                              ELSE Call(f.t.of[i], f.v[i], "place")
       [] f.t.c = "array"  -> Call(f.t.of, f.v[i], Element(f.t))
       [] f.t.c = "map"    -> LET P == Pair(NumberT, f.t.of) IN Call(P, Default(P), "local")
       [] f.t.c = "vector" -> IF Wants(f.t.of) THEN Call(f.t.of, Default(f.t.of), "pure")
                              ELSE Call(f.t.of, f.v[i], "place")

ReadElement ==
  /\ Reading /\ Top.at = "elements" /\ Top.done < Top.n
  /\ frames' = <<ElementCall>> \o frames
  /\ UNCHANGED <<prog, root, wanted, before, stream, pos, live, dropped, pc, loads>>

EndElements ==
  /\ Reading /\ Top.at = "elements" /\ Top.done = Top.n
  /\ Return(Top.v, 0)
  /\ UNCHANGED <<prog, wanted, before, stream, pos, dropped, loads>>

\* unique_ptr: a local pointer is read, then given to reset().
ReadNull ==
  /\ At("unique", "start") /\ Sees("prefix") /\ Next1.null
  /\ pos' = pos + 1
  /\ Return(<<>>, Owned(Top.t, Top.v))
  /\ UNCHANGED <<prog, wanted, before, stream, dropped, loads>>

ReadObject ==
  /\ At("unique", "start") /\ Sees("prefix") /\ ~Next1.null
  /\ pos' = pos + 1
  /\ live' = live + 1
  /\ frames' = <<Call(Top.t.of, Default(Top.t.of), IF Wants(Top.t.of) THEN "raw" ELSE "heap"),
                 [Top EXCEPT !.at = "reset"]>> \o Tail(frames)
  /\ UNCHANGED <<prog, root, wanted, before, stream, dropped, pc, loads>>

ResetDone ==
  /\ At("unique", "reset") /\ Top.done = 1
  /\ Return(Top.v, 0)
  /\ UNCHANGED <<prog, wanted, before, stream, pos, dropped, loads>>

\* The token is not the one the call reads.
Lost ==
  /\ Reading
  /\ CASE Top.at = "prefix" -> ~Sees("prefix")
       [] Top.at = "start" /\ Top.t.c = "number" -> ~Sees("data")
       [] Top.at = "start" /\ Top.t.c \in {"string", "vector", "map"} -> ~Sees("size")
       [] Top.at = "start" /\ Top.t.c = "unique" -> ~Sees("prefix")
       [] Top.at = "characters" -> ~Sees("data")
       [] Top.at \in {"sized", "elements", "reset"} -> FALSE
  /\ pc' = "lost"
  /\ UNCHANGED <<prog, root, wanted, before, stream, pos, frames, live, dropped, loads>>

-----------------------------------------------------------------------------
(* Exceptions.                                                             *)

\* The code of a class or the archive it reads throws, between two members, or the
\* memory for a vector or a string is not there.
Throw ==
  /\ Reading
  /\ \/ Top.t.c = "class" /\ Top.at = "elements"
     \/ Top.t.c \in {"vector", "string"} /\ Top.at = "sized"
  /\ pc' = "unwind"
  /\ UNCHANGED <<prog, root, wanted, before, stream, pos, frames, live, dropped, loads>>

\* An archive whose stream throws does so when it has read some of the characters.
ThrowInString ==
  /\ At("string", "characters") /\ Sees("data")
  /\ \E k \in 0 .. Top.n - 1 :
       Put([Top EXCEPT !.v = SubSeq(Next1.x, 1, k) \o SubSeq(@, k + 1, Top.n)])
  /\ pc' = "unwind"
  /\ UNCHANGED <<prog, root, wanted, before, stream, pos, live, dropped, loads>>

\* The objects that end when an exception passes the call f: local values and
\* those a constructor would have got; not what a raw pointer points to.
Ended(f) == IF f.how \in {"local", "pure", "raw"} THEN Owned(f.t, f.v) ELSE 0

\* The objects nothing points to any more: what the raw pointer of unique_ptr's
\* load points to, with what that owns once it is an object.
Dropped(f) == CASE f.how = "heap" -> 1 + Owned(f.t, f.v)
                [] f.how = "raw"  -> 1
                [] f.how \notin {"heap", "raw"} -> 0

\* What its holder keeps of it.
Kept(f, g) == IF f.how \in {"place", "bare"} THEN [g EXCEPT !.v[g.done + 1] = f.v] ELSE g

Unwind ==
  /\ pc = "unwind" /\ frames # <<>>
  /\ live' = live - Ended(Top)
  /\ dropped' = dropped + Dropped(Top)
  /\ IF Len(frames) = 1
     THEN frames' = <<>> /\ root' = Top.v
     ELSE /\ frames' = <<Kept(Top, frames[2])>> \o SubSeq(frames, 3, Len(frames))
          /\ UNCHANGED root
  /\ UNCHANGED <<prog, wanted, before, stream, pos, pc, loads>>

\* The program catches the exception, and may read onto the variable again.
Catch ==
  /\ pc = "unwind" /\ frames = <<>>
  /\ pc' = "caught"
  /\ UNCHANGED <<prog, root, wanted, before, stream, pos, frames, live, dropped, loads>>

GoOn ==
  /\ pc = "caught" /\ pc' = "ready"
  /\ wanted' = root
  /\ stream' = <<>> /\ pos' = 0
  /\ UNCHANGED <<prog, root, before, frames, live, dropped, loads>>

-----------------------------------------------------------------------------
Init ==
  /\ prog \in DOMAIN Programs
  /\ root = Default(Type) /\ wanted = root /\ before = root
  /\ stream = <<>> /\ pos = 0 /\ frames = <<>>
  /\ live = 0 /\ dropped = 0 /\ pc = "ready" /\ loads = 0

Next ==
  \/ \E k \in DOMAIN Programs[prog].values : Load(k)
  \/ ReadPrefix \/ ReadNumber \/ ReadStringSize \/ ResizeString \/ ReadString
  \/ ReadSize \/ Resize
  \/ ReadElement \/ EndElements \/ ReadNull \/ ReadObject \/ ResetDone \/ Lost
  \/ Throw \/ ThrowInString \/ Unwind \/ Catch \/ GoOn

Spec == Init /\ [][Next]_vars

-----------------------------------------------------------------------------
(* Properties.                                                             *)

\* The stream carries a type if all that is constructed from it in a container
\* has a version: construct reads a prefix that only such a class is written with.
RECURSIVE Carried(_)
Carried(T) ==
  CASE T.c \in {"number", "string"} -> TRUE
    [] T.c = "class"            -> \A i \in DOMAIN T.of : Carried(T.of[i])
    [] T.c \in {"vector", "map"} -> (Wants(T.of) => T.of.versioned) /\ Carried(T.of)
    [] T.c \in {"array", "unique"} -> Carried(T.of)

\* Whatever the variable held, left whole or torn by an exception, a load that
\* ends makes it the value that was written, of all its tokens; and none that the
\* stream carries gets lost.
ReadsBack ==
  /\ pc = "lost" => ~Carried(Type)
  /\ pc = "ready" => root = wanted /\ pos = Len(stream)

\* What an exception leaves of a value of type T that was old and is read as
\* new: whole members before the one it came from, untouched ones behind it; of
\* a vector, its elements read and default ones behind them, or a prefix of its
\* elements if they are constructed; of a map, a prefix; of a string, as many
\* characters as it was to get, new ones and then old ones as far as it had them; a
\* unique_ptr keeps its object.
RECURSIVE Torn(_, _, _, _)
Torn(T, now, old, new) ==
  LET InOrder(E(_), untouched) ==
        \E k \in DOMAIN new : \A i \in DOMAIN new :
          /\ i < k => now[i] = new[i]
          /\ i > k => now[i] = untouched[i]
          /\ i = k => Torn(E(i), now[i], untouched[i], new[i])
      Fresh == [i \in DOMAIN new |-> Default(T.of)]
      Characters == \E k \in 0 .. Len(new) :
                      now = SubSeq(new, 1, k) \o SubSeq(Resized(old, Len(new)), k + 1, Len(new))
  IN \/ now = old \/ now = new
     \/ T.c = "string" /\ Characters
     \/ T.c = "class" /\ InOrder(LAMBDA i : T.of[i], old)
     \/ T.c = "array" /\ InOrder(LAMBDA i : T.of, old)
     \/ T.c = "vector" /\ now = <<>>
     \/ /\ T.c = "vector" /\ ~Wants(T.of) /\ Len(now) = Len(new)
        /\ InOrder(LAMBDA i : T.of, Fresh)
     \/ T.c = "vector" /\ Wants(T.of) /\ IsPrefix(now, new)
     \/ T.c = "map" /\ IsPrefix(now, new)

\* An exception leaves nothing but that in the program's variable.
TornInOrder == pc = "caught" => Torn(Type, root, before, wanted)

\* Every object unique_ptr allocated is owned from the program's variable, once:
\* no load deletes one twice, and none is lost but those an exception takes the
\* only pointer to while a unique_ptr is loaded, whose local pointer is a raw one.
NothingLeaked ==
  pc \in {"ready", "caught"} => live = Owned(Type, root) + dropped
=============================================================================
