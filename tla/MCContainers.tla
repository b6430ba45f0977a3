---------------------------- MODULE MCContainers ----------------------------
(***************************************************************************)
(* Types and values for Containers: each container, over numbers, over     *)
(* each other, over classes that are serialized and that are constructed,  *)
(* and over unique_ptrs.                                                   *)
(***************************************************************************)
EXTENDS Containers

String == [c |-> "string"]
Vector(T) == [c |-> "vector", of |-> T]
Map(T)    == [c |-> "map", of |-> T]
Unique(T) == [c |-> "unique", of |-> T]
Array(T, n) == [c |-> "array", of |-> T, n |-> n]
Class(versioned, wants, of) == [c |-> "class", versioned |-> versioned, wants |-> wants, of |-> of]

Program(T, v) == [type |-> T, values |-> v]

Owner == Class(TRUE, FALSE, <<NumberT, Unique(Class(TRUE, FALSE, <<NumberT>>))>>)
Built == Class(TRUE, TRUE, <<NumberT, Unique(Class(FALSE, FALSE, <<NumberT>>))>>)
\* A map copies its elements, or makes each from one argument.
Plain == Class(TRUE, FALSE, <<NumberT, String>>)
Sole  == Class(TRUE, TRUE, <<Unique(Class(FALSE, FALSE, <<NumberT>>))>>)
OwnerValues == <<<<1, <<>>>>, <<2, <<<<3>>>>>>>>

AllPrograms == <<
  Program(Vector(NumberT), <<<<>>, <<1>>, <<2, 3>>>>),
  Program(Vector(Vector(String)), <<<<>>, <<<<<<1>>>>, <<<<>>, <<2>>>>>>, <<<<>>>>>>),
  \* a base class, a string, an array of a versioned class
  Program(Class(TRUE, FALSE, <<Class(TRUE, FALSE, <<NumberT>>), String,
                               Array(Class(TRUE, FALSE, <<NumberT, Vector(NumberT)>>), 2)>>),
          << <<<<1>>, <<5, 3, 4>>, <<<<2, <<>>>>, <<3, <<4>>>>>>>>,
             <<<<6>>, <<8, 9>>, <<<<7, <<8>>>>, <<9, <<>>>>>>>>,
             <<<<0>>, <<>>, <<<<1, <<>>>>, <<2, <<>>>>>>>> >>),
  Program(Vector(Owner), <<<<>>, OwnerValues, <<<<4, <<<<5>>>>>>>>>>),
  Program(Vector(Built), <<<<>>, OwnerValues, <<<<4, <<<<5>>>>>>>>>>),
  Program(Map(Plain), <<<<>>, <<<<1, <<1, <<3>>>>>>, <<2, <<2, <<>>>>>>>>, <<<<2, <<4, <<5>>>>>>>>>>),
  Program(Map(Sole), <<<<>>, <<<<1, <<<<<<3>>>>>>>>, <<2, <<<<>>>>>>>>, <<<<2, <<<<<<5>>>>>>>>>>>>),
  Program(Map(Vector(NumberT)), <<<<>>, <<<<1, <<2>>>>, <<2, <<>>>>>>, <<<<1, <<>>>>, <<3, <<4>>>>>>>>),
  \* rows of classes, and a class that is constructed but has no version
  Program(Array(Array(Plain, 2), 2),
          << << <<<<1, <<2>>>>, <<3, <<>>>>>>, <<<<4, <<5>>>>, <<6, <<7>>>>>> >> >>),
  Program(Vector(Class(FALSE, TRUE, <<NumberT>>)), <<<<>>, <<<<1>>>>>>),
  Program(Unique(Owner), <<<<>>, <<<<1, <<<<2>>>>>>>>, <<<<3, <<>>>>>>>>),
  Program(Unique(Built), <<<<>>, <<<<1, <<<<2>>>>>>>>, <<<<3, <<>>>>>>>>),
  Program(Vector(Unique(Class(FALSE, FALSE, <<NumberT>>))), <<<<>>, <<<<<<1>>>>, <<>>>>, <<<<<<2>>>>, <<<<3>>>>>>>>)
>>
=============================================================================
