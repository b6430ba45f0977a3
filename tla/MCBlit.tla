------------------------------- MODULE MCBlit -------------------------------
(***************************************************************************)
(* Instances of Blit for TLC: every way some objects can refer to each     *)
(* other, for classes that hold numbers, pointers, arrays and each other.  *)
(***************************************************************************)
EXTENDS Blit

Type(cat, size, fields, to, n) ==
  [cat |-> cat, size |-> size, fields |-> fields, to |-> to, n |-> n]
Field(t, off, n) == [type |-> t, off |-> off, n |-> n]
Ref(to, n) == Type("pointer", 2, <<>>, to, n)

\* struct node { u8 tag; node* next; };
\* struct table { node** rows; u16 nums[3]; node own; };   rows: two pointers
\* struct ring { ring* next; };  struct list { u16 size; ring head; };
\* struct text { u8* chars; node* items; u16 pair[2]; };   three chars, two nodes
CppTypes ==
  [ u8      |-> Type("number", 1, <<>>, "u8", 0),
    u16     |-> Type("number", 2, <<>>, "u16", 0),
    node    |-> Type("class", 4, <<Field("u8", 0, 0), Field("pointer", 2, 0)>>, "node", 0),
    table   |-> Type("class", 12, <<Field("rows", 0, 0), Field("u16", 2, 3),
                                    Field("node", 8, 0)>>, "node", 0),
    text    |-> Type("class", 8, <<Field("chars", 0, 0), Field("items", 2, 0),
                                   Field("u16", 4, 2)>>, "node", 0),
    ring    |-> Type("class", 2, <<Field("link", 0, 0)>>, "node", 0),
    list    |-> Type("class", 4, <<Field("u16", 0, 0), Field("ring", 2, 0)>>, "node", 0),
    link    |-> Ref("ring", 1),
    pointer |-> Ref("node", 1),
    rows    |-> Ref("pointer", 2),
    chars   |-> Ref("u8", 3),
    items   |-> Ref("node", 2) ]

Program(t, memory, heap) ==
  {[type |-> t, addr |-> 2, memory |-> m, heap |-> heap, big |-> b] :
     m \in memory, b \in BOOLEAN}

\* The values at some addresses; a node is three.
All(t, as) == {[type |-> t, addr |-> a] : a \in as}
NodesAt(as) == All("node", as) \cup All("u8", as) \cup All("pointer", {a + 2 : a \in as})

\* Three nodes, at 2, 6 and 10; next may refer to any of them.
Nodes == {Null, 2, 6, 10}
Chains == Program("node", [{4, 8, 12} -> Nodes], NodesAt({2, 6, 10}))

\* A table at 2 with its own node at 10, the two pointers at 14, nodes at 18 and 22;
\* the own node can be referred to, inside the table.
Tables == Program("table",
  {m \in [{2, 12, 14, 16, 20, 24} -> {Null, 10, 14, 18, 22}] :
     /\ m[2] \in {Null, 14} /\ m[24] = Null
     /\ \A s \in {12, 14, 16, 20} : m[s] # 14},
  All("table", {2}) \cup All("rows", {2}) \cup All("u16", {4, 6, 8})
    \cup All("pointer", {14, 16}) \cup NodesAt({10, 18, 22}))

\* A text at 2, its characters at 10, its nodes at 14 and 18, another node at 22.
Texts == Program("text",
  {m \in [{2, 4, 16, 20, 24} -> {Null, 10, 14, 22}] :
     /\ m[2] \in {Null, 10} /\ m[4] \in {Null, 14}
     /\ \A s \in {16, 20, 24} : m[s] \in {Null, 22}},
  All("text", {2}) \cup All("chars", {2}) \cup All("items", {4}) \cup All("u16", {6, 8})
    \cup All("u8", {10, 11, 12}) \cup NodesAt({14, 18, 22}))

\* The root is a pointer to a node.
Entries == Program("pointer", [{2, 6} -> {Null, 4}], All("pointer", {2}) \cup NodesAt({4}))

\* A list at 2 with its head at 4, and a ring at 6.
Lists == Program("list", [{4, 6} -> {Null, 4, 6}],
  All("list", {2}) \cup All("u16", {2}) \cup All("ring", {4, 6}) \cup All("link", {4, 6}))

AllPrograms == Chains \cup Tables \cup Texts \cup Entries \cup Lists
=============================================================================
