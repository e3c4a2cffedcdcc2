------------------------------ MODULE PropTree ------------------------------
(***************************************************************************)
(* The search tree of db/audit.go that finds the columns asked for among   *)
(* the elements of an <entry>: a node for every prefix, a leaf as soon as  *)
(* a prefix belongs to one name only.  A tree is a function from prefixes  *)
(* to leaves [name, index], where index 0 marks an inner node.  A name is  *)
(* a sequence of letters and ends with Close.                              *)
(***************************************************************************)
EXTENDS Integers, Sequences, SequencesExt

Close == 0      \* ">"
Slash == -1
Inner == [name |-> <<>>, index |-> 0]

Prefix(s, k) == SubSeq(s, 1, k)

\* A leaf moves one step down to make room.
Below(tree, prefix) ==
  LET leaf == tree[prefix]
  IN  (Prefix(leaf.name, Len(prefix) + 1) :> leaf) @@ (prefix :> Inner) @@ tree

RECURSIVE Insert(_, _, _, _)
Insert(tree, name, index, k) ==
  LET prefix == Prefix(name, k)
  IN  CASE prefix \notin DOMAIN tree ->
             (prefix :> [name |-> name, index |-> index]) @@ tree
        [] prefix \in DOMAIN tree /\ tree[prefix].name = name -> tree
        [] prefix \in DOMAIN tree /\ tree[prefix].name = <<>> ->
             Insert(tree, name, index, k + 1)
        [] OTHER -> Insert(Below(tree, prefix), name, index, k + 1)

\* Empty names and names with ">" are left out.
MakePropTree(props) ==
  LET Add(tree, p) ==
        IF props[p] = <<>> \/ Close \in Range(props[p]) THEN tree
        ELSE Insert(tree, Append(props[p], Close), p, 1)
  IN  FoldLeft(Add, [s \in {} |-> Inner], [p \in DOMAIN props |-> p])

\* The leaf at which the letters of a text lead out of the tree, or Inner.
RECURSIVE Descend(_, _, _)
Descend(tree, text, k) ==
  IF k > Len(text) \/ Prefix(text, k) \notin DOMAIN tree THEN Inner
  ELSE IF tree[Prefix(text, k)].name # <<>> THEN tree[Prefix(text, k)]
  ELSE Descend(tree, text, k + 1)

IndexOf(tree, name) ==
  LET leaf == Descend(tree, name, 1) IN IF leaf.name = name THEN leaf.index ELSE 0

\* In a file a tag may be empty: it ends with "/>".
TagIndex(tree, tag, empty) ==
  LET text == IF empty THEN tag \o <<Slash, Close>> ELSE Append(tag, Close)
      leaf == Descend(tree, text, 1)
  IN  IF leaf.name = Append(tag, Close) THEN leaf.index ELSE 0

\* Every column asked for, and nothing else, is found, whichever names begin with
\* others, in whichever order they are asked for.  Of an empty element, whose
\* value is that of a missing one, it is enough not to take it for another.
FindsColumns(props, tag, empty) ==
  LET tree == MakePropTree(props)
      asked == {p \in DOMAIN props : props[p] = tag /\ Close \notin Range(tag)}
      first == IF asked = {} THEN 0 ELSE CHOOSE p \in asked : \A o \in asked : p <= o
  IN  /\ TagIndex(tree, tag, empty) \in (IF empty THEN {0, first} ELSE {first})
      /\ IndexOf(tree, Append(tag, Close)) = first
=============================================================================
