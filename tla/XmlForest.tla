----------------------------- MODULE XmlForest -----------------------------
(***************************************************************************)
(* What xml.Hash promises: a program holds any number of XML fragments,    *)
(* each a tree of elements that have a name, a text and an ordered list of *)
(* child elements.  There are no pointers here; a place in a tree is the   *)
(* path of positions that leads to it.                                     *)
(***************************************************************************)
EXTENDS Naturals, Sequences, SequencesExt

CONSTANTS Handle, Names, Texts, Filters, Documents

VARIABLE forest   \* the held fragments: a function from handles to trees

Element(name, text) == [name |-> name, text |-> text, kids |-> <<>>]

\* A filter accepts children by name, by their text, or all of them.
Accepts(f, t) ==
  /\ f.by = "name" => t.name = f.value
  /\ f.by = "text" => t.text = f.value

RECURSIVE Paths(_), At(_, _), Put(_, _, _)
Paths(t) ==
  {<<>>} \cup
  UNION {{<<i>> \o p : p \in Paths(t.kids[i])} :
           i \in DOMAIN t.kids}
At(t, p) == IF p = <<>> THEN t ELSE At(t.kids[Head(p)], Tail(p))
Put(t, p, new) ==
  IF p = <<>> THEN new
  ELSE [t EXCEPT !.kids[Head(p)] = Put(@, Tail(p), new)]

-----------------------------------------------------------------------------
\* The ways in which one element may change in place.

NewElements == {Element(n, s) : n \in Names, s \in Texts \cup {<<>>}}

Edits(t) ==
       {[t EXCEPT !.name = n] : n \in Names}
  \cup {[t EXCEPT !.text = @ \o s] : s \in Texts}
  \cup {[t EXCEPT !.text = s] : s \in Texts \cup {<<>>}}
  \cup {[t EXCEPT !.kids = Append(@, new)] : new \in NewElements}

Selected(t, f) == [name |-> t.name, text |-> <<>>,
                   kids |-> SelectSeq(t.kids, LAMBDA k : Accepts(f, k))]
Others(t, f) == [t EXCEPT !.kids = SelectSeq(@, LAMBDA k : ~Accepts(f, k))]

Hold(x, t) == [h \in DOMAIN forest \cup {x} |->
                 IF h = x THEN t ELSE forest[h]]

Init == forest = [h \in {} |-> {}]

Make == \E x \in Handle \ DOMAIN forest, t \in NewElements \cup Documents :
          forest' = Hold(x, t)

Edit == \E x \in DOMAIN forest : \E p \in Paths(forest[x]) :
          \E new \in Edits(At(forest[x], p)) :
            forest' = [forest EXCEPT ![x] = Put(@, p, new)]

\* A copy of any held element becomes the last child of any held element.
Graft ==
  \E x, y \in DOMAIN forest :
    \E p \in Paths(forest[x]), q \in Paths(forest[y]) :
      LET host == At(forest[x], p)
          new == [host EXCEPT !.kids = Append(@, At(forest[y], q))]
      IN  forest' = [forest EXCEPT ![x] = Put(@, p, new)]

\* A fragment moves into another one and is no longer held by itself.
Adopt ==
  \E x, y \in DOMAIN forest : \E p \in Paths(forest[x]) :
    LET host == At(forest[x], p)
        new == [host EXCEPT !.kids = Append(@, forest[y])]
    IN  /\ x # y
        /\ forest' = [h \in DOMAIN forest \ {y} |->
                        IF h = x THEN Put(forest[x], p, new) ELSE forest[h]]

\* The first child of a name leaves its parent and is held by itself.
Take ==
  \E x \in DOMAIN forest, y \in Handle \ DOMAIN forest, n \in Names :
    \E p \in Paths(forest[x]) :
      LET from == At(forest[x], p)
          named == {i \in DOMAIN from.kids : from.kids[i].name = n}
      IN  \E i \in named :
            /\ \A j \in named : i <= j
            /\ forest' = [Hold(y, from.kids[i]) EXCEPT
                            ![x] = Put(@, p, [from EXCEPT !.kids = RemoveAt(@, i)])]

\* Query keeps the original, Remove splits it.
Split ==
  \E x \in DOMAIN forest, y \in Handle \ DOMAIN forest, f \in Filters :
    \E p \in Paths(forest[x]), left \in BOOLEAN :
      LET from == At(forest[x], p) IN
      forest' = [Hold(y, Selected(from, f)) EXCEPT
                   ![x] = IF left THEN @ ELSE Put(@, p, Others(from, f))]

Drop == \E x \in DOMAIN forest :
          forest' = [h \in DOMAIN forest \ {x} |-> forest[h]]

Next == Make \/ Edit \/ Graft \/ Adopt \/ Take \/ Split \/ Drop

Spec == Init /\ [][Next]_forest
=============================================================================
