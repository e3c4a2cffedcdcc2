------------------------------ MODULE XmlList ------------------------------
(***************************************************************************)
(* xml/xml_hash.go: an XML fragment as a doubly linked list of start tags, *)
(* texts and end tags, and the functions that work on such lists.          *)
(*                                                                         *)
(* The memory h is a sequence of numbered list nodes; an allocation takes  *)
(* the lowest free ones, which changes nothing a program can see.  An      *)
(* operation returns the new memory, or Got(memory, node) if it also has a *)
(* node to return.  Names are numbers, ordered as the strings are; a text  *)
(* is the sequence of its pieces.                                          *)
(***************************************************************************)
EXTENDS Integers, Sequences

CONSTANT MaxNode  \* bound: list nodes in memory

Node == 1..MaxNode
Nil == 0
NoName == 0
NoText == <<>>

\* nest: 1 start tag, 0 text, -1 end tag, 2 a free node.
Unused == [nest |-> 2, data |-> NoName, succ |-> Nil, pred |-> Nil, link |-> Nil]
EmptyMemory == [n \in Node |-> Unused]
FreeNodes(h) == {n \in Node : h[n].nest = 2}
Lowest(S) == CHOOSE n \in S : \A m \in S : n <= m

Got(h, n) == [heap |-> h, node |-> n]

-----------------------------------------------------------------------------
(* Walking over the children of an element: a text is followed by its      *)
(* successor, an element by the successor of its end tag.                  *)

After(h, n) == IF h[n].nest = 0 THEN h[n].succ ELSE h[h[n].link].succ

RECURSIVE Walk(_, _, _)
Walk(h, n, end) == IF n = end THEN <<>> ELSE <<n>> \o Walk(h, After(h, n), end)
Children(h, e) == Walk(h, h[e].succ, h[e].link)

TextFragments(h, e) ==
  LET IsText(n) == h[n].nest = 0
      texts == SelectSeq(Children(h, e), IsText)
  IN  [i \in DOMAIN texts |-> h[texts[i]].data]

RECURSIVE Joined(_)
Joined(texts) == IF texts = <<>> THEN NoText ELSE Head(texts) \o Joined(Tail(texts))
TextOf(h, e) == Joined(TextFragments(h, e))

First(h, e, name) ==
  LET IsIt(n) == h[n].nest = 1 /\ h[n].data = name
      all == SelectSeq(Children(h, e), IsIt)
  IN  IF all = <<>> THEN Nil ELSE Head(all)

RECURSIVE NextNamed(_, _, _)
NextNamed(h, n, name) ==
  IF n = Nil \/ h[n].nest = -1 THEN Nil
  ELSE IF h[n].nest = 1 /\ h[n].data = name THEN n
  ELSE NextNamed(h, After(h, n), name)
NextOf(h, e) == NextNamed(h, h[h[e].link].succ, h[e].data)

RECURSIVE GetFrom(_, _)
GetFrom(h, e) ==
  IF e = Nil THEN <<>> ELSE <<TextOf(h, e)>> \o GetFrom(h, NextOf(h, e))
Get(h, e, name) == GetFrom(h, First(h, e, name))

-----------------------------------------------------------------------------
(* Changing the list.                                                      *)

NewElement(h, name) ==
  LET s == Lowest(FreeNodes(h))
      e == Lowest(FreeNodes(h) \ {s})
  IN  Got([h EXCEPT
             ![s] = [nest |-> 1, data |-> name, succ |-> e, pred |-> Nil, link |-> e],
             ![e] = [nest |-> -1, data |-> NoName, succ |-> Nil, pred |-> s, link |-> s]], s)

AppendString(h, e, s) ==
  IF s = NoText THEN h
  ELSE LET end == h[e].link
           t == Lowest(FreeNodes(h))
       IN  [h EXCEPT
              ![t] = [nest |-> 0, data |-> s, succ |-> end,
                      pred |-> h[end].pred, link |-> Nil],
              ![end].pred = t,
              ![h[end].pred].succ = t]

\* Seeded bug: only the forward pointer goes around the deleted text.
DropTextForward(h, n) ==
  [h EXCEPT ![h[n].pred].succ = h[n].succ, ![n] = Unused]

DropText(h, n) ==
  [h EXCEPT ![h[n].pred].succ = h[n].succ, ![h[n].succ].pred = h[n].pred,
            ![n] = Unused]

RECURSIVE DropTexts(_, _, _)
DropTexts(h, n, end) ==
  IF n = end THEN h
  ELSE IF h[n].nest = 0 THEN DropTexts(DropText(h, n), h[n].succ, end)
  ELSE DropTexts(h, After(h, n), end)

SetText(h, e, s) == AppendString(DropTexts(h, h[e].succ, h[e].link), e, s)

AddWithOwnership(h, e, x) ==
  LET end == h[e].link
      last == h[end].pred
  IN  [h EXCEPT ![x].pred = last, ![h[x].link].succ = end,
                ![end].pred = h[x].link, ![last].succ = x]

Add(h, e, name, s) ==
  LET new == NewElement(h, name)
  IN  AddWithOwnership(SetText(new.heap, new.node, s), e, new.node)

\* The end of the fragment's own list: its children stay with it.
Unlink(h, x) ==
  LET pred == h[x].pred
      end == h[x].link
      succ == h[end].succ
  IN  [h EXCEPT ![pred].succ = succ, ![succ].pred = pred,
                ![x].pred = Nil, ![end].succ = Nil]

RECURSIVE CloneOf(_, _), CloneRest(_, _, _, _)
CloneOf(h, e) ==
  LET new == NewElement(h, h[e].data)
  IN  Got(CloneRest(new.heap, h[e].succ, h[e].link, new.node), new.node)
CloneRest(h, n, end, into) ==
  IF n = end THEN h
  ELSE LET one == IF h[n].nest = 0 THEN AppendString(h, into, h[n].data)
                  ELSE LET sub == CloneOf(h, n)
                       IN  AddWithOwnership(sub.heap, into, sub.node)
       IN  CloneRest(one, After(h, n), end, into)

AddClone(h, e, x) ==
  LET clone == CloneOf(h, x) IN AddWithOwnership(clone.heap, e, clone.node)

RECURSIVE Destroy(_, _)
Destroy(h, n) ==
  LET next == h[n].succ
      without == [h EXCEPT ![n] = Unused]
  IN  IF next = Nil THEN without ELSE Destroy(without, next)

-----------------------------------------------------------------------------
(* Iterators.  cur is nil after Remove(), which keeps the next one in nxt. *)

\* The first element at or after node n, none at an end tag.
RECURSIVE SkipTexts(_, _)
SkipTexts(h, n) == IF h[n].nest = 0 THEN SkipTexts(h, h[n].succ)
                   ELSE IF h[n].nest < 0 THEN Nil ELSE n

FirstChild(h, e) == [cur |-> SkipTexts(h, h[e].succ), nxt |-> Nil]
NextChild(h, it) ==
  [cur |-> IF it.cur = Nil THEN it.nxt ELSE SkipTexts(h, h[h[it.cur].link].succ),
   nxt |-> Nil]

\* Seeded bug: the iteration ends with the removal.
RemoveCurrentLast(h, it) == Got(Unlink(h, it.cur), [cur |-> Nil, nxt |-> Nil])

RemoveCurrent(h, it) ==
  Got(Unlink(h, it.cur), [cur |-> Nil, nxt |-> NextChild(h, it).cur])

AcceptsNode(h, f, n) ==
  CASE f.by = "name" -> h[n].data = f.value
    [] f.by = "text" -> TextOf(h, n) = f.value
    [] f.by = "all"  -> TRUE

RECURSIVE QueryRest(_, _, _, _), RemoveRest(_, _, _, _)
QueryRest(h, it, f, result) ==
  IF it.cur = Nil THEN h
  ELSE QueryRest(IF AcceptsNode(h, f, it.cur) THEN AddClone(h, result, it.cur) ELSE h,
                 NextChild(h, it), f, result)
QueryHash(h, e, f) ==
  LET new == NewElement(h, h[e].data)
  IN  Got(QueryRest(new.heap, FirstChild(h, e), f, new.node), new.node)

RemoveRest(h, it, f, result) ==
  IF it.cur = Nil THEN h
  ELSE IF AcceptsNode(h, f, it.cur)
  THEN LET cut == RemoveCurrent(h, it)
       IN  RemoveRest(AddWithOwnership(cut.heap, result, it.cur),
                      NextChild(cut.heap, cut.node), f, result)
  ELSE RemoveRest(h, NextChild(h, it), f, result)
RemoveHash(h, e, f) ==
  LET new == NewElement(h, h[e].data)
  IN  Got(RemoveRest(new.heap, FirstChild(h, e), f, new.node), new.node)
=============================================================================
