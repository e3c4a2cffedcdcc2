------------------------------ MODULE XmlHash ------------------------------
(***************************************************************************)
(* The xml.Hash objects of a program: it reads documents, holds fragments  *)
(* by their outermost start tag and applies any operation of               *)
(* xml/xml_hash.go to any element inside them.  XmlForest says what that   *)
(* must look like from outside.  Destroy() and the garbage collector give  *)
(* list nodes back, so the memory keeps no unreachable one.                *)
(***************************************************************************)
EXTENDS XmlText, FiniteSets

CONSTANTS
  MaxHeld,    \* bound: fragments held at once
  MaxOps,     \* bound: operations applied
  Names,      \* element names
  Texts,      \* non-empty texts
  Filters,    \* the filters of Query and Remove
  Documents   \* the documents that are read: elements with attributes

ASSUME NamesOK == Names \subseteq Nat \ {NoName}

VARIABLES heap, held, ops
vars == <<heap, held, ops>>

-----------------------------------------------------------------------------
(* What a program can do.  Every element of a held fragment may be the     *)
(* receiver.                                                               *)

RECURSIVE Chain(_, _)
Chain(h, n) == IF n = Nil THEN {} ELSE {n} \cup Chain(h, h[n].succ)
Elements(x) == {n \in Chain(heap, x) : heap[n].nest = 1}
Receivers == UNION {Elements(x) : x \in held}
Size(x) == Cardinality(Chain([heap EXCEPT ![heap[x].link].succ = Nil], x))

\* Bound: there is memory for n more nodes, and for one more fragment.
Fits(n) == Cardinality(FreeNodes(heap)) >= n
MayHold == Cardinality(held) < MaxHeld
Need(s) == IF s = NoText THEN 0 ELSE 1
Contents == Texts \cup {NoText}
Count == ops < MaxOps /\ ops' = ops + 1

Init == heap = EmptyMemory /\ held = {} /\ ops = 0

\* NewHash(name, text).
New ==
  \E name \in Names, s \in Contents :
    /\ MayHold /\ Fits(2 + Need(s))
    /\ LET new == NewElement(heap, name) IN
       /\ heap' = SetText(new.heap, new.node, s)
       /\ held' = held \cup {new.node} /\ Count

Rename ==
  \E e \in Receivers, name \in Names :
    /\ heap' = [heap EXCEPT ![e].data = name]
    /\ UNCHANGED held /\ Count

AppendText ==
  \E e \in Receivers, s \in Texts :
    /\ Fits(1)
    /\ heap' = AppendString(heap, e, s)
    /\ UNCHANGED held /\ Count

ReplaceText ==
  \E e \in Receivers, s \in Contents :
    /\ Fits(Need(s))
    /\ heap' = SetText(heap, e, s)
    /\ UNCHANGED held /\ Count

AddChild ==
  \E e \in Receivers, name \in Names, s \in Contents :
    /\ Fits(2 + Need(s))
    /\ heap' = Add(heap, e, name, s)
    /\ UNCHANGED held /\ Count

FirstOrAdd ==
  \E e \in Receivers, name \in Names :
    /\ First(heap, e, name) = Nil /\ Fits(2)
    /\ heap' = Add(heap, e, name, NoText)
    /\ UNCHANGED held /\ Count

\* Any element may be copied into any other, or into itself.
AddCopy ==
  \E e, x \in Receivers :
    /\ Fits(Size(x))
    /\ heap' = AddClone(heap, e, x)
    /\ UNCHANGED held /\ Count

\* The sanity check, and what it cannot see: the new parent is not inside the
\* fragment itself.
Adopt ==
  \E x \in held, e \in Receivers :
    /\ heap[x].pred = Nil /\ heap[heap[x].link].succ = Nil
    /\ e \notin Elements(x)
    /\ heap' = AddWithOwnership(heap, e, x)
    /\ held' = held \ {x} /\ Count

RemoveFirst ==
  \E e \in Receivers, name \in Names :
    LET first == First(heap, e, name) IN
    /\ MayHold /\ first # Nil
    /\ heap' = Unlink(heap, first)
    /\ held' = held \cup {first} /\ Count

Query ==
  \E e \in Receivers, f \in Filters :
    /\ MayHold /\ Fits(Size(e))
    /\ LET got == QueryHash(heap, e, f) IN
       heap' = got.heap /\ held' = held \cup {got.node} /\ Count

Remove ==
  \E e \in Receivers, f \in Filters :
    /\ MayHold /\ Fits(2)
    /\ LET got == RemoveHash(heap, e, f) IN
       heap' = got.heap /\ held' = held \cup {got.node} /\ Count

Discard ==
  \E x \in held :
    /\ heap' = Destroy(heap, x)
    /\ held' = held \ {x} /\ Count

\* A document as encoding/xml delivers it.
RECURSIVE Tokens(_)
Tokens(d) ==
  IF "text" \in DOMAIN d THEN <<Text(d.text)>>
  ELSE <<StartWith(d.name, d.attrs)>>
         \o Joined([i \in DOMAIN d.kids |-> Tokens(d.kids[i])]) \o <<End(d.name)>>

\* StringToHash().
Read ==
  \E d \in Documents :
    LET got == StringToHash(EmptyMemory, Tokens(d)) IN
    /\ MayHold /\ Fits(MaxNode - Cardinality(FreeNodes(got.heap)))
    /\ LET here == StringToHash(heap, Tokens(d)) IN
       heap' = here.heap /\ held' = held \cup {here.node} /\ Count

Next == \/ New \/ Rename \/ AppendText \/ ReplaceText \/ AddChild
        \/ FirstOrAdd \/ AddCopy \/ Adopt \/ RemoveFirst \/ Query \/ Remove
        \/ Discard \/ Read

Spec == Init /\ [][Next]_vars

-----------------------------------------------------------------------------
(* Verify(): the structure is intact.                                      *)

StartOK(n) ==
  /\ heap[n].nest = 1 /\ heap[n].link # Nil /\ heap[heap[n].link].link = n
  /\ heap[n].succ # Nil /\ heap[heap[n].succ].pred = n /\ heap[n].data # NoName
  /\ heap[n].pred # Nil => heap[heap[n].pred].succ = n

EndOK(n) ==
  /\ heap[n].nest = -1 /\ heap[n].data = NoName
  /\ heap[n].link # Nil /\ heap[heap[n].link].link = n
  /\ heap[n].pred # Nil /\ heap[heap[n].pred].succ = n
  /\ heap[n].succ # Nil => heap[heap[n].succ].pred = n

TextOK(n) ==
  /\ heap[n].nest = 0 /\ heap[n].link = Nil
  /\ heap[n].pred # Nil /\ heap[n].succ # Nil
  /\ heap[heap[n].pred].succ = n /\ heap[heap[n].succ].pred = n

\* path holds the open start tags while the list is followed to its end.
RECURSIVE NestingOK(_, _, _)
NestingOK(n, end, path) ==
  IF n = end THEN path = <<>>
  ELSE CASE heap[n].nest = 0 -> TextOK(n) /\ NestingOK(heap[n].succ, end, path)
         [] heap[n].nest = 1 ->
              StartOK(n) /\ NestingOK(heap[n].succ, end, <<n>> \o path)
         [] heap[n].nest = -1 ->
              /\ path # <<>> /\ heap[n].link = Head(path) /\ EndOK(n)
              /\ NestingOK(heap[n].succ, end, Tail(path))
         [] OTHER -> FALSE

RECURSIVE Top(_)
Top(n) == IF heap[n].pred = Nil THEN n ELSE Top(heap[n].pred)

Verify(e) ==
  LET x == Top(e)
      end == heap[x].link
  IN  /\ StartOK(x) /\ EndOK(end) /\ heap[end].succ = Nil
      /\ NestingOK(heap[x].succ, end, <<>>)

\* Whatever operations were applied, Verify() finds no fault from any element,
\* every fragment the program holds is outermost and no list node is lost or
\* shared between two fragments.
Intact ==
  /\ \A e \in Receivers : Verify(e) /\ Top(e) \in held
  /\ \A x \in held : Top(x) = x
  /\ \A x, y \in held : x # y => Chain(heap, x) \cap Chain(heap, y) = {}
  /\ UNION {Chain(heap, x) : x \in held} = Node \ FreeNodes(heap)

-----------------------------------------------------------------------------
(* The trees the lists stand for: an element's children are what lies      *)
(* between its tags, and its text is all the texts there.                  *)

RECURSIVE InnerFrom(_, _, _), TreeOf(_, _)
InnerFrom(h, n, end) ==
  IF n = end THEN [text |-> NoText, kids |-> <<>>]
  ELSE IF h[n].nest = 0
  THEN LET rest == InnerFrom(h, h[n].succ, end)
       IN  [rest EXCEPT !.text = h[n].data \o @]
  ELSE LET rest == InnerFrom(h, h[h[n].link].succ, end)
       IN  [rest EXCEPT !.kids = <<TreeOf(h, n)>> \o @]
TreeOf(h, n) ==
  LET inner == InnerFrom(h, h[n].succ, h[n].link)
  IN  [name |-> h[n].data, text |-> inner.text, kids |-> inner.kids]

\* What a document says: attributes are children, its texts are one.
RECURSIVE Denoted(_)
Denoted(d) ==
  LET Inner(k) == "name" \in DOMAIN k
      Said(k) == ~Inner(k)
      inner == SelectSeq(d.kids, Inner)
      said == SelectSeq(d.kids, Said)
  IN  [name |-> d.name, text |-> Joined([i \in DOMAIN said |-> said[i].text]),
       kids |-> [i \in DOMAIN d.attrs |-> [name |-> d.attrs[i][1], text |-> d.attrs[i][2],
                                           kids |-> <<>>]]
                \o [i \in DOMAIN inner |-> Denoted(inner[i])]]

Forest == INSTANCE XmlForest WITH
            Handle <- Node, Documents <- {Denoted(d) : d \in Documents},
            forest <- [x \in held |-> TreeOf(heap, x)]

\* Seen from outside the lists are trees: every operation, also one inside a
\* deep element, of an element on itself or of one fragment on another, does to
\* the trees what its documentation says and leaves all others alone.
ImplementsForest == Forest!Spec

\* First() and Next() enumerate exactly the children of a name, in order, and
\* Get() their texts.
GetsChildren ==
  \A e \in Receivers, name \in Names :
    LET Named(k) == k.name = name
        named == SelectSeq(TreeOf(heap, e).kids, Named)
    IN  Get(heap, e, name) = [i \in DOMAIN named |-> named[i].text]

\* What WriteTo() puts into a file StringToHash() reads back as the same tree,
\* also when a text is interspersed with elements: this is what a database
\* saved and loaded again relies on.
RoundTrip ==
  \A x \in held :
    LET read == StringToHash(EmptyMemory, WriteTo(heap, x))
    IN  TreeOf(read.heap, read.node) = TreeOf(heap, x)

\* The children in alphabetical order, those of a name in their own order.
RECURSIVE Canonical(_), InOrder(_, _)
Canonical(t) ==
  <<Start(t.name)>> \o [i \in DOMAIN t.text |-> Text(<<t.text[i]>>)]
    \o InOrder(t.kids, Names) \o <<End(t.name)>>
InOrder(kids, names) ==
  IF names = {} THEN <<>>
  ELSE LET Named(k) == k.name = Lowest(names)
           named == SelectSeq(kids, Named)
       IN  Joined([i \in DOMAIN named |-> Canonical(named[i])])
             \o InOrder(kids, names \ {Lowest(names)})

\* String() lists an element's text before its children and these by name, on
\* every level: two trees that differ only in what a Hash does not preserve
\* have the same string.
StringSorted ==
  \A x \in held : String(heap, x) = Canonical(TreeOf(heap, x))

\* Whoever reads a fragment sees its tree: child by child, in a file that is read
\* back, or in its string.
ReadersSeeTree == GetsChildren /\ RoundTrip /\ StringSorted
=============================================================================
