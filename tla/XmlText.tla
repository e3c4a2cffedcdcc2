------------------------------ MODULE XmlText ------------------------------
(***************************************************************************)
(* xml/xml_hash.go: writing a fragment down and reading it back.  A        *)
(* document is a sequence of start tags, texts and end tags, what          *)
(* encoding/xml delivers and WriteTo() and String() put out.  escape()     *)
(* splits a text into its pieces; encoding/xml undoes what it replaces.    *)
(***************************************************************************)
EXTENDS XmlList, TLC

\* attrs: the attributes of a start tag, pairs of a name and a text.
StartWith(name, attrs) == [tag |-> "start", name |-> name, attrs |-> attrs]
Start(name) == StartWith(name, <<>>)
End(name) == [tag |-> "end", name |-> name]
Text(s) == [tag |-> "text", text |-> s]

-----------------------------------------------------------------------------
(* StringToHash: path holds the open elements, the innermost last.  A      *)
(* second top-level element takes the place of the first.                  *)

\* Seeded bug: a text replaces what came before the last child element.
ReadTextOver(h, e, s) == SetText(h, e, s)

ReadText(h, e, s) == SetText(h, e, TextOf(h, e) \o s)

\* Attributes become child elements.
RECURSIVE ReadAttrs(_, _, _)
ReadAttrs(h, e, attrs) ==
  IF attrs = <<>> THEN h
  ELSE ReadAttrs(Add(h, e, attrs[1][1], attrs[1][2]), e, Tail(attrs))

RECURSIVE ReadRest(_, _, _, _)
ReadRest(h, doc, xml, path) ==
  IF doc = <<>> THEN Got(h, xml)
  ELSE LET token == Head(doc)
           inner == path[Len(path)]
       IN
       CASE token.tag = "start" /\ path = <<>> ->
              LET new == NewElement(h, token.name)
              IN  ReadRest(ReadAttrs(new.heap, new.node, token.attrs),
                           Tail(doc), new.node, <<new.node>>)
         [] token.tag = "start" /\ path # <<>> ->
              LET new == NewElement(h, token.name)
                  added == AddWithOwnership(new.heap, inner, new.node)
              IN  ReadRest(ReadAttrs(added, new.node, token.attrs),
                           Tail(doc), xml, Append(path, new.node))
         [] token.tag = "end" ->
              ReadRest(h, Tail(doc), xml, SubSeq(path, 1, Len(path) - 1))
         [] token.tag = "text" ->
              ReadRest(IF path = <<>> THEN h ELSE ReadText(h, inner, token.text),
                       Tail(doc), xml, path)
StringToHash(h, doc) == ReadRest(h, doc, Nil, <<>>)

-----------------------------------------------------------------------------
(* WriteTo: the list as it is.                                             *)

Token(h, n) == CASE h[n].nest = 1  -> Start(h[n].data)
                 [] h[n].nest = 0  -> Text(h[n].data)
                 [] h[n].nest = -1 -> End(h[h[n].link].data)

RECURSIVE WriteFrom(_, _, _)
WriteFrom(h, n, end) ==
  <<Token(h, n)>> \o (IF n = end THEN <<>> ELSE WriteFrom(h, h[n].succ, end))
WriteTo(h, e) == WriteFrom(h, e, h[e].link)

-----------------------------------------------------------------------------
(* String: every token gets the path of the names and counters that lead   *)
(* to it, and the tokens are sorted by their paths.  The counter of a      *)
(* level grows by 4 with every child; its two low bits tell a text (0), an *)
(* end tag (1) and a start tag (2) apart.                                  *)

Last(path) == path[Len(path)]
Step(path, s, by) == [path EXCEPT ![Len(path)] = [s |-> s, n |-> @.n + by]]
Up(path) == [path EXCEPT ![Len(path)].n = @ - 2]

RECURSIVE PathsFrom(_, _, _, _)
PathsFrom(h, n, end, path) ==
  IF n = end THEN <<>>
  ELSE LET token == Token(h, n) IN
       CASE token.tag = "text" ->
              LET At(i) == Step(path, NoName, 4 * i)
                  pieces == Len(token.text)
              IN  [i \in 1..pieces |->
                     [path |-> At(i), token |-> Text(<<token.text[i]>>)]]
                    \o PathsFrom(h, h[n].succ, end, At(pieces))
         [] token.tag = "start" ->
              LET here == Step(path, token.name, 6)
                  p == Append(here, Last(here))
              IN  <<[path |-> p, token |-> token]>>
                    \o PathsFrom(h, h[n].succ, end, Up(p))
         [] token.tag = "end" ->
              LET p == Step(path, token.name, 5)
              IN  <<[path |-> p, token |-> token]>>
                    \o PathsFrom(h, h[n].succ, end, Up(SubSeq(p, 1, Len(p) - 1)))
InnerXML(h, e) == PathsFrom(h, h[e].succ, h[e].link, <<[s |-> NoName, n |-> 0]>>)

IsTextAt(path, i) == path[i].n % 4 = 0

Less(path1, path2) ==
  LET short == IF Len(path1) < Len(path2) THEN Len(path1) ELSE Len(path2)
      differ == {i \in 1..(short - 1) : path1[i] # path2[i]}
  IN  IF differ # {}
      THEN LET i == Lowest(differ)
           IN  \/ path1[i].s < path2[i].s
               \/ path1[i].s = path2[i].s /\ path1[i].n < path2[i].n
      ELSE IF Len(path1) < Len(path2) /\ IsTextAt(path1, short) THEN TRUE
      ELSE IF Len(path1) > Len(path2) /\ IsTextAt(path2, short) THEN FALSE
      ELSE path1[short].n < path2[short].n

String(h, e) ==
  LET sorted == SortSeq(InnerXML(h, e), LAMBDA a, b : Less(a.path, b.path))
  IN  <<Start(h[e].data)>> \o [i \in DOMAIN sorted |-> sorted[i].token]
        \o <<End(h[e].data)>>
=============================================================================
