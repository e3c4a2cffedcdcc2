------------------------------ MODULE XmlLdif ------------------------------
(***************************************************************************)
(* LdifToHash of xml/xml_hash.go: the scanner that turns what ldapsearch   *)
(* prints into items with attributes.  The input is a sequence of          *)
(* characters, which are the digits 1 to 9; "version:" and                 *)
(* "# search result" are one each.  The labels of the code are operators   *)
(* here, a loop that runs to a character is the position of that character.*)
(*                                                                         *)
(* Base64 turns up to three characters into one group, which counts as one *)
(* character of the encoded text: the negative number of these digits.     *)
(***************************************************************************)
EXTENDS Integers, Sequences

NL == 1
SP == 2
TAB == 3
Colon == 4
Sharp == 5
Version == 6
SearchResult == 7
Blank == {SP, TAB}
Space == Blank \cup {NL}                       \* not above ' '
Garbage == {Sharp, Colon}                  \* above ' ', below 'A'

Lowest(S) == CHOOSE n \in S : \A m \in S : n <= m

\* The first position from i on with a character of set cs; End(x) if none.
End(x) == Len(x) + 1
Find(x, i, cs) == Lowest({j \in i..Len(x) : x[j] \in cs} \cup {End(x)})
FindOther(x, i, cs) == Lowest({j \in i..Len(x) : x[j] \notin cs} \cup {End(x)})
At(x, i, cs) == i <= Len(x) /\ x[i] \in cs

RECURSIVE Concat(_)
Concat(fragments) ==
  IF fragments = <<>> THEN <<>> ELSE Head(fragments) \o Concat(Tail(fragments))

-----------------------------------------------------------------------------
(* EncodeBase64 and DecodeBase64 work on a text fragment by fragment.      *)

RECURSIVE Number(_), Digits(_), Groups(_)
Number(s) == IF s = <<>> THEN 0 ELSE Head(s) + 10 * Number(Tail(s))
Digits(n) == IF n = 0 THEN <<>> ELSE <<n % 10>> \o Digits(n \div 10)
Groups(s) ==
  IF s = <<>> THEN <<>>
  ELSE IF Len(s) <= 3 THEN <<-Number(s)>>
  ELSE <<-Number(SubSeq(s, 1, 3))>> \o Groups(SubSeq(s, 4, Len(s)))
Ungroup(g) == [i \in DOMAIN g |-> Digits(-g[i])]

\* Seeded bug: every fragment is encoded by itself.
EncodeEach(fragments) == Concat([i \in DOMAIN fragments |-> Groups(fragments[i])])

RECURSIVE Encode(_, _)
Encode(fragments, carry) ==
  IF fragments = <<>> THEN <<>>
  ELSE LET here == carry \o Head(fragments)
           more == Tail(fragments) # <<>>
           rest == IF more THEN Len(here) % 3 ELSE 0
           whole == SubSeq(here, 1, Len(here) - rest)
       IN  Groups(whole) \o Encode(Tail(fragments), SubSeq(here, Len(here) - rest + 1, Len(here)))

EncodeBase64(fragments) == Encode(fragments, <<>>)
DecodeBase64(fragments) == Concat(Ungroup(Concat(fragments)))

-----------------------------------------------------------------------------
(* The scanner.  infos is the list of ElementInfos, empty for none; tagged *)
(* says whether itemtag is given.  items is the result so far, the last    *)
(* one is open; without an itemtag there is one item from the start.       *)

\* The fragments of the value that starts here, one per line.
RECURSIVE Fragments(_, _)
Fragments(x, start) ==
  LET nl == Find(x, start, {NL})
  IN  <<SubSeq(x, start, nl - 1)>>
        \o IF At(x, nl + 1, Blank) THEN Fragments(x, nl + 2) ELSE <<>>

RECURSIVE AfterValue(_, _)
AfterValue(x, start) ==
  LET nl == Find(x, start, {NL})
  IN  IF At(x, nl + 1, Blank) THEN AfterValue(x, nl + 2) ELSE nl + 1

InfoFor(infos, name) ==
  LET fit == {k \in DOMAIN infos : infos[k].attribute = name}
  IN  IF fit = {} THEN <<>> ELSE <<infos[Lowest(fit)]>>

Value(infos, info, b64, fragments) ==
  CASE infos # <<>> /\ b64 /\ ~info[1].base64  -> DecodeBase64(fragments)
    [] infos # <<>> /\ ~b64 /\ info[1].base64  -> EncodeBase64(fragments)
    [] infos = <<>> /\ b64                     -> DecodeBase64(fragments)
    [] OTHER                                   -> Concat(fragments)

AddAttribute(items, new_item, attribute) ==
  IF new_item THEN Append(items, <<attribute>>)
  ELSE [items EXCEPT ![Len(items)] = Append(@, attribute)]

RECURSIVE SkipLine(_, _, _, _, _), WaitForItem(_, _, _, _, _),
          ScanName(_, _, _, _, _, _), SkipBroken(_, _, _, _, _, _)

SkipLine(x, i, infos, tagged, items) ==
  LET nl == Find(x, i, {NL}) IN
  IF nl = End(x) THEN items
  ELSE IF At(x, nl + 1, Blank) THEN SkipLine(x, nl + 1, infos, tagged, items)
  ELSE WaitForItem(x, nl + 1, infos, tagged, items)

WaitForItem(x, i, infos, tagged, items) ==
  LET j == FindOther(x, i, Space) IN
  CASE j = End(x)              -> items
    [] At(x, j, {SearchResult}) -> items
    [] At(x, j, Garbage) -> SkipLine(x, j, infos, tagged, items)
    [] OTHER -> ScanName(x, j, infos, tagged, items, TRUE)

ScanName(x, i, infos, tagged, items, new_item) ==
  LET j == Find(x, i, {Sharp, SearchResult, Colon}) IN
  CASE j = End(x) -> items
    [] j # End(x) /\ (x[j] # Colon \/ j = i) ->
         SkipBroken(x, j, infos, tagged, items, new_item)
    [] OTHER ->
         LET b64 == At(x, j + 1, {Colon})
             colon == IF b64 THEN j + 1 ELSE j
             start == IF At(x, colon + 1, Blank) THEN colon + 2 ELSE colon + 1
             name == SubSeq(x, i, j - 1)
             info == InfoFor(infos, name)
             skip == infos # <<>> /\ info = <<>>
             fresh == new_item /\ tagged /\ ~skip
             value == Value(infos, info, b64, Fragments(x, start))
             attribute == [name |-> IF info = <<>> THEN name ELSE info[1].element,
                           value |-> value]
             now == IF skip THEN items ELSE AddAttribute(items, fresh, attribute)
             next == AfterValue(x, start)
         IN  IF next > Len(x) THEN now
             ELSE IF x[next] = NL THEN WaitForItem(x, next, infos, tagged, now)
             ELSE ScanName(x, next, infos, tagged, now, new_item /\ ~fresh)

SkipBroken(x, i, infos, tagged, items, new_item) ==
  LET nl == Find(x, i, {NL}) IN
  CASE nl + 1 > Len(x)    -> items
    [] At(x, nl + 1, {NL}) -> WaitForItem(x, nl + 1, infos, tagged, items)
    [] At(x, nl + 1, Blank) -> SkipBroken(x, nl + 1, infos, tagged, items, new_item)
    [] OTHER -> ScanName(x, nl + 1, infos, tagged, items, new_item)

LdifToHash(x, infos, tagged) ==
  LET none == IF tagged THEN <<>> ELSE << <<>> >>
  IN  IF At(x, 1, {Version}) THEN SkipLine(x, 1, infos, tagged, none)
      ELSE WaitForItem(x, 1, infos, tagged, none)

-----------------------------------------------------------------------------
(* What LDIF says (RFC 2849, as ldapsearch prints it): objects are set off *)
(* by empty lines, a line that starts with a blank continues the one       *)
(* before it and comments may stand anywhere.  Every line ends with a      *)
(* newline: a comment that ends the input without one is outside what      *)
(* match() can look at.                                                    *)

\* The text in lines of at most width characters.
RECURSIVE Fold(_, _)
Fold(s, width) ==
  IF Len(s) <= width THEN s
  ELSE SubSeq(s, 1, width) \o <<NL, SP>> \o Fold(SubSeq(s, width + 1, Len(s)), width)

\* An attribute: name, value and whether the value is sent encoded.
Line(a, width) ==
  a.name \o (IF a.b64 THEN <<Colon, Colon, SP>> ELSE <<Colon, SP>>)
    \o Fold(IF a.b64 THEN Groups(a.value) ELSE a.value, width) \o <<NL>>

\* style: version (the first line), width, comment (before every attribute),
\* gap (lines between objects), result (the last line).
CommentLine == <<Sharp, SP, 9, Colon, NL, SP, 9, NL>>
Render(objects, style) ==
  LET Object(o) == Concat([i \in DOMAIN o |->
                     (IF style.comment THEN CommentLine ELSE <<>>) \o Line(o[i], style.width)])
                   \o style.gap
  IN  (IF style.version THEN <<Version, SP, 9, NL, NL>> ELSE <<>>)
        \o Concat([i \in DOMAIN objects |-> Object(objects[i])])
        \o (IF style.result THEN <<SearchResult, NL, 9, Colon, SP, 9, NL>> ELSE <<>>)

Meaning(objects, infos, tagged) ==
  LET Wanted(a) == infos = <<>> \/ InfoFor(infos, a.name) # <<>>
      Kept(o) == SelectSeq(o, Wanted)
      Given(a) ==
        IF infos = <<>> THEN [name |-> a.name, value |-> a.value]
        ELSE LET info == InfoFor(infos, a.name)[1]
             IN  [name |-> info.element,
                  value |-> IF info.base64 THEN Groups(a.value) ELSE a.value]
      Item(o) == [i \in DOMAIN Kept(o) |-> Given(Kept(o)[i])]
      items == [i \in DOMAIN objects |-> Item(objects[i])]
      NonEmpty(item) == item # <<>>
  IN  IF tagged THEN SelectSeq(items, NonEmpty) ELSE <<Concat(items)>>

\* However a search result is laid out - folded in the middle of a value, with
\* comments between the attributes of an object, values encoded or not - the
\* scanner returns its objects with the attributes asked for and their values
\* as asked for, and no empty object.
ReadsLdif(case) ==
  LdifToHash(Render(case.objects, case.style), case.infos, case.tagged)
    = Meaning(case.objects, case.infos, case.tagged)
=============================================================================
