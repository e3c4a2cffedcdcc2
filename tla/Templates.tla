----------------------------- MODULE Templates -----------------------------
(***************************************************************************)
(* The template objects for new systems (db/systemdb.go): their matching   *)
(* rules and the choice of the ones that fit, most specific first.         *)
(*                                                                         *)
(* A rule and a value are sequences of characters; a system is a function  *)
(* from the names of attributes to sequences of values.                    *)
(***************************************************************************)
EXTENDS Naturals, Sequences, SequencesExt

Letters == {"a", "b", "S", "s"}
Marks == {"=", "~", "!"}
Own == <<<<"a">>, <<"b", "a">>>> \* what the pseudo-attribute siserver stands for

Lower(s) == [n \in DOMAIN s |-> IF s[n] = "S" THEN "s" ELSE s[n]]

-----------------------------------------------------------------------------
\* Regular expressions: characters, "." for any, anchors, \s, \S, and \s+.
Fits(class, escaped, c) ==
  IF ~escaped THEN class = "." \/ c = class
  ELSE CASE class = "s" -> c = " " [] class = "S" -> c # " " [] OTHER -> c = class

RECURSIVE MatchHere(_, _, _)
MatchHere(re, s, i) ==
  LET escaped == re[1] = "\\"
      class == IF escaped THEN re[2] ELSE re[1]
      rest == SubSeq(re, IF escaped THEN 3 ELSE 2, Len(re))
      many == rest # <<>> /\ rest[1] = "+"
      here == i <= Len(s) /\ Fits(class, escaped, s[i])
  IN IF re = <<>> THEN TRUE
     ELSE IF re[1] = "^" THEN i = 1 /\ MatchHere(Tail(re), s, i)
     ELSE IF re[1] = "$" THEN i = Len(s) + 1 /\ MatchHere(Tail(re), s, i)
     ELSE IF many THEN here /\ (MatchHere(Tail(rest), s, i + 1) \/ MatchHere(re, s, i + 1))
     ELSE here /\ MatchHere(rest, s, i + 1)
MatchString(re, s) == \E i \in 1..Len(s) + 1 : MatchHere(re, s, i)

-----------------------------------------------------------------------------
\* A rule is read part by part: a name, a mark, a regular expression in slashes.
\* Whitespace between them is skipped.
After(s, i, S) == \* the first place from i on that is not in S
  CHOOSE j \in i..Len(s) + 1 :
    (j > Len(s) \/ s[j] \notin S) /\ \A k \in i..j - 1 : s[k] \in S

\* The expression from place i on: [re, end], where end is the place of the slash, or 0.
\* Whitespace becomes \s+, except at the beginning; a backslash before it is dropped.
RECURSIVE Regex(_, _, _)
Regex(s, i, re) ==
  IF i > Len(s) THEN [re |-> re, end |-> 0]
  ELSE IF s[i] = "/" THEN [re |-> re, end |-> i]
  ELSE IF s[i] = "\\" /\ i < Len(s) /\ s[i + 1] # " " THEN Regex(s, i + 2, re \o <<"\\", s[i + 1]>>)
  ELSE IF s[i] = "\\" THEN Regex(s, i + 1, re)
  ELSE IF s[i] = " " THEN Regex(s, After(s, i, {" "}), re \o IF re = <<>> THEN <<>> ELSE <<"\\", "s", "+">>)
  ELSE Regex(s, i + 1, Append(re, s[i]))

\* The parts from place i on; a rule that is no rule ends with a broken one.
Broken == <<[attr |-> <<>>, positive |-> TRUE, re |-> <<>>, broken |-> TRUE]>>
RECURSIVE Parts(_, _)
Parts(s, i0) ==
  LET i == After(s, i0, {" "})
      nameEnd == CHOOSE j \in i..Len(s) + 1 :
                   (j > Len(s) \/ s[j] \in Marks \cup {" "})
                   /\ \A k \in i..j - 1 : s[k] \notin Marks \cup {" "}
      name == SubSeq(s, i, nameEnd - 1)
      op == After(s, nameEnd, {" "})
      opEnd == After(s, op, Marks)
      mark == SubSeq(s, op, opEnd - 1)
      slash == After(s, opEnd, {" "})
      regex == Regex(s, slash + 1, <<>>)
      positive == mark \in {<<"~", "=">>, <<"=", "~">>, <<"=">>, <<"~">>}
      negative == mark \in {<<"!", "=">>, <<"!", "~">>, <<"!">>, <<"~", "!">>}
  IN IF i > Len(s) THEN <<>>
     ELSE IF \/ name = <<>> \/ \E n \in DOMAIN name : name[n] \notin Letters
             \/ ~(positive \/ negative)
             \/ slash > Len(s) \/ s[slash] # "/" \/ regex.end = 0
          THEN Broken
     ELSE <<[attr |-> name, positive |-> positive, re |-> regex.re, broken |-> FALSE]>>
          \o Parts(s, regex.end + 1)

-----------------------------------------------------------------------------
\* The system's values; one without a value is like an empty one.
Values(system, attr) ==
  LET v == IF attr = <<"s">> THEN Own ELSE IF attr \in DOMAIN system THEN system[attr] ELSE <<>>
  IN IF v = <<>> THEN <<<<>>>> ELSE v
Hit(system, part) ==
  \E n \in DOMAIN Values(system, part.attr) :
    MatchString(part.re, Lower(Values(system, part.attr)[n]))

\* The states of matching: among negative parts, "waiting" for a hit in a group of
\* positive ones, or "have" one; the score counts what went well.
Start == [state |-> "negative", score |-> 0, fails |-> FALSE]

\* As Step below, but a group without a hit may be followed by negative parts.
StepOn(system, m, part) ==
  LET hit == Hit(system, part)
  IN IF part.broken THEN [m EXCEPT !.fails = TRUE]
     ELSE IF part.positive
     THEN [m EXCEPT !.state = IF hit \/ @ = "have" THEN "have" ELSE "waiting",
                    !.score = IF hit THEN @ + 1 ELSE @]
     ELSE [m EXCEPT !.state = "negative", !.score = @ + 1, !.fails = @ \/ hit]

Step(system, m, part) ==
  LET hit == Hit(system, part)
  IN IF part.broken THEN [m EXCEPT !.fails = TRUE]
     ELSE IF part.positive
     THEN [m EXCEPT !.state = IF hit \/ @ = "have" THEN "have" ELSE "waiting",
                    !.score = IF hit THEN @ + 1 ELSE @]
     ELSE [m EXCEPT !.state = "negative", !.score = @ + 1,
                    !.fails = @ \/ m.state = "waiting" \/ hit]

Score(m) == IF m.fails \/ m.state = "waiting" THEN 0 ELSE m.score
templateMatch(system, gocomment) ==
  Score(FoldLeft(LAMBDA m, part : Step(system, m, part), Start, Parts(Lower(gocomment), 1)))

\* The templates by score, a later one first among equals; comments are their rules.
Place(score, list, n) ==
  CHOOSE i \in 1..Len(list) + 1 :
    /\ i <= Len(list) => score[n] >= score[list[i]]
    /\ \A k \in 1..i - 1 : score[n] < score[list[k]]
Add(score, list, n) ==
  IF score[n] = 0 THEN list ELSE InsertAt(list, Place(score, list, n), n)
Sorted(score) ==
  FoldLeft(LAMBDA list, n : Add(score, list, n), <<>>, [n \in DOMAIN score |-> n])
SystemGetTemplatesFor(system, comments) ==
  Sorted([n \in DOMAIN comments |-> templateMatch(system, comments[n])])

-----------------------------------------------------------------------------
\* A rule as it is meant: parts with an attribute, whether the value should match,
\* the expression as written and as understood; and what GOsa's user types.
Gap(wide) == IF wide THEN <<" ", " ">> ELSE <<>>
Written(part, wide) ==
  Gap(wide) \o part.attr \o Gap(wide) \o (IF part.positive THEN <<"=", "~">> ELSE <<"!", "~">>)
  \o Gap(wide) \o <<"/">> \o part.source \o <<"/">>
Rule(parts, wide) == FlattenSeq([n \in DOMAIN parts |-> Written(parts[n], wide)])

Meant(system, part) ==
  LET v == IF part.attr \in DOMAIN system THEN system[part.attr] ELSE <<<<>>>>
  IN \E n \in DOMAIN v : MatchString(part.re, v[n])
SameGroup(parts, n, m) ==
  \A k \in DOMAIN parts : (n <= k /\ k <= m) \/ (m <= k /\ k <= n) => parts[k].positive
FitsRule(system, parts) ==
  \A n \in DOMAIN parts :
    IF parts[n].positive
    THEN \E m \in DOMAIN parts : SameGroup(parts, n, m) /\ Meant(system, parts[m])
    ELSE ~Meant(system, parts[n])
Specificity(system, parts) ==
  IF ~FitsRule(system, parts) THEN 0
  ELSE Len(SelectSeq(parts, LAMBDA p : ~p.positive \/ Meant(system, p)))

\* The rules do what the manual says (go-susi-manual.xhtml, "Matching rule language"):
\* of each group of parts that should match one does, none does that should not; the
\* more parts went well the earlier a template comes; a rule without its last slash
\* fits nothing.
InOrder(list, spec) ==
  /\ ToSet(list) = {n \in DOMAIN spec : spec[n] > 0}
  /\ IsInjective(list)
  /\ \A i, j \in DOMAIN list : i < j => spec[list[i]] >= spec[list[j]]
TemplatesFit(system, rules, wide) ==
  LET comments == [n \in DOMAIN rules |-> Rule(rules[n], wide)]
  IN /\ InOrder(SystemGetTemplatesFor(system, comments),
                [n \in DOMAIN rules |-> Specificity(system, rules[n])])
     /\ \A n \in DOMAIN rules : rules[n] # <<>> => templateMatch(system, Front(comments[n])) = 0
=============================================================================
