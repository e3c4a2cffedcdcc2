-------------------------- MODULE BridgeAttributes --------------------------
(***************************************************************************)
(* sibridge: the commands that choose objects by a part of their name      *)
(* (.release, .classes, .deb).  A name is a sequence of characters, the    *)
(* capital of the character c is c + Case.  A machine has a faiclass, its  *)
(* classes and its release ("a b :r"), and mirrors; the changes are what   *)
(* SystemSetStateMulti stores.                                             *)
(***************************************************************************)
EXTENDS Integers, FiniteSets, SequencesExt

Case == 100
NoRelease == <<0>>

ToLower(s) == [i \in DOMAIN s |-> IF s[i] > Case THEN s[i] - Case ELSE s[i]]
HasPart(name, sub) ==
  \E i \in 0..(Len(name) - Len(sub)) :
     ToLower(SubSeq(name, i + 1, i + Len(sub))) = ToLower(sub)

FirstScore == 19770120

\* Seeded bug: the names that were as good as a worse one remain.
NextMatchAll(acc, name, sub) ==
  LET score == Len(name) - Len(sub) IN
  IF score > acc.score \/ ~HasPart(name, sub) THEN acc
  ELSE [best |-> Append(acc.best, name), score |-> score]

\* One turn of the loop over the candidates: best has several names when there are
\* "Multiple matches", and a name does not compete with itself.
NextMatch(acc, name, sub) ==
  LET score == Len(name) - Len(sub) IN
  IF score > acc.score \/ ~HasPart(name, sub) THEN acc
  ELSE IF score = acc.score /\ acc.best # <<name>>
    THEN [acc EXCEPT !.best = Append(@, name)]
  ELSE [best |-> <<name>>, score |-> score]

Matches(sub, names) ==
  FoldLeft(LAMBDA acc, name : NextMatch(acc, name, sub),
           [best |-> <<>>, score |-> FirstScore], names).best

\* All substrings' matches in order, unless one has none or several.
NextChosen(acc, sub, names) ==
  LET best == Matches(sub, names) IN
  IF ~acc.complete \/ Len(best) # 1 THEN [acc EXCEPT !.complete = FALSE]
  ELSE [acc EXCEPT !.chosen = Append(@, best[1])]
Choose(subs, names) ==
  FoldLeft(LAMBDA acc, sub : NextChosen(acc, sub, names),
           [complete |-> TRUE, chosen |-> <<>>], subs)

\* .release: the substring (all words of the line) chooses the release, the classes
\* are kept.
commandRelease(host, sub, releases) ==
  LET best == Matches(sub, releases) IN
  IF sub = <<>> \/ Len(best) # 1 THEN host ELSE [host EXCEPT !.release = best[1]]

\* .classes: out of the classes of the machine's release.
commandClasses(host, subs, classes) ==
  LET c == Choose(subs, classes[host.release]) IN
  IF subs = <<>> \/ host.release = NoRelease \/ ~c.complete THEN host
  ELSE [host EXCEPT !.classes = c.chosen]

\* .deb: out of the repositories of the servers that have the machine's release.
commandDeb(host, subs, servers) ==
  LET fitting == SelectSeq(servers, LAMBDA s : s.fai_release = host.release)
      c == Choose(subs, [i \in DOMAIN fitting |-> fitting[i].server])
  IN  IF subs = <<>> \/ host.release = NoRelease \/ ~c.complete THEN host
      ELSE [host EXCEPT !.mirrors = c.chosen]

-----------------------------------------------------------------------------
\* "an arbitrary string that is used to select among a set of objects the one whose
\* name contains the substring (case-insensitive). If there are multiple matches the
\* object with the fewest additional characters is selected": {} or one name.
Selected(sub, names) ==
  LET containing == {n \in ToSet(names) : HasPart(n, sub)}
      shortest == {n \in containing : \A m \in containing : Len(n) <= Len(m)}
  IN  IF Cardinality(shortest) = 1 THEN shortest ELSE {}

\* q is one machine and one command with its substrings and candidates; the answer
\* is the machine afterwards.
Answer(q) ==
  CASE q.command = ".release" -> commandRelease(q.host, Head(q.subs), q.names)
    [] q.command = ".classes" ->
         commandClasses(q.host, q.subs, [r \in {q.host.release} |-> q.names])
    [] q.command = ".deb" ->
         commandDeb(q.host, q.subs,
           [i \in 1..(2 * Len(q.names)) |->
              [server |-> q.names[(i + 1) \div 2],
               fai_release |-> IF i % 2 = 1 THEN q.host.release ELSE <<0, 0>>]])

Field(command) ==
  CASE command = ".release" -> "release" [] command = ".classes" -> "classes"
    [] command = ".deb" -> "mirrors"

\* A substring chooses the one name that contains it with the fewest additional
\* characters, in whatever order and however often the candidates are listed; if
\* one substring chooses none the machine stays as it was, and no other attribute
\* changes.
SubstringsSelect(q) ==
  LET chosen == [i \in DOMAIN q.subs |-> Selected(q.subs[i], q.names)]
      all == [i \in DOMAIN q.subs |-> CHOOSE n \in chosen[i] : TRUE]
      value == IF q.command = ".release" THEN all[1] ELSE all
  IN  Answer(q) =
        IF {} \in Range(chosen) \/ (q.command # ".release" /\ q.host.release = NoRelease)
          THEN q.host ELSE [q.host EXCEPT ![Field(q.command)] = value]
=============================================================================
