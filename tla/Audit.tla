------------------------------- MODULE Audit -------------------------------
(***************************************************************************)
(* db/audit.go, message/gosa_query_audit.go and                            *)
(* message/gosa_query_audit_aggregate.go: which audit of every machine is  *)
(* read, and how its entries become answers, counts and lists of the       *)
(* machines that have none.                                                *)
(*                                                                         *)
(* A machine is [mac, dirs]: a set of directories [name, found, head,      *)
(* entries].  found says that the file can be read and has an <entry>;     *)
(* entries are those before its end or the first damage.  head and the     *)
(* entries are functions from column names to values; an entry may         *)
(* override the machine's own "macaddress".  Both messages scan without    *)
(* the optional restriction to one machine or to files that contain a      *)
(* string.                                                                 *)
(***************************************************************************)
EXTENDS XmlWhere, FiniteSets, SequencesExt

CONSTANT StampLength   \* bound: digits of a timestamp (14 in the program)

Stamp(name) ==
  LET IsDigit(c) == c \in Digits IN SelectSeq(name, IsDigit)

IsAudit(name) ==
  Len(Stamp(name)) = StampLength
  /\ \A i \in DOMAIN name : name[i] \in Digits \cup {Underscore}

\* The digits are compared until one of the two ends.
Against(name, timestamp) ==
  LET s == Stamp(name)
      t == Stamp(timestamp)
      both == IF Len(s) < Len(t) THEN Len(s) ELSE Len(t)
  IN  Compare(SubSeq(s, 1, both), SubSeq(t, 1, both))

InTimestampRange(name, ts1, ts2) == Against(name, ts1) >= 0 /\ Against(name, ts2) <= 0

\* The greatest name, as a string.
Latest(dirs) == CHOOSE d \in dirs : \A e \in dirs : Compare(e.name, d.name) <= 0

-----------------------------------------------------------------------------
(* auditScanDir and auditScanFile: the entries a machine contributes, or   *)
(* <<>> and the timestamp its <noaudit> has.                               *)

\* Seeded bug: only a machine's latest audit is considered.
SelectLatest(dirs, ts1, ts2) ==
  LET audits == {d \in dirs : IsAudit(d.name)}
      last == {d \in audits : d = Latest(audits)}
  IN  {d \in last : InTimestampRange(d.name, ts1, ts2)}

SelectAudit(dirs, ts1, ts2) ==
  LET inside == {d \in dirs : IsAudit(d.name) /\ InTimestampRange(d.name, ts1, ts2)}
  IN  {d \in inside : d = Latest(inside)}

\* findFirstEntry: the header is read for what it gives, as far as an <entry>.
Readable(dirs) == {d \in dirs : d.found}

\* Columns the entry does not give come from the head of the file and from the
\* names of the directories; others are empty.
Entry(given, e, props) ==
  LET all == e @@ given
  IN  [c \in Range(props) |-> IF c \in DOMAIN all THEN all[c] ELSE <<>>]

EntriesOf(d, mac, last, props) ==
  LET given == d.head @@ ("macaddress" :> mac) @@ ("lastaudit" :> last)
  IN  [i \in DOMAIN d.entries |-> Entry(given, d.entries[i], props)]

ScanSelected(mac, last, selected, props) ==
  IF Readable(selected) # {}
  THEN [entries |-> EntriesOf(CHOOSE d \in Readable(selected) : TRUE, mac, last, props),
        noaudit |-> <<>>]
  ELSE [entries |-> <<>>,
        noaudit |-> <<[mac |-> mac, lastaudit |-> IF selected = {} THEN last ELSE <<>>]>>]

LastAudit(audits) == IF audits = {} THEN <<>> ELSE Stamp(Latest(audits).name)

ScanDir(machine, ts1, ts2, props) ==
  ScanSelected(machine.mac, LastAudit({d \in machine.dirs : IsAudit(d.name)}),
               SelectAudit(machine.dirs, ts1, ts2), props)

\* AuditScanSubdirs: the machines in the order in which Readdir gives them.
Joined(scans) ==
  [entries |-> FlattenSeq([i \in DOMAIN scans |-> scans[i].entries]),
   noaudit |-> FlattenSeq([i \in DOMAIN scans |-> scans[i].noaudit])]
Scan(machines, ts1, ts2, props) ==
  Joined([i \in DOMAIN machines |-> ScanDir(machines[i], ts1, ts2, props)])

-----------------------------------------------------------------------------
(* The columns of a query: the selected ones come first, those only its    *)
(* conditions use follow.                                                  *)

Extend(props, column) ==
  IF column \in Range(props) THEN props ELSE Append(props, column)

WhereColumns(where) ==
  IF WhereFilter(where) = <<>> THEN <<>>
  ELSE FlattenSeq([i \in DOMAIN where |->
         [j \in DOMAIN where[i].phrases |->
            CHOOSE c \in where[i].phrases[j].columns : TRUE]])

\* A condition with an error accepts nothing.
EntryFilter(where) ==
  LET f == WhereFilter(where) IN IF f = <<>> THEN FilterNone ELSE f[1]
EntryAccepts(filter, entry) == Accepts(filter, [c \in DOMAIN entry |-> <<entry[c]>>])

-----------------------------------------------------------------------------
(* gosa_query_audit.  left is the number of answers that may still be      *)
(* given, -1 after one too many was found, and NoLimit.                    *)

NoLimit == -2

NonMatching(state) == state.nonmatch \ state.match

Collect(state, entry, filter, selected) ==
  LET mac == entry["macaddress"]
      accepts == state.left # -1 /\ EntryAccepts(filter, entry)
      known == [state EXCEPT !.known = @ \cup {mac},
                             !.left = IF accepts /\ @ # NoLimit THEN @ - 1 ELSE @]
  IN  IF accepts /\ known.left # -1
      THEN [known EXCEPT !.match = @ \cup {mac},
                         !.answers = Append(@, [c \in Range(selected) |-> entry[c]])]
      ELSE [known EXCEPT !.nonmatch = @ \cup {mac}]

AnswerFrom(scan, q, selected, maxAnswers) ==
  LET start == [known |-> {}, match |-> {}, nonmatch |-> {}, answers |-> <<>>,
                left |-> IF maxAnswers <= 0 THEN NoLimit ELSE maxAnswers]
      end == FoldLeft(LAMBDA s, e : Collect(s, e, EntryFilter(q.where), selected),
                      start, scan.entries)
  IN  [answers |-> end.answers,
       nonmatching |-> IF q.includeothers THEN NonMatching(end) ELSE {},
       noaudit |-> IF q.includeothers THEN scan.noaudit ELSE <<>>,
       known |-> Cardinality(end.known), unknown |-> Len(scan.noaudit)]

gosa_query_audit(machines, q, maxAnswers) ==
  LET selected == FoldLeft(Extend, <<>>, q.select)
      props == FoldLeft(Extend, selected, <<"macaddress">> \o WhereColumns(q.where))
  IN  AnswerFrom(Scan(machines, q.tstart, q.tend, props), q, selected, maxAnswers)

-----------------------------------------------------------------------------
(* gosa_query_audit_aggregate.  A count is [as, unique, where]; a tally of *)
(* the counts has a number and the unique combinations seen for each.      *)

\* A count needs a name that no selected column has.  Two counts may have the
\* same name: the map that is to tell stays empty.
Counts(q) ==
  LET Valid(count) == count.as \notin {""} \cup Range(q.select)
  IN  SelectSeq(q.counts, Valid)

Fresh(counts) == [i \in DOMAIN counts |-> [n |-> 0, seen |-> {}]]

CountOne(tally, combination) ==
  IF combination = <<>> THEN [tally EXCEPT !.n = @ + 1]
  ELSE IF combination \in tally.seen THEN tally
  ELSE [n |-> tally.n + 1, seen |-> tally.seen \cup {combination}]

Tally(tallies, counts, entry) ==
  [i \in DOMAIN counts |->
     IF EntryAccepts(EntryFilter(counts[i].where), entry)
     THEN CountOne(tallies[i],
                   [k \in DOMAIN counts[i].unique |-> entry[counts[i].unique[k]]])
     ELSE tallies[i]]

\* Seeded bug: what is not counted for an answer is not counted at all.
TallyEntryShort(state, counts, key, fits, entry) ==
  LET groups == IF key = <<>> \/ key \in DOMAIN state.groups \/ ~fits THEN state.groups
                ELSE [k \in DOMAIN state.groups \cup {key} |->
                        IF k = key THEN Fresh(counts) ELSE state.groups[k]]
  IN  IF key \notin DOMAIN groups THEN state
      ELSE [groups |-> [groups EXCEPT ![key] = Tally(@, counts, entry)],
            total |-> Tally(state.total, counts, entry)]

TallyEntry(state, counts, key, fits, entry) ==
  LET groups == IF key = <<>> \/ key \in DOMAIN state.groups \/ ~fits THEN state.groups
                ELSE [k \in DOMAIN state.groups \cup {key} |->
                        IF k = key THEN Fresh(counts) ELSE state.groups[k]]
  IN  [groups |-> IF key \notin DOMAIN groups THEN groups
                  ELSE [groups EXCEPT ![key] = Tally(@, counts, entry)],
       total |-> Tally(state.total, counts, entry)]

AggregateFrom(scan, counts, q, selected, maxAnswers) ==
  LET Key(entry) == [i \in DOMAIN selected |-> entry[selected[i]]]
      end == FoldLeft(LAMBDA s, e :
                        TallyEntry(s, counts, Key(e),
                                   Cardinality(DOMAIN s.groups) < maxAnswers, e),
                      [groups |-> [k \in {} |-> {}], total |-> Fresh(counts)],
                      scan.entries)
      Numbers(tallies) == [i \in DOMAIN counts |-> tallies[i].n]
  IN  [aggregate |-> Numbers(end.total),
       answers |-> [k \in DOMAIN end.groups |-> Numbers(end.groups[k])],
       known |-> Cardinality({scan.entries[i]["macaddress"] : i \in DOMAIN scan.entries}),
       noaudit |-> IF q.includeothers THEN scan.noaudit ELSE <<>>,
       unknown |-> Len(scan.noaudit)]

gosa_query_audit_aggregate(machines, q, maxAnswers) ==
  LET selected == FoldLeft(Extend, <<>>, q.select)
      used == FlattenSeq([i \in DOMAIN Counts(q) |->
                Counts(q)[i].unique \o WhereColumns(Counts(q)[i].where)])
      props == FoldLeft(Extend, selected, <<"macaddress">> \o used)
  IN  AggregateFrom(Scan(machines, q.tstart, q.tend, props), Counts(q), q, selected,
                    maxAnswers)

-----------------------------------------------------------------------------
Macs(machines) == {machines[i].mac : i \in DOMAIN machines}
\* No entry speaks for another machine, and no file breaks off in its first one.
OwnEntries(machines) ==
  \A i \in DOMAIN machines : \A d \in machines[i].dirs :
    /\ d.found => d.entries # <<>>
    /\ \A k \in DOMAIN d.entries : "macaddress" \notin DOMAIN d.entries[k]

\* A reply that lists the others mentions every machine in exactly one place:
\* as an answer, as not matching or as not audited, and counts it once, as known
\* or unknown.  (Not so after the limit of answers is reached, when machines
\* that match are listed as not matching.)
MentionsOnce(reply, machines) ==
  LET answered == {reply.answers[i]["macaddress"] : i \in DOMAIN reply.answers}
      absent == {reply.noaudit[i].mac : i \in DOMAIN reply.noaudit}
  IN  /\ answered \cup reply.nonmatching \cup absent = Macs(machines)
      /\ answered \cap reply.nonmatching = {}
      /\ absent \cap (answered \cup reply.nonmatching) = {}
      /\ reply.known + reply.unknown = Len(machines)
EveryMachineOnce(machines, q) ==
  OwnEntries(machines) =>
    MentionsOnce(gosa_query_audit(machines,
                   [q EXCEPT !.includeothers = TRUE, !.select = <<"macaddress">>], 0),
                 machines)

\* What is answered for a machine was recorded by its most recent audit within
\* the requested time, if the names of its audits are written in one way.
AnswersLatest(machines, q) ==
  \A i \in DOMAIN machines :
    LET dirs == machines[i].dirs
        Older(d, e) == Compare(Stamp(d.name), Stamp(e.name)) <= 0
        inside == {d \in dirs : /\ IsAudit(d.name)
                                /\ InTimestampRange(d.name, q.tstart, q.tend)}
        Alike(d, e) == \A k \in DOMAIN d.name :
                         d.name[k] = Underscore <=> e.name[k] = Underscore
        seen == ScanDir(machines[i], q.tstart, q.tend, <<"version">>).entries
    IN  (\A d, e \in dirs : Len(d.name) = Len(e.name) /\ Alike(d, e)) /\ inside # {}
        => \E d \in inside :
             /\ \A e \in inside : Older(e, d)
             /\ [k \in DOMAIN seen |-> seen[k]["version"]]
                  = [k \in DOMAIN d.entries |-> d.entries[k]["version"]]

\* The totals count every accepted entry, or every unique combination, however
\* many answers the reply may have.  The answers' counts add up to the total
\* when each combination can be in one answer only.
AddsUp(reply, all, counts, q, maxAnswers) ==
  LET Sum(i) == FoldSet(LAMBDA k, n : n + reply.answers[k][i], 0, DOMAIN reply.answers)
      apart == {i \in DOMAIN counts :
                  counts[i].unique = <<>> \/ Range(q.select) \subseteq Range(counts[i].unique)}
  IN  /\ Counts([q EXCEPT !.select = <<>>]) = counts => reply.aggregate = all.aggregate
      /\ \A i \in apart : Sum(i) <= reply.aggregate[i]
      /\ Cardinality(DOMAIN reply.answers) < maxAnswers /\ q.select # <<>> =>
           \A i \in DOMAIN counts :
             /\ Sum(i) >= reply.aggregate[i]
             /\ i \in apart => Sum(i) = reply.aggregate[i]
AggregatesAddUp(machines, q, maxAnswers) ==
  AddsUp(gosa_query_audit_aggregate(machines, q, maxAnswers),
         gosa_query_audit_aggregate(machines, [q EXCEPT !.select = <<>>], 0),
         Counts(q), q, maxAnswers)
=============================================================================
