------------------------------- MODULE Bridge -------------------------------
(***************************************************************************)
(* sibridge: lines of commands (processMessage) and what they send to the  *)
(* server.  A line is a command and its words; a word is a record that     *)
(* says what each of the parsers of words takes it for, "" where it does   *)
(* not.  A machine is known by its name, MAC and IP; the model has the     *)
(* name only.                                                              *)
(***************************************************************************)
EXTENDS Integers, FiniteSets, SequencesExt

CONSTANTS Machine,
          Lines,   \* the lines that may be entered, for every number of lines before
          Rights   \* the access control bits of users: sets of names

VARIABLES joblist,   \* the job descriptors of the previous command
          rights,
          line,      \* the line that was processed last
          sent,      \* the messages it sent to the server, the changes in LDAP
          selection, \* history: the list of machines by HELP_MESSAGE
          before,    \* selection before the line
          entered    \* the number of lines

bridge == <<joblist, rights, line, sent, selection, before, entered>>

JobNames == <<"update", "softupdate", "reboot", "halt", "install", "reinstall", "wakeup",
  "localboot", "lock", "unlock", "activate", "send_user_msg", "msg", "message", "audit">>
commands == JobNames \o
  <<"help", "x", "examine", "query_jobdb", "query_jobs", "jobs", "delete_jobs",
    "delete_jobdb_entry", "qq", "xx", "kill", ".release", ".classes", ".debianrepository",
    ".repository", "raw", "encrypt", "decrypt", ".gocomment", ".description", "qaudit",
    "query_audit">>
canonical ==
  <<"update", "update", "reboot", "halt", "reinstall", "reinstall", "wake", "localboot",
    "lock", "activate", "activate", "send_user_msg", "send_user_msg", "send_user_msg",
    "audit", "help", "examine", "examine", "query", "query", "query", "delete", "delete",
    "qq", "xx", "kill", ".release", ".classes", ".deb", ".deb", "raw", "encrypt",
    "decrypt", ".gocomment", ".description", "qaudit", "qaudit">>

DotCommands == {".release", ".classes", ".deb", ".gocomment", ".description"}
RawCommands == {"raw", "encrypt", "decrypt"}
None == "none"

\* The command a line's first word stands for: the first one it is a prefix of
\* (l.begins), "kill" only in full.  "foo->" copies the machine l.template.
Recognized(l) ==
  {i \in DOMAIN commands : IF commands[i] = "kill" THEN l.command = "kill"
                                                   ELSE commands[i] \in l.begins}
IsCopy(l) == l.template # ""
Command(l) ==
  IF IsCopy(l) THEN "copy"
  ELSE IF Recognized(l) = {} THEN None ELSE canonical[Min(Recognized(l))]
IsJob(l) == ~IsCopy(l) /\ Recognized(l) # {} /\ Min(Recognized(l)) <= Len(JobNames)

\* Early returns: no right to copy, no such machine or command, no subcommand.
MayReplace == {"ldap", "dn"} \subseteq rights
Unusable(l) ==
  \/ IsCopy(l) /\ (~MayReplace \/ l.template \notin Machine)
  \/ Command(l) = None
  \/ Command(l) = "qaudit" /\ l.subcommand = ""

\* "Depending on the type of command, only certain kinds of arguments are permitted".
ArgumentKinds == {"machine", "multiple_machines", "time", "job", "*", "substring"}
Allowed(l) ==
  LET cmd == Command(l)
      free == cmd \in DotCommands \cup RawCommands
      audit == cmd = "qaudit"
      alone == audit /\ l.subcommand \in {"has", "updable"}
      Permits(kind) ==
        \/ kind = "machine" /\ ~free /\ ~alone
        \/ kind = "multiple_machines" /\ ~audit
        \/ kind = "time" /\ (IsJob(l) \/ audit)
        \/ kind = "job" /\ cmd = "delete"
        \/ kind = "*" /\ cmd \in {"delete", "query", "qq", "qaudit"} /\ ~alone
        \/ kind = "substring" /\ (free \/ audit)
  IN  {kind \in ArgumentKinds : Permits(kind)}

-----------------------------------------------------------------------------
(* Job descriptors.                                                        *)

Blank == [Name |-> "", Date |-> "", Time |-> "", Job |-> "", Sub |-> <<>>]
Illegal == [Blank EXCEPT !.Name = "! Illegal argument"]

HasMachine(j) == j.Name # ""
HasOther(j) == j.Job # "" \/ j.Time # "" \/ j.Date # ""

\* The first parser that takes the word: a name such as "rei" is a machine before
\* it is a type of jobs.
Parse(w, allowed) ==
  IF "time" \in allowed /\ (w.date # "" \/ w.time # "")
    THEN [Blank EXCEPT !.Date = w.date, !.Time = w.time]
  ELSE IF "machine" \in allowed /\ w.machine # "" THEN [Blank EXCEPT !.Name = w.machine]
  ELSE IF "job" \in allowed /\ w.job # "" THEN [Blank EXCEPT !.Job = w.job]
  ELSE IF "*" \in allowed /\ w.wild # "" THEN [Blank EXCEPT !.Name = "*"]
  ELSE IF "substring" \in allowed THEN [Blank EXCEPT !.Sub = <<w.text>>]
  ELSE Illegal

ParseNext(acc, w) ==
  LET j == Parse(w, acc.allowed) IN
  IF ~acc.legal \/ j = Illegal THEN [acc EXCEPT !.legal = FALSE]
  ELSE [acc EXCEPT !.parsed = Append(@, j),
          !.allowed = IF "multiple_machines" \notin @ /\ HasMachine(j)
                        THEN @ \ {"machine", "*"} ELSE @]
ParseWords(l) ==
  FoldLeft(ParseNext, [legal |-> TRUE, parsed |-> <<>>, allowed |-> Allowed(l)], l.words)

\* "We try to understand both by checking if a machine reference is listed before
\* a time or job type and in that case we simply reverse the list."
MachinesFirst(parsed) ==
  LET machines == {i \in DOMAIN parsed : HasMachine(parsed[i])}
      others == {i \in DOMAIN parsed : HasOther(parsed[i])}
  IN  machines # {} /\ others # {} /\ Max(others) > Max(machines)

\* Seeded bug: "update dev1 10:30" is taken like "update 10:30 dev1".
OrderedAsTyped(parsed, cmd) == parsed

Ordered(parsed, cmd) ==
  IF cmd # "qaudit" /\ MachinesFirst(parsed) THEN Reverse(parsed) ELSE parsed

NamesMachine(parsed) == \E i \in DOMAIN parsed : parsed[i].Name \notin {"", "*"}
WithPrevious(parsed, previous) ==
  LET selected == SelectSeq(previous, LAMBDA j : j.Name # "*") IN
  IF NamesMachine(parsed) THEN parsed
  ELSE parsed \o [i \in DOMAIN selected |-> [Blank EXCEPT !.Name = selected[i].Name]]

\* The fields of a descriptor are the last ones seen before its machine.
Take(new, old) == IF new = "" THEN old ELSE new
MergeNext(cmd, acc, j) ==
  LET t == [acc.template EXCEPT !.Date = Take(j.Date, @), !.Time = Take(j.Time, @),
                                !.Job = Take(j.Job, @), !.Sub = @ \o j.Sub]
  IN  IF HasMachine(j) \/ cmd = "qaudit"
        THEN [template |-> IF cmd = "qaudit" THEN [t EXCEPT !.Sub = <<>>] ELSE t,
              jobs |-> Append(acc.jobs, [t EXCEPT !.Name = j.Name])]
        ELSE [acc EXCEPT !.template = t]
Merge(parsed, cmd) ==
  LET default == [Blank EXCEPT !.Time = "now",
                               !.Date = IF cmd = "qaudit" THEN "180d ago" ELSE "today"]
  IN  FoldLeft(LAMBDA acc, j : MergeNext(cmd, acc, j),
               [template |-> default, jobs |-> <<>>], parsed)

-----------------------------------------------------------------------------
(* What is asked of the server.                                            *)

\* The conjunction of clauses, each a set of machines and a set of types of jobs,
\* that gosa-si needs in place of the disjunction of descriptors.
RECURSIVE generate_clauses(_, _, _)
generate_clauses(jobs, machines, types) ==
  IF jobs = <<>>
    THEN IF machines \cup types = {} THEN {} ELSE {[machines |-> machines, types |-> types]}
  ELSE
    LET j == Head(jobs)
        byType == generate_clauses(Tail(jobs), machines, types \cup {j.Job})
        byMachine == generate_clauses(Tail(jobs), machines \cup {j.Name}, types)
    IN  IF j.Name = "*" THEN IF j.Job = "" THEN {} ELSE byType
        ELSE IF j.Job = "" THEN byMachine
        ELSE (IF j.Job \notin types THEN byType ELSE {})
             \cup (IF j.Name \notin machines \/ j.Job \in types THEN byMachine ELSE {})

MachineClause(jobs) ==
  LET names == {jobs[i].Name : i \in DOMAIN jobs} IN
  IF names = {} \/ "*" \in names THEN {} ELSE {[machines |-> names, types |-> {}]}

GosaMessage(header, clauses) == [header |-> header, where |-> clauses]

\* What the certificate must allow.
May(bits) == bits \cap rights # {}
BitOf(job) == IF job \in {"reboot", "halt"} THEN "shutdown" ELSE job
Permitted(l) ==
  LET cmd == Command(l) IN
  \/ IsJob(l) /\ May({BitOf(cmd), "jobsAll"})
  \/ cmd \in {"query", "qq"} /\ May({"queryJobs", "queryAll"})
  \/ cmd = "delete" /\ May({"modifyJobs", "jobsAll"})
  \/ cmd \in {"kill", "copy"} /\ MayReplace
  \/ cmd \in DotCommands /\ May({"ldap"})
PERMISSION_DENIED == <<>>

\* commandJob: one message for each machine.
commandJob(jobs, job) ==
  LET chosen == SelectSeq(jobs, LAMBDA j : j.Name # "*") IN
  [i \in DOMAIN chosen |->
     [header |-> job, macaddress |-> chosen[i].Name,
      timestamp |-> <<chosen[i].Date, chosen[i].Time>>]]

\* kill, copy, and the commands that set attributes: one change for each machine.
\* Where objects are selected no substring means no change.
Selecting == {".release", ".classes", ".deb"}
ChangeEach(jobs, cmd) ==
  LET chosen == SelectSeq(jobs, LAMBDA j : j.Name # "*" /\ (cmd \in Selecting => j.Sub # <<>>))
  IN  [i \in DOMAIN chosen |->
         [header |-> cmd, macaddress |-> chosen[i].Name, sub |-> chosen[i].Sub]]

Messages(l, jobs) ==
  LET cmd == Command(l)
      clauses == generate_clauses(jobs, {}, {})
  IN  IF ~Permitted(l) THEN PERMISSION_DENIED
      ELSE IF IsJob(l) THEN commandJob(jobs, cmd)
      ELSE IF cmd \in {"query", "qq"}
        THEN <<GosaMessage("gosa_query_jobdb", MachineClause(jobs))>>
      ELSE IF cmd = "delete"
        THEN <<GosaMessage("gosa_query_jobdb", clauses),
               GosaMessage("gosa_delete_jobdb_entry", clauses)>>
      ELSE ChangeEach(jobs, cmd)

-----------------------------------------------------------------------------
Init ==
  /\ joblist = <<>> /\ sent = <<>> /\ selection = <<>> /\ before = <<>> /\ entered = 0
  /\ rights \in Rights
  /\ line = [command |-> None]

\* The "Argument types" of HELP_MESSAGE: the fields of the words a command takes.
Takes(l) ==
  LET cmd == Command(l) IN
  IF IsJob(l) THEN {"machine", "date", "time"}
  ELSE IF cmd \in {"query", "qq", "delete"} THEN {"machine", "wild", "job"}
  ELSE IF cmd = "qaudit" THEN {"machine", "wild", "date", "time", "text"}
  ELSE IF cmd \in DotCommands \cup RawCommands THEN {"text"}
  ELSE {"machine"}
Legal(l) ==
  ~Unusable(l) /\ \A i \in DOMAIN l.words : \E kind \in Takes(l) : l.words[i][kind] # ""

\* The machines a line names, as typed.
Named(l) ==
  LET names == SelectSeq(l.words, LAMBDA w : w.machine # "")
  IN  IF "machine" \in Takes(l) THEN [i \in DOMAIN names |-> names[i].machine] ELSE <<>>

\* The commands after which the list of machines is empty.
Resets(cmd) == cmd \in {"delete", "qaudit"}

\* The list by HELP_MESSAGE: "The "delete" command clears the list of affected
\* machines."
Selected(l) ==
  IF ~Legal(l) THEN selection
  ELSE IF Command(l) = "delete" THEN <<>>
  ELSE IF Named(l) # <<>> THEN Named(l) ELSE selection

processMessage(l) ==
  LET result == ParseWords(l)
      cmd == Command(l)
      jobs == Merge(WithPrevious(Ordered(result.parsed, cmd), joblist), cmd).jobs
  IN
  /\ entered' = entered + 1 /\ line' = l /\ before' = selection
  /\ UNCHANGED rights
  /\ IF Unusable(l) \/ ~result.legal
       THEN UNCHANGED joblist /\ sent' = <<>>
       ELSE /\ joblist' = IF Resets(cmd) THEN <<>> ELSE jobs
            /\ sent' = Messages(l, jobs)
  /\ selection' = Selected(l)

Next == \E l \in Lines[entered] : processMessage(l)

Spec == Init /\ [][Next]_bridge

-----------------------------------------------------------------------------
(* What the line means by HELP_MESSAGE.  A name is a name of a machine even *)
(* where it is the beginning of a type of jobs.                            *)

IsMachine(w) == w.machine # "" \/ w.wild # ""
NameOf(w) == IF w.machine # "" THEN w.machine ELSE w.wild

Others(field) ==
  {i \in DOMAIN line.words : ~IsMachine(line.words[i]) /\ line.words[i][field] # ""}
AllOthers == UNION {Others(f) : f \in {"date", "time", "job"}}
Machines == {i \in DOMAIN line.words : IsMachine(line.words[i])}

\* "Times may either precede or follow the machines they should affect, but the 2
\* styles cannot be mixed within the same command."
Follow == Machines # {} /\ \E i \in AllOthers : \A p \in Machines : i > p
Mixed == Follow /\ \E i \in AllOthers : \A p \in Machines : i < p

\* The nearest word for the machine at p on the side where such words stand.
Nearest(p, field, default) ==
  LET side == {i \in Others(field) : IF Follow THEN i > p ELSE i < p} IN
  IF side = {} THEN default
  ELSE line.words[IF Follow THEN Min(side) ELSE Max(side)][field]

\* A machine of the most recent command counts as named where every such word
\* is on the right side.
Anywhere == IF Follow THEN 0 ELSE Len(line.words) + 1
Remembered == IF Named(line) = <<>> THEN before ELSE <<>>
Affected == Named(line) \o Remembered
Orders(Value(_)) ==
  {[machine |-> NameOf(line.words[p]), value |-> Value(p)] : p \in Machines}
  \cup {[machine |-> m, value |-> Value(Anywhere)] : m \in ToSet(Remembered)}

\* Each machine gets its job at its time, and no other machine gets any.
JobsMeant ==
  LET When(p) == <<Nearest(p, "date", "today"), Nearest(p, "time", "now")>> IN
  {[machine |-> s.macaddress, value |-> s.timestamp] : s \in ToSet(sent)} = Orders(When)

JobTypes == {canonical[i] : i \in DOMAIN JobNames}
Matches(clauses) ==
  {x \in Machine \X JobTypes : \A c \in clauses : x[1] \in c.machines \/ x[2] \in c.types}

\* The jobs of the machines, or of all, and of the types given.
Asked ==
  LET Type(p) == Nearest(p, "job", "")
  IN  {x \in Machine \X JobTypes :
         \E o \in Orders(Type) : o.machine \in {x[1], "*"} /\ o.value \in {x[2], ""}}
DeletionMeant ==
  /\ Len(sent) = 2 /\ sent[2].header = "gosa_delete_jobdb_entry"
  /\ Matches(sent[2].where) = Asked
QueryMeant ==
  /\ Len(sent) = 1 /\ sent[1].header = "gosa_query_jobdb"
  /\ Matches(sent[1].where) = Asked

\* Every machine of the list gets all the strings.  Of no strings the commands that
\* select something make nothing, and the others an empty attribute.
AttributesMeant ==
  LET strings == [i \in DOMAIN line.words |-> line.words[i].text]
      nothing == strings = <<>> /\ Command(line) \in Selecting
  IN  {[machine |-> s.macaddress, sub |-> s.sub] : s \in ToSet(sent)} =
        IF nothing THEN {} ELSE {[machine |-> m, sub |-> strings] : m \in ToSet(before)}

\* "Delete the LDAP object(s)", "Fill in missing LDAP attributes".
ReplacementsMeant == {s.macaddress : s \in ToSet(sent)} = ToSet(Affected)

\* "If a command is invoked without any machine arguments, the list of machines
\* from the most recent command will be affected."
SelectionKept == {joblist[i].Name : i \in DOMAIN joblist} \ {"*"} = ToSet(selection)

\* The line is for some machines, none of them twice, or for all, but not for both.
ForAll == \E p \in Machines : NameOf(line.words[p]) = "*"
ForSome == Affected # <<>> \/ ForAll
Unambiguous == IsInjective(Affected) /\ (ForAll <=> Affected = <<>>)

\* What the code does not do as the help has it, and the README tells: qaudit
\* clears the list of machines, and query takes no types of jobs.
Undocumented ==
  \/ Command(line) = "qaudit"
  \/ Command(line) \in {"query", "qq"} /\ Others("job") # {}

\* A line that is legal by the help text, of a user with the right, is obeyed as the
\* help text says, in either order of machines and times, for the machines named or
\* else those of the most recent command: jobs get the times meant, exactly the jobs
\* meant are queried and deleted, attributes get all substrings and exactly the
\* machines meant are deleted or filled in.  Any other line has no effect.
\* Queries and deletions that are for no machine, and deletions that are for a
\* machine twice, are excluded: see DeletesOnlyMatching.
CommandsMeanWhatHelpSays ==
  LET cmd == Command(line) IN
  entered > 0 /\ ~Undocumented =>
    /\ SelectionKept
    /\ ~(Legal(line) /\ Permitted(line)) => sent = <<>>
    /\ Legal(line) /\ Permitted(line) =>
         /\ IsJob(line) /\ ~Mixed => JobsMeant
         /\ cmd \in {"query", "qq"} /\ ForSome => QueryMeant
         /\ cmd = "delete" /\ ~Mixed /\ Unambiguous => DeletionMeant
         /\ cmd \in DotCommands => AttributesMeant
         /\ cmd \in {"kill", "copy"} => ReplacementsMeant

\* "delete: Delete jobs matching the arguments": all of them and no other.
DeletesOnlyMatching ==
  /\ entered > 0 /\ Command(line) = "delete" /\ Legal(line) /\ Permitted(line)
  /\ ~Mixed /\ ForSome
  => DeletionMeant
=============================================================================
