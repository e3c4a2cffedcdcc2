----------------------------- MODULE MCConsole -----------------------------
(***************************************************************************)
(* sibridge: either two lines are entered (Bridge), the first one of which *)
(* selects machines and the second one is any command, or a connection     *)
(* reads what users type and repeats commands (BridgeLoop).  One of the    *)
(* machines has a name that is also the beginning of a type of jobs.       *)
(***************************************************************************)
EXTENDS Integers, Sequences

Machine == {"m1", "rei", "m3"}
\* {} is nobody: the connection is looked at instead.
Rights == {{"jobsAll", "queryAll", "ldap", "dn"},
           {"modifyJobs", "queryJobs", "update", "ldap"}, {"debug"}, {}}

Word(text) ==
  [text |-> text, machine |-> "", job |-> "", date |-> "", time |-> "", wild |-> ""]
M1 == [Word("m1") EXCEPT !.machine = "m1"]
M3 == [Word("m3") EXCEPT !.machine = "m3"]
Rei == [Word("rei") EXCEPT !.machine = "rei", !.job = "reinstall"]
I == [Word("i") EXCEPT !.job = "reinstall"]
U == [Word("up") EXCEPT !.job = "update"]
T == [Word("10:30") EXCEPT !.time = "10:30"]
D == [Word("2014-10-31") EXCEPT !.date = "2014-10-31"]
R == [Word("10m") EXCEPT !.date = "tomorrow", !.time = "0:05"]
All == [Word("*") EXCEPT !.wild = "*"]

Line(command, begins, words) ==
  [command |-> command, begins |-> begins, template |-> "", subcommand |-> "",
   words |-> words]
Full(command, words) == Line(command, {command}, words)
Copy(template, words) == [Full("", words) EXCEPT !.template = template]
Audits(subcommand, words) ==
  [Full("qaudit", words) EXCEPT !.subcommand = subcommand]

UpTo(S, n) == UNION {[1..k -> S] : k \in 0..n}
Lines ==
  [n \in 0..2 |->
     CASE n = 0 -> {Full("examine", w) : w \in UpTo({M1, Rei}, 2)}
                   \cup {Full("query_jobs", <<All>>)}
       [] n = 1 ->
          {Full("delete_jobs", w) : w \in UpTo({M1, Rei, I, U, All}, 3)
                                          \cup [1..4 -> {M1, Rei, I, U}]
                                          \cup {<<x, M1, y, Rei, z, M3>> : x, y, z \in {I, U}}
                                          \cup {<<M1, Rei, x, M3, y>> : x, y \in {I, U}}
                                          \cup {<<I, M1, Rei, M3>>}}
          \cup {Full("update", w) : w \in UpTo({M1, Rei, T, D, R}, 3)
                                            \cup [1..4 -> {M1, Rei, T, R}]
                                            \cup {<<R, M1, Rei, T, M3>>,
                                                  <<M1, Rei, R, M3, T>>}}
          \cup {Line("re", {"reboot", "reinstall"}, w) : w \in UpTo({Rei, I, T}, 2)}
          \cup {Line("q", {"query_jobdb", "query_jobs", "qq", "qaudit"}, w) :
                   w \in UpTo({M1, I, All}, 2)}
          \cup {Line("kil", {}, <<>>), Full("kill", <<>>), Full("kill", <<M1>>),
                Copy("m1", <<Rei>>), Copy("m2", <<Rei>>), Full("help", <<>>)}
          \cup {Full(c, w) : c \in {".release", ".classes", ".description", "raw"},
                             w \in UpTo({M1, I}, 2)}
          \cup {Audits(s, w) : s \in {"", "packages", "has"}, w \in UpTo({M1, All, T}, 2)}
       [] OTHER -> {}]

-----------------------------------------------------------------------------
Typed ==
  [1..5 -> {"q", "c", ";"}] \cup [1..4 -> {"q", ";", " "}]
  \cup {<<"q", "\n", ";", "q", " ", "c">>, <<>>}
MaxPiece == 3
MaxRepeats == 4
MessageBytes == 3
TotalBytes == 9

VARIABLES joblist, rights, line, sent, selection, before, entered,
          wire, readbuf, buf, repeat, repeat_command, bytesRemaining,
          messageBytesRemaining, open, input, obeyed
Entered == INSTANCE Bridge
Connection == INSTANCE BridgeLoop

bridge == <<joblist, rights, line, sent, selection, before, entered>>
loop == <<wire, readbuf, buf, repeat, repeat_command, bytesRemaining,
          messageBytesRemaining, open, input, obeyed>>

Init ==
  /\ Entered!Init /\ Connection!LoopInit
  /\ rights = {} \/ wire = <<>>
Next ==
  \/ rights # {} /\ Entered!Next /\ UNCHANGED loop
  \/ rights = {} /\ Connection!LoopNext /\ UNCHANGED bridge
Idle == wire = <<>> /\ rights = {} /\ Entered!Init /\ Connection!LoopInit

\* Entered!CommandsMeanWhatHelpSays of every pair of lines.
CommandsMeanWhatHelpSays == Entered!CommandsMeanWhatHelpSays

\* Entered!DeletesOnlyMatching of every pair of lines.
DeletesOnlyMatching == Entered!DeletesOnlyMatching

\* Connection!LinesAreObeyed of everything typed.
LinesAreObeyed == Connection!LinesAreObeyed
=============================================================================
