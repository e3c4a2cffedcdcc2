------------------------------ MODULE FaiLogs ------------------------------
(***************************************************************************)
(* The log files of installed machines: the message CLMSG_save_fai_log,    *)
(* made from a hook's output and stored below FAILogPath, and the three    *)
(* queries with which GOsa looks for them.                                 *)
(*                                                                         *)
(* Text is a sequence of letters; "og_file" stands for 7 of them, so that  *)
(* the prefix "log_file" of a hook's line is two.  Base64 text comes in    *)
(* groups of 2 letters, and what it encodes is written as the text itself. *)
(* A handler writes one file per step and handlers of several clients run  *)
(* at the same time.                                                       *)
(***************************************************************************)
EXTENDS Naturals, Sequences, SequencesExt

CONSTANTS Machine,           \* the machines, by the MAC in lower case
          NoName,            \* "none"
          PlainName,         \* the names LDAP and DNS may know a machine by
          Hooks,             \* the outputs of hooks: sequences of [name, data]
          Action,            \* "install", "softupdate", "audit"
          Limits,            \* values of context.Limits.MaxLogFiles
          MaxFragmentLength, \* of a piece of the reply
          Handlers,          \* bound: the messages that are sent
          MaxTime            \* bound of the clock, in seconds

VARIABLES clock,        \* the time
          bearer,     \* what machine has a name
          handler,    \* the goroutines of the messages
          disk,       \* [machine, dir, file] -> content
          dirs,       \* the directories [machine, dir]
          links,      \* symbolic link -> machine
          linker,     \* the goroutines that care for the links
          progressed  \* machines for which CLMSG_PROGRESS 100 was handled

logs == <<clock, bearer, handler, disk, dirs, links, linker, progressed>>

-----------------------------------------------------------------------------
\* What the hook prints for a file, and the element <CLMSG_save_fai_log>.
Line(entry) == <<"l", "og_file", ":">> \o entry.name \o <<":">> \o entry.data
Send_clmsg_save_fai_log(hook) == FlattenSeq([n \in DOMAIN hook |-> Line(hook[n])])

\* The positions after each "log_file:" with the end of the name, if the name is
\* not empty; the loop goes on after the colon that ends the name.
RECURSIVE NamesFrom(_, _)
NamesFrom(data, i) ==
  LET colon == {j \in i + 1..Len(data) : data[j] = ":"}
      end == CHOOSE j \in colon : \A k \in colon : j <= k
  IN IF i > Len(data) THEN <<>>
     ELSE IF ~(i > 2 /\ data[i] = ":" /\ SubSeq(data, i - 2, i - 1) = <<"l", "og_file">>)
     THEN NamesFrom(data, i + 1)
     ELSE IF colon = {} THEN <<>>
     ELSE (IF i + 1 < end THEN <<<<i + 1, end>>>> ELSE <<>>) \o NamesFrom(data, end + 1)

\* As EndOfData below, without the room made for the line after the last file.
EndOfDataShort(data, names, n) ==
  IF n = Len(names) THEN Len(data) - 2 ELSE names[n + 1][1] - 3

\* The prefix of the next line is 9 letters, of which 8 are cut off.
EndOfData(data, names, n) ==
  IF n = Len(names) THEN Len(data) ELSE names[n + 1][1] - 3

\* A letter after the last group does not make a byte.
Base64DecodeInPlace(s) == SubSeq(s, 1, Len(s) - (Len(s) % 2))

NoSlashes(name) == [n \in DOMAIN name |-> IF name[n] = "/" THEN "_" ELSE name[n]]

\* The files a message stores, in order, of which a limit leaves the first ones.
Files(data, limit) ==
  LET names == NamesFrom(data, 1)
      file(n) ==
        [name |-> NoSlashes(SubSeq(data, names[n][1], names[n][2] - 1)),
         content |-> Base64DecodeInPlace(
                       SubSeq(data, names[n][2] + 1, EndOfData(data, names, n)))]
      count == IF limit <= 0 \/ limit > Len(names) THEN Len(names) ELSE limit
  IN [n \in 1..count |-> file(n)]

-----------------------------------------------------------------------------
LogName(action, time) == <<action, time>>

\* The message arrives: the directory is made and the care for the link started.
\* The hook's entries are kept as what the files should be.
Receive(h, mac, action, hook, limit) ==
  LET dir == <<mac, LogName(action, clock)>>
  IN /\ handler[h].state = "idle"
     /\ \A g \in 1..h - 1 : handler[g].state # "idle"
     /\ handler' = [handler EXCEPT ![h] =
          [state |-> "storing", dir |-> dir, hook |-> hook, limit |-> limit,
           files |-> Files(Send_clmsg_save_fai_log(hook), limit)]]
     /\ progressed' = progressed \cup (IF action = "audit" THEN {} ELSE {mac})
     /\ dirs' = dirs \cup {dir}
     /\ linker' = linker \cup {[by |-> h, mac |-> mac, state |-> "start", name |-> NoName]}
     /\ UNCHANGED <<clock, bearer, disk, links>>

\* The next file is written, over one of its name.
WriteFile(h) ==
  LET file == Head(handler[h].files)
      path == <<handler[h].dir, file.name>>
  IN /\ handler[h].state = "storing" /\ handler[h].files # <<>>
     /\ disk' = [p \in DOMAIN disk \cup {path} |->
                   IF p = path THEN file.content ELSE disk[p]]
     /\ handler' = [handler EXCEPT ![h].files = Tail(@)]
     /\ UNCHANGED <<clock, bearer, dirs, links, linker, progressed>>

Stored(h) ==
  /\ handler[h].state = "storing" /\ handler[h].files = <<>>
  /\ handler' = [handler EXCEPT ![h].state = "stored"]
  /\ UNCHANGED <<clock, bearer, disk, dirs, links, linker, progressed>>

-----------------------------------------------------------------------------
\* The link from the name to the MAC: the name is looked up and the link read, a
\* wrong one is removed, and the new one made unless there is one by then.
Unlinked(name) == [n \in DOMAIN links \ {name} |-> links[n]]
LookupName(l) ==
  LET names == {n \in PlainName : bearer[n] = l.mac}
  IN /\ l.state = "start"
     /\ \/ /\ names = {}
           /\ linker' = linker \ {l}
        \/ \E n \in names :
             linker' = (linker \ {l}) \cup {[l EXCEPT !.state = "read", !.name = n]}
     /\ UNCHANGED <<clock, bearer, handler, disk, dirs, links, progressed>>

ReadLink(l) ==
  LET linked == l.name \in DOMAIN links
  IN /\ l.state = "read"
     /\ linker' = (linker \ {l}) \cup
          (IF linked /\ links[l.name] = l.mac THEN {}
           ELSE {[l EXCEPT !.state = IF linked THEN "remove" ELSE "link"]})
     /\ UNCHANGED <<clock, bearer, handler, disk, dirs, links, progressed>>

RemoveLink(l) ==
  /\ l.state = "remove"
  /\ links' = Unlinked(l.name)
  /\ linker' = (linker \ {l}) \cup {[l EXCEPT !.state = "link"]}
  /\ UNCHANGED <<clock, bearer, handler, disk, dirs, progressed>>

MakeLink(l) ==
  /\ l.state = "link"
  /\ links' = IF l.name \in DOMAIN links THEN links
              ELSE [n \in DOMAIN links \cup {l.name} |->
                      IF n = l.name THEN l.mac ELSE links[n]]
  /\ linker' = linker \ {l}
  /\ UNCHANGED <<clock, bearer, handler, disk, dirs, progressed>>

-----------------------------------------------------------------------------
\* The queries.  The lists are sorted by name, which no property is about.
show_log_by_mac(mac) == {d[2] : d \in {e \in dirs : e[1] = mac}}

show_log_files_by_date_and_mac(mac, dir) ==
  {p[2] : p \in {q \in DOMAIN disk : q[1] = <<mac, dir>>}}

\* Pieces of MaxFragmentLength; the last may be short.
RECURSIVE Pieces(_, _)
Pieces(data, end) ==
  IF end < Len(data)
  THEN <<SubSeq(data, end - MaxFragmentLength + 1, end)>>
       \o Pieces(data, end + MaxFragmentLength)
  ELSE <<SubSeq(data, end - MaxFragmentLength + 1, Len(data))>>

\* The reply to a request for a file, or an error.
get_log_file_by_date_and_mac(mac, dir, name) ==
  LET path == <<<<mac, dir>>, NoSlashes(name)>>
  IN IF name = <<>> \/ path \notin DOMAIN disk THEN <<"error">>
     ELSE FlattenSeq(Pieces(disk[path], MaxFragmentLength))

-----------------------------------------------------------------------------
\* A name is given to another machine; names and time change as long as a message
\* is still to come.
MessagesToCome == \E h \in 1..Handlers : handler[h].state = "idle"
Rename(n, mac) ==
  /\ bearer[n] # mac /\ bearer' = [bearer EXCEPT ![n] = mac]
  /\ MessagesToCome
  /\ UNCHANGED <<clock, handler, disk, dirs, links, linker, progressed>>

Tick ==
  /\ MessagesToCome /\ clock < MaxTime /\ clock' = clock + 1
  /\ UNCHANGED <<bearer, handler, disk, dirs, links, linker, progressed>>

LogsInit ==
  /\ clock = 0
  /\ bearer \in [PlainName -> Machine]
  /\ handler = [h \in 1..Handlers |->
       [state |-> "idle", dir |-> <<>>, hook |-> <<>>, limit |-> 0, files |-> <<>>]]
  /\ disk = [p \in {} |-> <<>>] /\ dirs = {}
  /\ links = [n \in {} |-> <<>>] /\ linker = {} /\ progressed = {}

LogsNext ==
  \/ \E h \in 1..Handlers :
       \/ \E mac \in Machine, action \in Action, hook \in Hooks, limit \in Limits :
            Receive(h, mac, action, hook, limit)
       \/ WriteFile(h)
       \/ Stored(h)
  \/ \E l \in linker : LookupName(l) \/ ReadLink(l) \/ RemoveLink(l) \/ MakeLink(l)
  \/ \E n \in PlainName, mac \in Machine : Rename(n, mac)
  \/ Tick

-----------------------------------------------------------------------------
\* What is stored is found: once a message has been handled, the directory of its
\* second is listed for the machine, every file of the hook within the limit is
\* listed there, and a request for it returns what the hook gave, unless another
\* file of that name was stored in the same directory.  And a link leads to a
\* machine that has logs.
Same(h, n, g, m) ==
  /\ handler[g].dir = handler[h].dir
  /\ NoSlashes(handler[g].hook[m].name) = NoSlashes(handler[h].hook[n].name)
Overwritten(h, n) ==
  \E g \in 1..Handlers : \E m \in DOMAIN handler[g].hook :
    <<g, m>> # <<h, n>> /\ Same(h, n, g, m)
Within(h, n) == handler[h].limit <= 0 \/ n <= handler[h].limit
LogsAreFound ==
  /\ \A h \in 1..Handlers : handler[h].state = "stored" =>
       LET mac == handler[h].dir[1]
           dir == handler[h].dir[2]
       IN /\ dir \in show_log_by_mac(mac)
          /\ \A n \in DOMAIN handler[h].hook : Within(h, n) =>
               LET entry == handler[h].hook[n]
               IN /\ NoSlashes(entry.name) \in show_log_files_by_date_and_mac(mac, dir)
                  /\ \/ Overwritten(h, n)
                     \/ get_log_file_by_date_and_mac(mac, dir, entry.name) = entry.data
  /\ \A n \in DOMAIN links : show_log_by_mac(links[n]) # {}
=============================================================================
