--------------------------- MODULE Systems_proofs ---------------------------
(***************************************************************************)
(* What happens to the object of a machine and to its places in groups     *)
(* while its handlers run one after the other.  Machines that share names  *)
(* (Kin) have their dns in common; a machine whose names are its own has   *)
(* dns that no other comes by.  Every state of Systems is looked at        *)
(* through one machine: E, its objects; M, its dns in each group; and the  *)
(* handler c that runs for it.  OnTheWay says where c is: between commands *)
(* (Waits) or with records of a command still to be done (Runs).  First    *)
(* come the data that handlers make and the commands they give; then what  *)
(* a record does to E and M and where it leads c (RunStep); then the steps *)
(* without a record, one lemma for each.                                   *)
(***************************************************************************)
EXTENDS Systems, FiniteSetTheorems, SequenceTheorems, TLAPS

-----------------------------------------------------------------------------
(* Types.                                                                  *)

State == {"install", "localboot", "softupdate", "error"}
Ous == {Incoming, "ou", "workstations", "moved"}

\* The machines that may come by the same dns, and their cns.
Kin(mac) == IF OwnNames(mac) THEN {mac} ELSE {m \in Machine : ~OwnNames(m)}
KinCns(mac) == UNION {Cns(m) : m \in Kin(mac)}
DNs(mac) == KinCns(mac) \X Ous
AllDNs == {Template} \cup UNION {DNs(mac) : mac \in Machine}

\* The objects of a machine, without and with their dn.
Objects(mac) ==
  [mac : Kin(mac), fai : State, mode : {"locked", "active"}, ip : IP \cup {Missing},
   class : {"GOhard", "gotoWorkstation"}, hw : {Missing, "found"}]
Wholes(mac) ==
  [mac : Kin(mac), fai : State, mode : {"locked", "active"}, ip : IP \cup {Missing},
   class : {"GOhard", "gotoWorkstation"}, hw : {Missing, "found"}, dn : DNs(mac)]

\* The records that a handler of a machine gives to LDAP.
Records(mac) ==
       [op : {"add"}, dn : DNs(mac), to : {Missing}, changes : Objects(mac)]
  \cup [op : {"delete"}, dn : DNs(mac), to : {Missing}, changes : {Missing}]
  \cup [op : {"set"}, dn : DNs(mac), to : {Missing}, changes : State]
  \cup [op : {"modify"}, dn : DNs(mac), to : Objects(mac), changes : Objects(mac)]
  \cup [op : {"rename"}, dn : DNs(mac), to : DNs(mac), changes : {Missing}]
  \cup [op : {"join", "leave"}, dn : Group, to : DNs(mac), changes : {Missing}]
  \cup [op : {"swap"}, dn : Group, to : DNs(mac) \X DNs(mac), changes : {Missing}]
Commands(mac) == Seq(Records(mac)) \ {<<>>}

Args(mac) ==
  [ip : IP \cup {Missing}, dn : DNs(mac) \cup {Missing}, template : BOOLEAN, base : BOOLEAN,
   fai : State \cup {Missing}, mode : {"locked", "active", Missing},
   class : {"GOhard", "gotoWorkstation", Missing}]
Handlers(mac) ==
  [op : {"detect", "activate", "fai", "set", "hello", "kill", "copy"}, mac : {mac},
   pc : {"read", "prepare", "replace", "force", "jobs", "forced", "set", "reread", "join",
         "end"},
   arg : Args(mac), old : Wholes(mac) \cup {Missing}, new : Wholes(mac) \cup {Missing},
   todo : Seq(Commands(mac))]

\* What a handler has got at each place.
Stands(c) ==
  /\ c.pc \in CASE c.op \in {"detect", "activate"} -> {"read", "prepare", "replace", "end"}
                [] c.op = "fai" -> {"read", "force", "jobs", "forced", "end"}
                [] c.op = "set" -> {"read", "set", "end"}
                [] c.op = "hello" -> {"read", "reread", "replace", "end"}
                [] c.op = "kill" -> {"read", "replace", "end"}
                [] c.op = "copy" -> {"read", "prepare", "replace", "join", "end"}
  /\ c.op \in {"set", "hello", "kill", "copy"} /\ c.pc \notin {"read", "end"} => c.old # Missing
  /\ c.op = "kill" => c.new = Missing
  /\ c.op # "kill" /\ c.pc \in {"replace", "join"} => c.new # Missing
  /\ c.op \in {"set", "fai"} => c.arg.fai \in State
  /\ c.pc \in {"read", "prepare", "force", "set", "reread"} => c.todo = <<>>

Directory(l) ==
  /\ l = [dn \in DOMAIN l |-> l[dn]] /\ DOMAIN l \subseteq AllDNs
  /\ Template \in DOMAIN l /\ l[Template] = TheTemplate
  /\ \A mac \in Machine : \A dn \in DNs(mac) \cap DOMAIN l : l[dn] \in Objects(mac)
Groups(m) == m \in [Group -> SUBSET AllDNs] /\ \A g \in Group : Template \in m[g]
Called(d) ==
  d = [mac \in Machine |-> d[mac]] /\ \A mac \in Machine : d[mac] \in Names[mac] \cup {Missing}

TypeOK ==
  /\ Directory(ldap) /\ Groups(members)
  /\ Called(dns)
  /\ thread \in [Thread -> {Idle} \cup UNION {Handlers(mac) : mac \in Machine}]
  /\ \A t \in Thread : thread[t] # Idle => Stands(thread[t])
  /\ mixed \subseteq Machine /\ failed \subseteq Machine
  /\ belongs \in [Machine -> SUBSET Group]

-----------------------------------------------------------------------------
(* What the directory has of a machine: E, its objects; M, its dns in each *)
(* group; b, the groups it was put into.                                   *)
Entries(l, mac) == [dn \in DOMAIN l \cap DNs(mac) |-> l[dn]]
In(m, mac) == [g \in Group |-> m[g] \cap DNs(mac)]

Joined(M, b, dn) == \A g \in Group : M[g] = IF g \in b THEN {dn} ELSE {}
Rests(E, M, b) ==
  \/ DOMAIN E = {} /\ b = {} /\ \A g \in Group : M[g] = {}
  \/ \E dn \in DOMAIN E : DOMAIN E = {dn} /\ Joined(M, b, dn)

Known(c, E) == DOMAIN E = IF c.old = Missing THEN {} ELSE {c.old.dn}
Fresh(c, E) == Known(c, E) /\ (c.old # Missing => E[c.old.dn] = Data(c.old))
Carries(c, old, new) ==
  new.fai = old.fai \/ (c.arg.fai # Missing /\ new.fai = c.arg.fai)
StateKept(c) == c.old # Missing /\ c.new # Missing => Carries(c, c.old, c.new)

\* No command is under way.
Waits(c, E, M, b) ==
  /\ c.pc # "replace" => Rests(E, M, b)
  /\ c.pc \in {"prepare", "set", "reread", "replace"} => Fresh(c, E)
  /\ c.pc \in {"force", "jobs", "forced"} => Known(c, E)
  /\ c.pc = "replace" =>
       /\ StateKept(c)
       /\ IF c.old = Missing THEN Joined(M, b, c.new.dn) ELSE Rests(E, M, b)
  /\ c.pc = "join" => DOMAIN E = {c.new.dn}

Pending(command) == {command[i].dn : i \in DOMAIN command}
Once(command) == \A i, j \in DOMAIN command : command[i].dn = command[j].dn => i = j
Swaps(command, from, to) ==
  Once(command) /\ \A i \in DOMAIN command : command[i] = Swap(command[i].dn, from, to)
Leaves(command, dn) ==
  Once(command) /\ \A i \in DOMAIN command : command[i] = LeaveGroup(command[i].dn, dn)
Renames(command, from, to, b) ==
  /\ command # <<>> /\ Head(command) = Record("rename", from, to, Missing)
  /\ Swaps(Tail(command), from, to) /\ Pending(Tail(command)) = b

\* Commands that put dn into groups.
Joins(todo, M, dn) ==
  /\ \A i \in DOMAIN todo : \E g \in Group : todo[i] = <<Join(g, dn)>>
  /\ \A g \in Group :
       M[g] \in IF \E i \in DOMAIN todo : todo[i] = <<Join(g, dn)>> THEN {{}, {dn}} ELSE {{dn}}

Setting(c, E, M, b) ==
  /\ c.arg.fai \in State /\ Rests(E, M, b)
  /\ \E dn \in DOMAIN E : c.todo = SetState(dn, c.arg.fai)
Joining(c, E, M, b) ==
  /\ b = Group /\ Joins(c.todo, M, c.new.dn)
  /\ DOMAIN E = IF c.pc = "replace" THEN {} ELSE {c.new.dn}
Adding(c, command, E, M, b) ==
  /\ command = <<Record("add", c.new.dn, Missing, Data(c.new))>>
  /\ DOMAIN E = {} /\ Joined(M, b, c.new.dn)
Modifying(c, command, E, M, b) ==
  /\ Head(command) = Record("modify", c.old.dn, Data(c.old), Data(c.new))
  /\ Fresh(c, E) /\ StateKept(c) /\ Rests(E, M, b)
  /\ IF c.new.dn = c.old.dn THEN Tail(command) = <<>>
     ELSE Renames(Tail(command), c.old.dn, c.new.dn, b)
Renaming(c, command, E, M, b) ==
  /\ Renames(command, c.old.dn, c.new.dn, b) /\ c.old.dn # c.new.dn
  /\ DOMAIN E = {c.old.dn} /\ Rests(E, M, b)
Swapping(c, command, E, M, b) ==
  /\ Swaps(command, c.old.dn, c.new.dn) /\ c.old.dn # c.new.dn
  /\ DOMAIN E = {c.new.dn}
  /\ \A g \in Group : M[g] = IF g \notin b THEN {}
                             ELSE IF g \in Pending(command) THEN {c.old.dn} ELSE {c.new.dn}
  /\ Pending(command) \subseteq b
Deleting(c, command, E, M, b) ==
  /\ Head(command) = Record("delete", c.old.dn, Missing, Missing)
  /\ Leaves(Tail(command), c.old.dn) /\ Pending(Tail(command)) = b
  /\ DOMAIN E = {c.old.dn} /\ Rests(E, M, b)
Leaving(c, command, E, M, b) ==
  /\ Leaves(command, c.old.dn) /\ DOMAIN E = {} /\ b = {}
  /\ \A g \in Group : M[g] = IF g \in Pending(command) THEN {c.old.dn} ELSE {}
Replacing(c, E, M, b) ==
  LET command == Head(c.todo) IN
  /\ Len(c.todo) = 1 /\ c.pc \in {"end", "join"} /\ (c.pc = "join" => c.old # Missing)
  /\ \/ c.pc = "end" /\ c.new # Missing /\ Adding(c, command, E, M, b)
     \/ /\ c.old # Missing /\ c.new # Missing
        /\ \/ Modifying(c, command, E, M, b)
           \/ Renaming(c, command, E, M, b)
           \/ Swapping(c, command, E, M, b)
     \/ /\ c.pc = "end" /\ c.old # Missing
        /\ \/ Deleting(c, command, E, M, b)
           \/ Leaving(c, command, E, M, b)

\* A command is under way.
Runs(c, E, M, b) ==
  \/ /\ c.pc \in {"jobs", "forced"} /\ Known(c, E) /\ Setting(c, E, M, b)
  \/ /\ c.pc = "end" /\ Setting(c, E, M, b)
  \/ /\ c.pc = "replace" /\ c.old = Missing /\ c.op # "kill" /\ Joining(c, E, M, b)
  \/ /\ c.pc = "end" /\ c.op = "copy" /\ Joining(c, E, M, b)
  \/ Replacing(c, E, M, b)

OnTheWay(c, E, M, b) == IF c.todo = <<>> THEN Waits(c, E, M, b) ELSE Runs(c, E, M, b)

Alone == \A mac \in Machine \ mixed : \A t, u \in Thread :
           thread[t].mac = mac /\ thread[u].mac = mac => t = u
Kept ==
  \A mac \in Undisturbed :
    /\ (\A t \in Thread : thread[t].mac # mac) =>
         Rests(Entries(ldap, mac), In(members, mac), belongs[mac])
    /\ \A t \in Thread : thread[t].mac = mac =>
         OnTheWay(thread[t], Entries(ldap, mac), In(members, mac), belongs[mac])
SystemsInv == TypeOK /\ Alone /\ Kept

\* What the constants must satisfy: Missing is none of the values it stands beside.
SystemsOK ==
  /\ Missing \notin Machine /\ "template" \notin Machine /\ Missing \notin State
  /\ \A mac \in Machine : Missing \notin Wholes(mac)
  /\ IsFiniteSet(Group)

-----------------------------------------------------------------------------
(* Data.                                                                   *)

\* A handler with some fields changed.
With(c, o, n, p, q) ==
  [op |-> c.op, mac |-> c.mac, pc |-> p, arg |-> c.arg, old |-> o, new |-> n, todo |-> q]
LEMMA OverlayIs ==
  ASSUME NEW mac, NEW c \in Handlers(mac)
  PROVE  /\ \A q : Overlay([todo |-> q], c) = With(c, c.old, c.new, c.pc, q)
         /\ \A p : Overlay([pc |-> p], c) = With(c, c.old, c.new, p, c.todo)
         /\ \A p, q : Overlay([pc |-> p, todo |-> q], c) = With(c, c.old, c.new, p, q)
         /\ \A p, q : Overlay([todo |-> q, pc |-> p], c) = With(c, c.old, c.new, p, q)
         /\ \A o, p : Overlay([old |-> o, pc |-> p], c) = With(c, o, c.new, p, c.todo)
         /\ \A n, p : Overlay([pc |-> p, new |-> n], c) = With(c, c.old, n, p, c.todo)
         /\ \A n, p, q : Overlay([pc |-> p, new |-> n, todo |-> q], c) = With(c, c.old, n, p, q)
         /\ \A o, n, p : Overlay([old |-> o, pc |-> p, new |-> n], c) = With(c, o, n, p, c.todo)
<1>1. c = [x \in {"op", "mac", "pc", "arg", "old", "new", "todo"} |-> c[x]] BY DEF Handlers
<1>2. \A q : Overlay([todo |-> q], c) = With(c, c.old, c.new, c.pc, q)
  BY <1>1 DEF Overlay, With
<1>3. \A p : Overlay([pc |-> p], c) = With(c, c.old, c.new, p, c.todo)
  BY <1>1 DEF Overlay, With
<1>4. \A p, q : Overlay([pc |-> p, todo |-> q], c) = With(c, c.old, c.new, p, q)
  BY <1>1 DEF Overlay, With
<1>5. \A p, q : Overlay([todo |-> q, pc |-> p], c) = With(c, c.old, c.new, p, q)
  BY <1>1 DEF Overlay, With
<1>6. \A o, p : Overlay([old |-> o, pc |-> p], c) = With(c, o, c.new, p, c.todo)
  BY <1>1 DEF Overlay, With
<1>7. \A n, p : Overlay([pc |-> p, new |-> n], c) = With(c, c.old, n, p, c.todo)
  BY <1>1 DEF Overlay, With
<1>8. \A n, p, q : Overlay([pc |-> p, new |-> n, todo |-> q], c) = With(c, c.old, n, p, q)
  BY <1>1 DEF Overlay, With
<1>9. \A o, n, p : Overlay([old |-> o, pc |-> p, new |-> n], c) = With(c, o, n, p, c.todo)
  BY <1>1 DEF Overlay, With
<1> QED BY <1>2, <1>3, <1>4, <1>5, <1>6, <1>7, <1>8, <1>9

\* An object with its dn, and without it.
LEMMA WholeIs ==
  ASSUME NEW mac, NEW o \in Objects(mac), NEW dn \in DNs(mac)
  PROVE  LET w == Overlay([dn |-> dn], o)
         IN w \in Wholes(mac) /\ w.dn = dn /\ w.fai = o.fai /\ Data(w) = o
<1> DEFINE w == Overlay([dn |-> dn], o)
           e == [mac |-> o.mac, fai |-> o.fai, mode |-> o.mode, ip |-> o.ip,
                 class |-> o.class, hw |-> o.hw, dn |-> dn]
<1>1. w = e BY DEF Objects, Overlay
<1>2. e \in Wholes(mac) BY DEF Objects, Wholes
<1>3. Data(e) = o BY DEF Data, Objects
<1> QED BY <1>1, <1>2, <1>3

LEMMA DataIs ==
  ASSUME NEW mac, NEW w \in Wholes(mac)
  PROVE  Data(w) \in Objects(mac) /\ Data(w).fai = w.fai /\ w.dn \in DNs(mac)
<1>1. Data(w) = [mac |-> w.mac, fai |-> w.fai, mode |-> w.mode, ip |-> w.ip,
                 class |-> w.class, hw |-> w.hw]
  BY DEF Data, Wholes
<1> QED BY <1>1 DEF Wholes, Objects

\* Machines come by the same dns, or have none in common.
LEMMA KinIs ==
  ASSUME NEW mac \in Machine
  PROVE  /\ mac \in Kin(mac) /\ Kin(mac) \subseteq Machine /\ Cns(mac) \subseteq KinCns(mac)
         /\ OwnNames(mac) => Kin(mac) = {mac} /\ KinCns(mac) = Cns(mac)
         /\ \A other \in Machine :
              \/ Kin(other) = Kin(mac)
              \/ Kin(other) \cap Kin(mac) = {} /\ KinCns(other) \cap KinCns(mac) = {}
<1>1. mac \in Kin(mac) BY DEF Kin
<1>2. Cns(mac) \subseteq KinCns(mac) BY <1>1 DEF KinCns
<1>3. OwnNames(mac) => Kin(mac) = {mac} /\ KinCns(mac) = Cns(mac) BY DEF Kin, KinCns
<1>4. ASSUME NEW other \in Machine, Kin(other) # Kin(mac)
      PROVE  Kin(other) \cap Kin(mac) = {} /\ KinCns(other) \cap KinCns(mac) = {}
  <2>1. ASSUME NEW k \in Kin(other), NEW m \in Kin(mac)
        PROVE  k # m /\ Cns(k) \cap Cns(m) = {}
    <3>1. k # m /\ (OwnNames(k) \/ OwnNames(m)) /\ k \in Machine /\ m \in Machine
      BY <1>4 DEF Kin
    <3>2. Names[k] \cap Names[m] = {} BY <3>1 DEF OwnNames
    <3>3. Cns(k) \cap Cns(m) = {} BY <3>1, <3>2 DEF Cns, AutoName, DnsName
    <3> QED BY <3>1, <3>3
  <2> QED BY <2>1 DEF KinCns
<1> QED BY <1>1, <1>2, <1>3, <1>4 DEF Kin

\* What FillIn and Defaults make of data of which something is missing.
LEMMA FillInIs ==
  ASSUME NEW m, NEW f, NEW o, NEW i, NEW k, NEW h, NEW n, NEW d
  PROVE  FillIn([mac |-> m, fai |-> f, mode |-> o, ip |-> i, class |-> k, hw |-> h, dn |-> n], d)
           = [mac |-> m, fai |-> IF f = Missing THEN d.fai ELSE f,
              mode |-> IF o = Missing THEN d.mode ELSE o, ip |-> i,
              class |-> IF k = Missing \/ d.class = "gotoWorkstation" THEN d.class ELSE k,
              hw |-> IF h = Missing THEN d.hw ELSE h,
              dn |-> IF n[2] = Missing THEN <<n[1], d.dn[2]>> ELSE n]
  BY DEF FillIn, Attribute

LEMMA DefaultsIs ==
  ASSUME NEW m, NEW f, NEW o, NEW i, NEW k, NEW h, NEW n, NEW mode
  PROVE  Defaults([mac |-> m, fai |-> f, mode |-> o, ip |-> i, class |-> k, hw |-> h,
                   dn |-> n], mode)
           = [mac |-> m, fai |-> IF f = Missing THEN "install" ELSE f,
              mode |-> IF o = Missing THEN mode ELSE o, ip |-> i,
              class |-> IF k = Missing THEN "GOhard" ELSE k, hw |-> h,
              dn |-> <<n[1], IF n[2] = Missing THEN Incoming ELSE n[2]>>]
<1> DEFINE s == [mac |-> m, fai |-> f, mode |-> o, ip |-> i, class |-> k, hw |-> h, dn |-> n]
           f1 == IF f = Missing THEN "install" ELSE f
           o1 == IF o = Missing THEN mode ELSE o
           k1 == IF k = Missing THEN "GOhard" ELSE k
           n1 == <<n[1], IF n[2] = Missing THEN Incoming ELSE n[2]>>
<1>1. s.class = k /\ s.mode = o /\ s.fai = f /\ s.dn = n OBVIOUS
<1> HIDE DEF f1, o1, k1, n1
<1> DEFINE s1 == [mac |-> m, fai |-> f, mode |-> o, ip |-> i, class |-> k1, hw |-> h, dn |-> n]
           s2 == [mac |-> m, fai |-> f, mode |-> o1, ip |-> i, class |-> k1, hw |-> h, dn |-> n]
           s3 == [mac |-> m, fai |-> f1, mode |-> o1, ip |-> i, class |-> k1, hw |-> h, dn |-> n]
           s4 == [mac |-> m, fai |-> f1, mode |-> o1, ip |-> i, class |-> k1, hw |-> h, dn |-> n1]
<1>2. /\ [s EXCEPT !.class = k1] = s1 /\ [s1 EXCEPT !.mode = o1] = s2
      /\ [s2 EXCEPT !.fai = f1] = s3 /\ [s3 EXCEPT !.dn = n1] = s4
  OBVIOUS
<1>3. Defaults(s, mode) = [s EXCEPT !.class = k1, !.mode = o1, !.fai = f1, !.dn = n1]
  BY <1>1 DEF Defaults, f1, o1, k1, n1
<1> HIDE DEF s, s1, s2, s3
<1> QED BY <1>2, <1>3 DEF f1, o1, k1, n1, s

LEMMA TemplateDataIs ==
  TemplateData = [mac |-> "template", fai |-> "install", mode |-> "active", ip |-> Missing,
                  class |-> "gotoWorkstation", hw |-> Missing, dn |-> Template]
  BY DEF TemplateData, TheTemplate, Overlay

\* What detected_hardware makes: the state that the system had, or the message has.
LEMMA DetectedIs ==
  ASSUME SystemsOK, NEW mac \in Machine, NEW c \in Handlers(mac), Called(dns)
  PROVE  /\ Detected(c) \in Wholes(mac)
         /\ c.old # Missing => Carries(c, c.old, Detected(c))
<1> DEFINE n == IF c.arg.dn # Missing THEN c.arg.dn
                ELSE IF c.old # Missing THEN c.old.dn ELSE <<NewName(c.mac), Missing>>
           d == IF c.old # Missing THEN c.old ELSE TemplateData
           f == [mac |-> c.mac, fai |-> c.arg.fai, mode |-> c.arg.mode, ip |-> c.arg.ip,
                 class |-> c.arg.class, hw |-> "found", dn |-> n]
<1>1. /\ c.mac = mac /\ c.arg.ip \in IP \cup {Missing}
      /\ c.arg.fai \in State \cup {Missing} /\ c.arg.mode \in {"locked", "active", Missing}
      /\ c.arg.class \in {"GOhard", "gotoWorkstation", Missing}
      /\ (c.old # Missing => c.old \in Wholes(mac))
  BY DEF Handlers, Args
<1>2. n[1] \in KinCns(mac) /\ n = <<n[1], n[2]>> /\ n[2] \in Ous \cup {Missing}
  <2>1. CASE c.arg.dn # Missing BY <2>1 DEF Handlers, Args, DNs
  <2>2. CASE c.arg.dn = Missing /\ c.old # Missing BY <1>1, <2>2 DEF Wholes, DNs
  <2>3. CASE c.arg.dn = Missing /\ c.old = Missing
    <3>1. NewName(mac) \in Cns(mac) BY DEF Called, NewName, Cns
    <3> QED BY <1>1, <2>3, <3>1, KinIs
  <2> QED BY <2>1, <2>2, <2>3
<1>3. /\ d.fai \in State /\ d.mode \in {"locked", "active"}
      /\ d.class \in {"GOhard", "gotoWorkstation"} /\ d.hw \in {Missing, "found"} /\ d.dn[2] \in Ous
  <2>1. CASE c.old # Missing BY <1>1, <2>1 DEF Wholes, DNs
  <2>2. CASE c.old = Missing BY <2>2, TemplateDataIs DEF State, Ous, Template
  <2> QED BY <2>1, <2>2
<1>4. Detected(c) = Defaults(FillIn(f, d), "locked") BY DEF Detected
<1> HIDE DEF n, d
<1> DEFINE f1 == IF c.arg.fai = Missing THEN d.fai ELSE c.arg.fai
           o1 == IF c.arg.mode = Missing THEN d.mode ELSE c.arg.mode
           k1 == IF c.arg.class = Missing \/ d.class = "gotoWorkstation" THEN d.class
                 ELSE c.arg.class
           h1 == IF "found" = Missing THEN d.hw ELSE "found"
           n1 == IF n[2] = Missing THEN <<n[1], d.dn[2]>> ELSE n
<1>5. FillIn(f, d) = [mac |-> c.mac, fai |-> f1, mode |-> o1, ip |-> c.arg.ip, class |-> k1,
                      hw |-> h1, dn |-> n1]
  BY FillInIs
<1>6. n1[1] = n[1] /\ n1[2] \in Ous BY <1>2, <1>3
<1>7. /\ f1 \in State /\ o1 \in {"locked", "active"} /\ k1 \in {"GOhard", "gotoWorkstation"}
      /\ h1 \in {Missing, "found"}
  BY <1>1, <1>3
<1>8. f1 = d.fai \/ (c.arg.fai # Missing /\ f1 = c.arg.fai) OBVIOUS
<1> HIDE DEF f1, o1, k1, h1, n1, f
<1>9. Detected(c) = [mac |-> c.mac, fai |-> IF f1 = Missing THEN "install" ELSE f1,
                     mode |-> IF o1 = Missing THEN "locked" ELSE o1, ip |-> c.arg.ip,
                     class |-> IF k1 = Missing THEN "GOhard" ELSE k1, hw |-> h1,
                     dn |-> <<n1[1], IF n1[2] = Missing THEN Incoming ELSE n1[2]>>]
  BY <1>4, <1>5, DefaultsIs
<1>10. <<n1[1], IF n1[2] = Missing THEN Incoming ELSE n1[2]>> \in DNs(mac)
  BY <1>2, <1>6 DEF DNs, Ous
<1>11. (IF f1 = Missing THEN "install" ELSE f1) = f1 BY <1>7 DEF SystemsOK
<1>12. c.mac \in Kin(mac) BY <1>1, KinIs
<1>13. Detected(c) \in Wholes(mac) BY <1>1, <1>7, <1>9, <1>10, <1>11, <1>12 DEF Wholes
<1>14. Detected(c).fai = f1 BY <1>9, <1>11
<1> QED BY <1>8, <1>13, <1>14 DEF Carries, d

\* What job_trigger_activate_new makes: the state that the system had.
LEMMA ActivatedIs ==
  ASSUME SystemsOK, NEW mac \in Machine, NEW c \in Handlers(mac)
  PROVE  /\ Activated(c) \in Wholes(mac)
         /\ c.old # Missing => Activated(c).fai = c.old.fai
<1> DEFINE blank == [mac |-> c.mac, fai |-> Missing, mode |-> Missing, ip |-> Missing,
                     class |-> Missing, hw |-> Missing, dn |-> <<AutoName(c.mac), Ou(c)>>]
           system == IF c.old = Missing
                     THEN IF c.arg.template THEN FillIn(blank, TemplateData) ELSE blank
                     ELSE [c.old EXCEPT !.dn = <<@[1], Ou(c)>>]
<1>1. c.mac = mac /\ (c.old # Missing => c.old \in Wholes(mac)) BY DEF Handlers
<1>0. mac \in Kin(mac) /\ AutoName(mac) \in KinCns(mac) BY KinIs DEF Cns
<1>2. Ou(c) \in Ous BY <1>1 DEF Ou, Ous, Template, Wholes, DNs
<1>3. \E mm, f, o, i, k, h, n :
        /\ mm \in Kin(mac)
        /\ system = [mac |-> mm, fai |-> f, mode |-> o, ip |-> i, class |-> k, hw |-> h, dn |-> n]
        /\ f \in State \cup {Missing} /\ o \in {"locked", "active", Missing}
        /\ i \in IP \cup {Missing} /\ k \in {"GOhard", "gotoWorkstation", Missing}
        /\ h \in {Missing, "found"} /\ n[1] \in KinCns(mac)
        /\ n[2] \in Ous \cup {Missing}
        /\ c.old # Missing => f = c.old.fai /\ f \in State
  <2>1. CASE c.old # Missing
    <3> DEFINE w == c.old
    <3>1. w \in Wholes(mac) /\ w.dn[1] \in KinCns(mac)
      BY <1>1, <2>1 DEF Wholes, DNs
    <3>2. [w EXCEPT !.dn = <<@[1], Ou(c)>>]
            = [mac |-> w.mac, fai |-> w.fai, mode |-> w.mode, ip |-> w.ip, class |-> w.class,
               hw |-> w.hw, dn |-> <<w.dn[1], Ou(c)>>]
      BY <3>1 DEF Wholes
    <3>3. system = [w EXCEPT !.dn = <<@[1], Ou(c)>>] BY <2>1
    <3>4. /\ w.fai \in State /\ w.mode \in {"locked", "active"} /\ w.ip \in IP \cup {Missing}
          /\ w.class \in {"GOhard", "gotoWorkstation"} /\ w.hw \in {Missing, "found"}
          /\ w.mac \in Kin(mac)
      BY <3>1 DEF Wholes
    <3> DEFINE n == <<w.dn[1], Ou(c)>>
    <3>5. n[1] \in KinCns(mac) /\ n[2] \in Ous BY <1>2, <3>1
    <3>6. system = [mac |-> w.mac, fai |-> w.fai, mode |-> w.mode, ip |-> w.ip,
                    class |-> w.class, hw |-> w.hw, dn |-> n]
      BY <3>2, <3>3
    <3>7. c.old # Missing => w.fai = c.old.fai /\ w.fai \in State BY <3>4
    <3> HIDE DEF n, system, w
    <3> QED BY ONLY <3>4, <3>5, <3>6, <3>7
  <2>2. CASE c.old = Missing /\ c.arg.template
    <3> DEFINE n == <<AutoName(c.mac), Ou(c)>>
               hw == IF Missing = Missing THEN TemplateData.hw ELSE Missing
    <3>1. system = FillIn(blank, TemplateData) BY <2>2
    <3>2. n[1] = AutoName(mac) /\ n[2] = Ou(c) BY <1>1
    <3> DEFINE m == IF n[2] = Missing THEN <<n[1], TemplateData.dn[2]>> ELSE n
    <3>3. m[1] = n[1] /\ m[2] \in Ous
      BY <1>2, <3>2, TemplateDataIs DEF Template, Ous
    <3>4. FillIn(blank, TemplateData)
            = [mac |-> mac, fai |-> TemplateData.fai, mode |-> TemplateData.mode, ip |-> Missing,
               class |-> TemplateData.class, hw |-> TemplateData.hw, dn |-> m]
      BY <1>1, FillInIs
    <3>5. n[1] \in KinCns(mac) BY <1>0, <3>2
    <3> HIDE DEF system, m, n
    <3> QED BY <1>0, <2>2, <3>1, <3>3, <3>4, <3>5, TemplateDataIs DEF State
  <2>3. CASE c.old = Missing /\ ~c.arg.template
    <3> DEFINE n == <<AutoName(mac), Ou(c)>>
    <3>1. n[1] \in KinCns(mac) /\ n[2] \in Ous BY <1>0, <1>2
    <3>2. system = [mac |-> mac, fai |-> Missing, mode |-> Missing, ip |-> Missing,
                    class |-> Missing, hw |-> Missing, dn |-> n]
      BY <1>1, <2>3
    <3> HIDE DEF n, system
    <3> QED BY <1>0, <2>3, <3>1, <3>2
  <2> QED BY <2>1, <2>2, <2>3
<1>4. Activated(c) = [Defaults(system, "active") EXCEPT !.mode = "active"] BY DEF Activated
<1> HIDE DEF system, blank
<1>5. PICK mm, f, o, i, k, h, n :
        /\ mm \in Kin(mac)
        /\ system = [mac |-> mm, fai |-> f, mode |-> o, ip |-> i, class |-> k, hw |-> h, dn |-> n]
        /\ f \in State \cup {Missing} /\ o \in {"locked", "active", Missing}
        /\ i \in IP \cup {Missing} /\ k \in {"GOhard", "gotoWorkstation", Missing}
        /\ h \in {Missing, "found"} /\ n[1] \in KinCns(mac)
        /\ n[2] \in Ous \cup {Missing}
        /\ c.old # Missing => f = c.old.fai /\ f \in State
  BY <1>3
<1> DEFINE f1 == IF f = Missing THEN "install" ELSE f
           o1 == IF o = Missing THEN "active" ELSE o
           k1 == IF k = Missing THEN "GOhard" ELSE k
           n1 == <<n[1], IF n[2] = Missing THEN Incoming ELSE n[2]>>
<1>6. Defaults(system, "active")
        = [mac |-> mm, fai |-> f1, mode |-> o1, ip |-> i, class |-> k1, hw |-> h, dn |-> n1]
  BY <1>5, DefaultsIs
<1>7. n1 \in DNs(mac) BY <1>5 DEF DNs, Ous
<1>8. f1 \in State /\ (c.old # Missing => f1 = c.old.fai) /\ k1 \in {"GOhard", "gotoWorkstation"}
  BY <1>5 DEF State, SystemsOK
<1> HIDE DEF f1, o1, k1, n1
<1>9. Activated(c) = [mac |-> mm, fai |-> f1, mode |-> "active", ip |-> i, class |-> k1,
                      hw |-> h, dn |-> n1]
  BY <1>4, <1>6
<1> QED BY <1>5, <1>7, <1>8, <1>9 DEF Wholes

\* What sibridge's copy makes of a system.
Copied(old) ==
  LET place == [old EXCEPT !.dn = <<@[1], IF @[2] = Incoming THEN Missing ELSE @[2]>>]
      filled == FillIn(place, TemplateData)
  IN [filled EXCEPT !.mode = IF old.mode # "active" THEN "locked" ELSE @]
LEMMA CopiedIs ==
  ASSUME SystemsOK, NEW mac \in Machine, NEW old \in Wholes(mac)
  PROVE  Copied(old) \in Wholes(mac) /\ Copied(old).fai = old.fai
<1> DEFINE n == <<old.dn[1], IF old.dn[2] = Incoming THEN Missing ELSE old.dn[2]>>
           f1 == IF old.fai = Missing THEN TemplateData.fai ELSE old.fai
           o1 == IF old.mode = Missing THEN TemplateData.mode ELSE old.mode
           k1 == IF old.class = Missing \/ TemplateData.class = "gotoWorkstation"
                 THEN TemplateData.class ELSE old.class
           h1 == IF old.hw = Missing THEN TemplateData.hw ELSE old.hw
           n1 == IF n[2] = Missing THEN <<n[1], TemplateData.dn[2]>> ELSE n
           place == [mac |-> old.mac, fai |-> old.fai, mode |-> old.mode, ip |-> old.ip,
                     class |-> old.class, hw |-> old.hw, dn |-> n]
           filled == [mac |-> old.mac, fai |-> f1, mode |-> o1, ip |-> old.ip, class |-> k1,
                      hw |-> h1, dn |-> n1]
<1>1. [old EXCEPT !.dn = <<@[1], IF @[2] = Incoming THEN Missing ELSE @[2]>>] = place
  BY DEF Wholes
<1>2. FillIn(place, TemplateData) = filled BY FillInIs
<1>3. n[1] \in KinCns(mac) /\ n[2] \in Ous \cup {Missing} BY DEF Wholes, DNs
<1>4. n1 \in DNs(mac)
  <2>1. TemplateData.dn[2] = "ou" BY TemplateDataIs DEF Template
  <2>2. CASE n[2] = Missing BY <1>3, <2>1, <2>2 DEF DNs, Ous
  <2>3. CASE n[2] # Missing BY <1>3, <2>3 DEF DNs
  <2> QED BY <2>2, <2>3
<1>5. f1 = old.fai /\ f1 \in State BY DEF Wholes, SystemsOK
<1>6. /\ o1 \in {"locked", "active"} /\ k1 \in {"GOhard", "gotoWorkstation"}
      /\ h1 \in {Missing, "found"} /\ old.ip \in IP \cup {Missing}
      /\ old.mac \in Kin(mac)
  BY TemplateDataIs DEF Wholes
<1> DEFINE o2 == IF old.mode # "active" THEN "locked" ELSE o1
<1>7. o2 \in {"locked", "active"} BY <1>6
<1>8. Copied(old) = [filled EXCEPT !.mode = IF old.mode # "active" THEN "locked" ELSE @]
  BY <1>1, <1>2 DEF Copied
<1> HIDE DEF n, f1, o1, k1, h1, n1, place
<1>9. Copied(old) = [mac |-> old.mac, fai |-> f1, mode |-> o2, ip |-> old.ip, class |-> k1,
                     hw |-> h1, dn |-> n1]
  BY <1>8
<1> HIDE DEF o2
<1> QED BY <1>4, <1>5, <1>6, <1>7, <1>9 DEF Wholes

\* What here_i_am makes of a system.
Greeted(old, ip, cn) == [old EXCEPT !.ip = ip, !.dn = <<cn, @[2]>>]
LEMMA GreetedIs ==
  ASSUME NEW mac, NEW old \in Wholes(mac), NEW ip \in IP \cup {Missing},
         NEW cn \in KinCns(mac)
  PROVE  Greeted(old, ip, cn) \in Wholes(mac) /\ Greeted(old, ip, cn).fai = old.fai
<1> DEFINE n == <<cn, old.dn[2]>>
           s == [old EXCEPT !.ip = ip]
<1>1. n \in DNs(mac) BY DEF Wholes, DNs
<1>2. s = [mac |-> old.mac, fai |-> old.fai, mode |-> old.mode, ip |-> ip, class |-> old.class,
           hw |-> old.hw, dn |-> old.dn]
  BY DEF Wholes
<1>3. Greeted(old, ip, cn) = [s EXCEPT !.dn = <<cn, @[2]>>] BY DEF Greeted
<1> HIDE DEF s
<1>4. Greeted(old, ip, cn) = [mac |-> old.mac, fai |-> old.fai, mode |-> old.mode, ip |-> ip,
                              class |-> old.class, hw |-> old.hw, dn |-> n]
  BY <1>2, <1>3
<1> HIDE DEF n
<1> QED BY <1>1, <1>4 DEF Wholes

-----------------------------------------------------------------------------
(* Commands.                                                               *)

\* A set as a sequence has each of its elements once.
LEMMA SetToSeqIs ==
  ASSUME NEW S, IsFiniteSet(S)
  PROVE  /\ Cardinality(S) \in Nat /\ SetToSeq(S) \in [1..Cardinality(S) -> S]
         /\ \A i, j \in 1..Cardinality(S) : SetToSeq(S)[i] = SetToSeq(S)[j] => i = j
         /\ \A x \in S : \E i \in 1..Cardinality(S) : SetToSeq(S)[i] = x
<1> DEFINE n == Cardinality(S)
           q == SetToSeq(S)
<1>1. n \in Nat /\ IsFiniteSet(1..n) /\ Cardinality(1..n) = n
  BY FS_CardinalityType, FS_Interval
<1>2. \E f \in [1..n -> S] : \A i, j \in 1..n : f[i] = f[j] => i = j
  BY FS_CardinalityType DEF ExistsBijection, Bijection, Injection, IsInjective
<1>3. q \in [1..n -> S] /\ \A i, j \in 1..n : q[i] = q[j] => i = j
  <2>1. \E f \in [1..n -> S] : IsInjective(f) BY <1>2 DEF IsInjective
  <2>2. q = CHOOSE f \in [1..n -> S] : IsInjective(f) BY DEF SetToSeq
  <2>3. q \in [1..n -> S] /\ IsInjective(q) BY <2>1, <2>2
  <2> QED BY <2>3 DEF IsInjective
<1>4. q \in Injection(1..n, S) BY <1>3 DEF Injection, IsInjective
<1>5. q \in Surjection(1..n, S) BY <1>1, <1>4, FS_Injection
<1> QED BY <1>1, <1>3, <1>5 DEF Surjection

\* A command put before others.
LEMMA ConsIs ==
  ASSUME NEW T, NEW a \in T, NEW s \in Seq(T)
  PROVE  /\ <<a>> \o s \in Seq(T) /\ <<a>> \o s # <<>>
         /\ Head(<<a>> \o s) = a /\ Tail(<<a>> \o s) = s
<1>1. <<a>> \in Seq(T) /\ Len(<<a>>) = 1 /\ <<a>>[1] = a OBVIOUS
<1>2. /\ <<a>> \o s \in Seq(T) /\ Len(<<a>> \o s) = 1 + Len(s)
      /\ \A i \in 1..(1 + Len(s)) : (<<a>> \o s)[i] = IF i <= 1 THEN <<a>>[i] ELSE s[i - 1]
  BY <1>1, ConcatProperties
<1>3. Len(s) \in Nat BY LenProperties
<1>4. <<a>> \o s # <<>> BY <1>2, <1>3
<1>5. Head(<<a>> \o s) = a BY <1>1, <1>2, <1>3
<1>6. Tail(<<a>> \o s) \in Seq(T) /\ Len(Tail(<<a>> \o s)) = Len(s) BY <1>2, <1>3, <1>4
<1>7. \A i \in 1..Len(s) : Tail(<<a>> \o s)[i] = s[i]
  <2> TAKE i \in 1..Len(s)
  <2>1. Tail(<<a>> \o s)[i] = (<<a>> \o s)[i + 1] BY <1>2, <1>3, <1>4
  <2> QED BY <1>2, <1>3, <2>1
<1>8. Tail(<<a>> \o s) = s BY <1>6, <1>7, SeqEqual
<1> QED BY <1>2, <1>4, <1>5, <1>8

\* A record for each of some groups.
LeaveAll(S, from) == PerGroup(S, LAMBDA g : LeaveGroup(g, from))
SwapAll(S, from, to) == PerGroup(S, LAMBDA g : Swap(g, from, to))
LEMMA PerGroupIs ==
  ASSUME NEW mac, NEW from \in DNs(mac), NEW to \in DNs(mac),
         NEW S \in SUBSET Group, IsFiniteSet(Group)
  PROVE  /\ LET leaves == LeaveAll(S, from)
            IN leaves \in Seq(Records(mac)) /\ Leaves(leaves, from) /\ Pending(leaves) = S
         /\ LET swaps == SwapAll(S, from, to)
            IN swaps \in Seq(Records(mac)) /\ Swaps(swaps, from, to) /\ Pending(swaps) = S
         /\ LET joins == AddToGroups(from, S)
            IN /\ joins \in Seq(Commands(mac))
               /\ \A i \in DOMAIN joins : \E g \in S : joins[i] = <<Join(g, from)>>
               /\ \A g \in S : \E i \in DOMAIN joins : joins[i] = <<Join(g, from)>>
<1> DEFINE n == Cardinality(S)
           q == SetToSeq(S)
           leaves == [i \in 1..n |-> LeaveGroup(q[i], from)]
           swaps == [i \in 1..n |-> Swap(q[i], from, to)]
           joins == [i \in 1..n |-> <<Join(q[i], from)>>]
<1>1. IsFiniteSet(S) BY FS_Subset
<1>2. /\ n \in Nat /\ q \in [1..n -> S]
      /\ \A i, j \in 1..n : q[i] = q[j] => i = j
      /\ \A x \in S : \E i \in 1..n : q[i] = x
  BY <1>1, SetToSeqIs
<1>3. /\ LeaveAll(S, from) = leaves
      /\ SwapAll(S, from, to) = swaps
      /\ AddToGroups(from, S) = joins
  BY DEF PerGroup, AddToGroups, LeaveAll, SwapAll
<1> HIDE DEF n, q
<1>4. leaves \in Seq(Records(mac)) /\ Leaves(leaves, from) /\ Pending(leaves) = S
  <2>1. \A i \in 1..n : leaves[i] \in Records(mac) /\ leaves[i].dn = q[i]
                        /\ leaves[i] = LeaveGroup(leaves[i].dn, from)
    BY <1>2 DEF LeaveGroup, Record, Records
  <2>2. DOMAIN leaves = 1..n OBVIOUS
  <2> HIDE DEF leaves
  <2>3. leaves \in Seq(Records(mac)) BY <1>2, <2>1 DEF leaves
  <2>4. Leaves(leaves, from) BY <1>2, <2>1, <2>2 DEF Leaves, Once
  <2>5. Pending(leaves) = S BY <1>2, <2>1, <2>2 DEF Pending
  <2> QED BY <2>3, <2>4, <2>5
<1>5. swaps \in Seq(Records(mac)) /\ Swaps(swaps, from, to) /\ Pending(swaps) = S
  <2>1. \A i \in 1..n : swaps[i] \in Records(mac) /\ swaps[i].dn = q[i]
                        /\ swaps[i] = Swap(swaps[i].dn, from, to)
    BY <1>2 DEF Swap, Record, Records
  <2>2. DOMAIN swaps = 1..n OBVIOUS
  <2> HIDE DEF swaps
  <2>3. swaps \in Seq(Records(mac)) BY <1>2, <2>1 DEF swaps
  <2>4. Swaps(swaps, from, to) BY <1>2, <2>1, <2>2 DEF Swaps, Once
  <2>5. Pending(swaps) = S BY <1>2, <2>1, <2>2 DEF Pending
  <2> QED BY <2>3, <2>4, <2>5
<1>6. /\ joins \in Seq(Commands(mac))
      /\ \A i \in DOMAIN joins : \E g \in S : joins[i] = <<Join(g, from)>>
      /\ \A g \in S : \E i \in DOMAIN joins : joins[i] = <<Join(g, from)>>
  <2>1. \A g \in S : <<Join(g, from)>> \in Commands(mac)
    <3> TAKE g \in S
    <3>1. Join(g, from) \in Records(mac) BY DEF Join, Record, Records
    <3> HIDE DEF Records
    <3> QED BY <3>1 DEF Commands
  <2>2. \A i \in 1..n : q[i] \in S BY <1>2
  <2> HIDE DEF Commands, Join
  <2>3. joins \in Seq(Commands(mac)) BY <1>2, <2>1, <2>2
  <2> QED BY <1>2, <2>2, <2>3
<1> HIDE DEF leaves, swaps, joins
<1> QED BY <1>3, <1>4, <1>5, <1>6

\* The command that deletes.
LEMMA DeleteIs ==
  ASSUME SystemsOK, NEW mac \in Machine, NEW old \in Wholes(mac)
  PROVE  /\ Delete(old) \in Commands(mac)
         /\ Head(Delete(old)) = Record("delete", old.dn, Missing, Missing)
         /\ Leaves(Tail(Delete(old)), old.dn)
         /\ Pending(Tail(Delete(old))) = GroupsWithMember(old.dn)
<1> DEFINE leaves == LeaveAll(GroupsWithMember(old.dn), old.dn)
           r == Record("delete", old.dn, Missing, Missing)
<1>1. old.dn \in DNs(mac) /\ GroupsWithMember(old.dn) \in SUBSET Group
  BY DataIs DEF GroupsWithMember
<1>2. /\ leaves \in Seq(Records(mac)) /\ Leaves(leaves, old.dn)
      /\ Pending(leaves) = GroupsWithMember(old.dn)
  BY <1>1, PerGroupIs DEF SystemsOK
<1>3. r \in Records(mac) BY <1>1 DEF Record, Records
<1>4. Delete(old) = <<r>> \o leaves BY DEF Delete, LeaveAll, PerGroup
<1> HIDE DEF leaves, r
<1>5. /\ Delete(old) \in Seq(Records(mac)) /\ Delete(old) # <<>>
      /\ Head(Delete(old)) = r /\ Tail(Delete(old)) = leaves
  BY <1>2, <1>3, <1>4, ConsIs
<1> QED BY <1>2, <1>5 DEF Commands, r

\* The command that creates.
LEMMA CreateIs ==
  ASSUME NEW mac, NEW new \in Wholes(mac)
  PROVE  Create(new) \in Commands(mac)
<1>1. Record("add", new.dn, Missing, Data(new)) \in Records(mac) BY DataIs DEF Record, Records
<1> DEFINE r == Record("add", new.dn, Missing, Data(new))
<1> HIDE DEF r
<1>2. r \in Records(mac) BY <1>1 DEF r
<1>3. Create(new) = <<r>> BY DEF Create, r
<1> QED BY <1>2, <1>3 DEF Commands

\* The command that replaces one object by another.
LEMMA ModifyIs ==
  ASSUME SystemsOK, NEW mac \in Machine, NEW old \in Wholes(mac), NEW new \in Wholes(mac)
  PROVE  /\ Modify(old, new) \in Commands(mac)
         /\ Head(Modify(old, new)) = Record("modify", old.dn, Data(old), Data(new))
         /\ IF new.dn = old.dn THEN Tail(Modify(old, new)) = <<>>
            ELSE Renames(Tail(Modify(old, new)), old.dn, new.dn, GroupsWithMember(old.dn))
<1> DEFINE swaps == SwapAll(GroupsWithMember(old.dn), old.dn, new.dn)
           r == Record("modify", old.dn, Data(old), Data(new))
           move == Record("rename", old.dn, new.dn, Missing)
           rest == IF new.dn = old.dn THEN <<>> ELSE <<move>> \o swaps
<1>1. /\ old.dn \in DNs(mac) /\ new.dn \in DNs(mac)
      /\ GroupsWithMember(old.dn) \in SUBSET Group
      /\ Data(old) \in Objects(mac) /\ Data(new) \in Objects(mac)
  BY DataIs DEF GroupsWithMember
<1>2. /\ swaps \in Seq(Records(mac)) /\ Swaps(swaps, old.dn, new.dn)
      /\ Pending(swaps) = GroupsWithMember(old.dn)
  BY <1>1, PerGroupIs DEF SystemsOK
<1>3. r \in Records(mac) BY <1>1 DEF Record, Records
<1>4. move \in Records(mac) BY <1>1 DEF Record, Records
<1>5. Modify(old, new) = <<r>> \o rest BY DEF Modify, SwapAll, PerGroup
<1> HIDE DEF swaps
<1>6. /\ <<move>> \o swaps \in Seq(Records(mac)) /\ <<move>> \o swaps # <<>>
      /\ Head(<<move>> \o swaps) = move /\ Tail(<<move>> \o swaps) = swaps
  BY ONLY <1>2, <1>4, ConsIs
<1>7. Renames(<<move>> \o swaps, old.dn, new.dn, GroupsWithMember(old.dn))
  BY <1>2, <1>6 DEF Renames
<1>8. rest \in Seq(Records(mac)) BY <1>6
<1> HIDE DEF r, move
<1>9. /\ <<r>> \o rest \in Seq(Records(mac)) /\ <<r>> \o rest # <<>>
      /\ Head(<<r>> \o rest) = r /\ Tail(<<r>> \o rest) = rest
  <2> HIDE DEF rest
  <2> QED BY ONLY <1>3, <1>8, ConsIs
<1> QED BY <1>5, <1>7, <1>9 DEF Commands, r

-----------------------------------------------------------------------------
(* Records on the directory: what one for a machine does is seen among the *)
(* machine's objects and dns, and nowhere else.                            *)

Allowed(l, m, r) ==
  CASE r.op = "add" -> r.dn \notin DOMAIN l
    [] r.op = "delete" -> r.dn \in DOMAIN l
    [] r.op = "set" -> r.dn \in DOMAIN l
    [] r.op = "modify" ->
         /\ r.dn \in DOMAIN l
         /\ \A a \in Attribute :
              (r.to[a] = Missing /\ r.changes[a] # Missing) => l[r.dn][a] = Missing
    [] r.op = "rename" -> r.dn \in DOMAIN l /\ r.to \notin DOMAIN l
    [] r.op = "join" -> r.to \notin m[r.dn]
    [] r.op = "swap" -> r.to[1] \in m[r.dn] /\ r.to[2] \notin m[r.dn]
    [] r.op = "leave" -> r.to \in m[r.dn]
Merged(o, changes) ==
  [a \in DOMAIN o |-> IF changes[a] # Missing THEN changes[a] ELSE o[a]]
Changed(l, r) ==
  CASE r.op = "add" -> Overlay([dn \in {r.dn} |-> r.changes], l)
    [] r.op = "delete" -> Besides(l, r.dn)
    [] r.op = "set" -> [l EXCEPT ![r.dn].fai = r.changes]
    [] r.op = "modify" -> [l EXCEPT ![r.dn] = Merged(@, r.changes)]
    [] r.op = "rename" -> Overlay([dn \in {r.to} |-> l[r.dn]], Besides(l, r.dn))
    [] OTHER -> l
Moved(m, r) ==
  CASE r.op = "join" -> [m EXCEPT ![r.dn] = @ \cup {r.to}]
    [] r.op = "swap" -> [m EXCEPT ![r.dn] = (@ \ {r.to[1]}) \cup {r.to[2]}]
    [] r.op = "leave" -> [m EXCEPT ![r.dn] = @ \ {r.to}]
    [] OTHER -> m

\* What a record does is a function of the record.
LEMMA PerformIs ==
  ASSUME NEW r
  PROVE  /\ Possible(r) <=> Allowed(ldap, members, r)
         /\ Perform(r) => ldap' = Changed(ldap, r) /\ members' = Moved(members, r)
<1>1. Possible(r) <=> Allowed(ldap, members, r) BY DEF Possible, Allowed
<1>2. Perform(r) => ldap' = Changed(ldap, r) BY DEF Perform, Changed, Merged
<1>3. Perform(r) => members' = Moved(members, r) BY DEF Perform, Moved
<1> QED BY <1>1, <1>2, <1>3

\* The dns of a machine are its own, or those of its kin.
LEMMA DNsIs ==
  ASSUME NEW mac \in Machine
  PROVE  /\ Template \notin DNs(mac) /\ DNs(mac) \subseteq AllDNs
         /\ OwnNames(mac) => \A dn \in AllDNs : dn \in DNs(mac) <=> dn[1] \in Cns(mac)
         /\ \A other \in Machine : other # mac /\ OwnNames(other) => DNs(mac) \cap DNs(other) = {}
         /\ \A other \in Machine : DNs(mac) \cap DNs(other) # {} => Objects(other) = Objects(mac)
<1>1. /\ mac \in Kin(mac) /\ Kin(mac) \subseteq Machine
      /\ OwnNames(mac) => KinCns(mac) = Cns(mac)
      /\ \A other \in Machine :
           \/ Kin(other) = Kin(mac)
           \/ Kin(other) \cap Kin(mac) = {} /\ KinCns(other) \cap KinCns(mac) = {}
      /\ \A other \in Machine : OwnNames(other) => Kin(other) = {other}
  BY KinIs
<1>2. \A m \in Machine : \A cn \in Cns(m) : cn[1] # "template"
  BY DEF Cns, AutoName, DnsName
<1>3. \A cn \in KinCns(mac) : cn[1] # "template" BY <1>1, <1>2 DEF KinCns
<1>4. \A dn \in DNs(mac) : dn[1] \in KinCns(mac) BY DEF DNs
<1>5. Template[1][1] = "template" BY DEF Template
<1>6. Template \notin DNs(mac) BY <1>3, <1>4, <1>5
<1>7. DNs(mac) \subseteq AllDNs BY DEF AllDNs
<1>8. ASSUME OwnNames(mac), NEW dn \in AllDNs PROVE dn \in DNs(mac) <=> dn[1] \in Cns(mac)
  <2>1. CASE dn = Template BY <1>1, <1>2, <1>5, <1>6, <2>1
  <2>2. CASE dn # Template
    <3>1. PICK m \in Machine : dn \in DNs(m) BY <2>2 DEF AllDNs
    <3>2. dn = <<dn[1], dn[2]>> /\ dn[2] \in Ous BY <3>1 DEF DNs
    <3> HIDE DEF Ous
    <3> QED BY <1>1, <1>8, <3>2 DEF DNs
  <2> QED BY <2>1, <2>2
<1>9. ASSUME NEW other \in Machine, other # mac, OwnNames(other)
      PROVE  DNs(mac) \cap DNs(other) = {}
  <2>1. KinCns(other) \cap KinCns(mac) = {} BY <1>1, <1>9
  <2> QED BY <2>1 DEF DNs
<1>10. ASSUME NEW other \in Machine, DNs(mac) \cap DNs(other) # {}
       PROVE  Objects(other) = Objects(mac)
  <2>1. KinCns(other) \cap KinCns(mac) # {} BY <1>10 DEF DNs
  <2>2. Kin(other) = Kin(mac) BY <1>1, <2>1
  <2> QED BY <2>2 DEF Objects
<1> QED BY <1>6, <1>7, <1>8, <1>9, <1>10

\* The fields of a record.
LEMMA RecordIs ==
  ASSUME NEW mac, NEW r \in Records(mac)
  PROVE  \/ r.op = "add" /\ r.dn \in DNs(mac) /\ r.changes \in Objects(mac)
         \/ r.op = "delete" /\ r.dn \in DNs(mac)
         \/ r.op = "set" /\ r.dn \in DNs(mac) /\ r.changes \in State
         \/ r.op = "modify" /\ r.dn \in DNs(mac) /\ r.changes \in Objects(mac)
         \/ r.op = "rename" /\ r.dn \in DNs(mac) /\ r.to \in DNs(mac)
         \/ r.op \in {"join", "leave"} /\ r.dn \in Group /\ r.to \in DNs(mac)
         \/ r.op = "swap" /\ r.dn \in Group /\ r.to[1] \in DNs(mac) /\ r.to[2] \in DNs(mac)
<1> HIDE DEF DNs, Objects, State
<1> QED BY DEF Records

\* Attributes written over those there are.
LEMMA MergedIs ==
  ASSUME SystemsOK, NEW mac, NEW o \in Objects(mac), NEW n \in Objects(mac), NEW s \in State
  PROVE  /\ Merged(o, n) \in Objects(mac) /\ Merged(o, n).fai = n.fai
         /\ [o EXCEPT !.fai = s] \in Objects(mac)
<1>1. Merged(o, n) = [mac |-> IF n.mac # Missing THEN n.mac ELSE o.mac, fai |-> n.fai,
                      mode |-> IF n.mode # Missing THEN n.mode ELSE o.mode,
                      ip |-> IF n.ip # Missing THEN n.ip ELSE o.ip,
                      class |-> IF n.class # Missing THEN n.class ELSE o.class,
                      hw |-> IF n.hw # Missing THEN n.hw ELSE o.hw]
  BY DEF Merged, Objects, SystemsOK
<1>2. [o EXCEPT !.fai = s] \in Objects(mac) BY DEF Objects
<1> QED BY <1>1, <1>2 DEF Objects

\* A record changes the objects of its machine, as it changes the directory.
LEMMA ChangedIs ==
  ASSUME SystemsOK, NEW mac \in Machine, NEW r \in Records(mac),
         NEW l, NEW m, Directory(l), Groups(m), Allowed(l, m, r)
  PROVE  /\ Directory(Changed(l, r))
         /\ Entries(Changed(l, r), mac) = Changed(Entries(l, mac), r)
         /\ \A other \in Machine \ {mac} :
              OwnNames(other) => Entries(Changed(l, r), other) = Entries(l, other)
<1> DEFINE k == Changed(l, r)
           E == Entries(l, mac)
<1>0. /\ Template \notin DNs(mac) /\ DNs(mac) \subseteq AllDNs
      /\ \A other \in Machine : other # mac /\ OwnNames(other) => DNs(mac) \cap DNs(other) = {}
      /\ \A other \in Machine : DNs(mac) \cap DNs(other) # {} => Objects(other) = Objects(mac)
  BY DNsIs
<1>1. /\ l = [dn \in DOMAIN l |-> l[dn]] /\ DOMAIN l \subseteq AllDNs
      /\ Template \in DOMAIN l /\ l[Template] = TheTemplate
      /\ \A mm \in Machine : \A dn \in DNs(mm) \cap DOMAIN l : l[dn] \in Objects(mm)
  BY DEF Directory
<1>a. CASE r.op = "add" /\ r.dn \in DNs(mac) /\ r.changes \in Objects(mac)
  <2> DEFINE d == r.dn
             o == r.changes
  <2>1. k = [x \in {d} \cup DOMAIN l |-> IF x \in {d} THEN o ELSE l[x]]
    BY <1>a DEF Changed, Overlay
  <2>2. Changed(E, r) = [x \in {d} \cup DOMAIN E |-> IF x \in {d} THEN o ELSE E[x]]
    BY <1>a DEF Changed, Overlay
  <2>3. d \in DNs(mac) /\ o \in Objects(mac) BY <1>a
  <2> HIDE DEF k, d, o, E
  <2>4. Directory(k) BY ONLY <1>0, <1>1, <2>1, <2>3, mac \in Machine DEF Directory
  <2>5. Entries(k, mac) = Changed(E, r) BY ONLY <2>1, <2>2, <2>3 DEF Entries, E
  <2>6. \A other \in Machine \ {mac} : OwnNames(other) => Entries(k, other) = Entries(l, other)
    BY ONLY <1>0, <2>1, <2>3 DEF Entries
  <2> QED BY <2>4, <2>5, <2>6 DEF k, E
<1>b. CASE r.op = "delete" /\ r.dn \in DNs(mac)
  <2> DEFINE d == r.dn
  <2>1. k = [x \in DOMAIN l \ {d} |-> l[x]] BY <1>b DEF Changed, Besides
  <2>2. Changed(E, r) = [x \in DOMAIN E \ {d} |-> E[x]] BY <1>b DEF Changed, Besides
  <2>3. d \in DNs(mac) BY <1>b
  <2> HIDE DEF k, d, E
  <2>4. Directory(k) BY ONLY <1>0, <1>1, <2>1, <2>3, mac \in Machine DEF Directory
  <2>5. Entries(k, mac) = Changed(E, r) BY ONLY <2>1, <2>2, <2>3 DEF Entries, E
  <2>6. \A other \in Machine \ {mac} : OwnNames(other) => Entries(k, other) = Entries(l, other)
    BY ONLY <1>0, <2>1, <2>3 DEF Entries
  <2> QED BY <2>4, <2>5, <2>6 DEF k, E
<1>c. CASE r.op \in {"set", "modify"} /\ r.dn \in DNs(mac)
           /\ (r.op = "set" => r.changes \in State)
           /\ (r.op = "modify" => r.changes \in Objects(mac))
  <2> DEFINE d == r.dn
             o == IF r.op = "set" THEN [l[d] EXCEPT !.fai = r.changes] ELSE Merged(l[d], r.changes)
  <2>1. d \in DNs(mac) /\ d \in DOMAIN l BY <1>c DEF Allowed
  <2>2. E[d] = l[d] /\ d \in DOMAIN E BY <2>1 DEF Entries
  <2>3. o \in Objects(mac) BY <1>1, <1>c, <2>1, MergedIs DEF State
  <2>4. k = [l EXCEPT ![d] = o] BY <1>c DEF Changed
  <2>5. Changed(E, r) = [E EXCEPT ![d] = o] BY <1>c, <2>2 DEF Changed
  <2> HIDE DEF k, d, o, E
  <2>6. Directory(k) BY ONLY <1>0, <1>1, <2>1, <2>3, <2>4, mac \in Machine DEF Directory
  <2>7. Entries(k, mac) = Changed(E, r) BY ONLY <2>1, <2>4, <2>5 DEF Entries, E
  <2>8. \A other \in Machine \ {mac} : OwnNames(other) => Entries(k, other) = Entries(l, other)
    BY ONLY <1>0, <2>1, <2>4 DEF Entries
  <2> QED BY <2>6, <2>7, <2>8 DEF k, E
<1>d. CASE r.op = "rename" /\ r.dn \in DNs(mac) /\ r.to \in DNs(mac)
  <2> DEFINE d == r.dn
             e == r.to
             o == l[d]
  <2>1. d \in DNs(mac) /\ e \in DNs(mac) /\ d \in DOMAIN l /\ e \notin DOMAIN l
    BY <1>d DEF Allowed
  <2>2. E[d] = o BY <2>1 DEF Entries
  <2>3. k = [x \in {e} \cup (DOMAIN l \ {d}) |-> IF x \in {e} THEN o ELSE l[x]]
    BY <1>d DEF Changed, Overlay, Besides
  <2>4. Changed(E, r) = [x \in {e} \cup (DOMAIN E \ {d}) |-> IF x \in {e} THEN o ELSE E[x]]
    BY <1>d, <2>2 DEF Changed, Overlay, Besides
  <2>5. o \in Objects(mac) BY <1>1, <2>1
  <2> HIDE DEF k, d, e, o, E
  <2>6. Directory(k) BY ONLY <1>0, <1>1, <2>1, <2>3, <2>5, mac \in Machine DEF Directory
  <2>7. Entries(k, mac) = Changed(E, r) BY ONLY <2>1, <2>3, <2>4 DEF Entries, E
  <2>8. \A other \in Machine \ {mac} : OwnNames(other) => Entries(k, other) = Entries(l, other)
    BY ONLY <1>0, <2>1, <2>3 DEF Entries
  <2> QED BY <2>6, <2>7, <2>8 DEF k, E
<1>e. CASE r.op \in {"join", "swap", "leave"}
  <2>1. k = l /\ Changed(E, r) = E BY <1>e DEF Changed
  <2> QED BY <2>1
<1> QED BY RecordIs, <1>a, <1>b, <1>c, <1>d, <1>e

\* The same for the groups.
LEMMA MovedIs ==
  ASSUME SystemsOK, NEW mac \in Machine, NEW r \in Records(mac), NEW m, Groups(m)
  PROVE  /\ Groups(Moved(m, r))
         /\ In(Moved(m, r), mac) = Moved(In(m, mac), r)
         /\ \A other \in Machine \ {mac} :
              OwnNames(other) => In(Moved(m, r), other) = In(m, other)
<1>0. /\ Template \notin DNs(mac) /\ DNs(mac) \subseteq AllDNs
      /\ \A other \in Machine : other # mac /\ OwnNames(other) => DNs(mac) \cap DNs(other) = {}
      /\ \A other \in Machine : DNs(mac) \cap DNs(other) # {} => Objects(other) = Objects(mac)
  BY DNsIs
<1>1. m \in [Group -> SUBSET AllDNs] /\ \A g \in Group : Template \in m[g] BY DEF Groups
<1>2. ASSUME NEW g \in Group, NEW out \in SUBSET DNs(mac), NEW add \in SUBSET DNs(mac),
             Moved(m, r) = [m EXCEPT ![g] = (@ \ out) \cup add],
             Moved(In(m, mac), r) = [In(m, mac) EXCEPT ![g] = (@ \ out) \cup add]
      PROVE  /\ Groups(Moved(m, r))
             /\ In(Moved(m, r), mac) = Moved(In(m, mac), r)
             /\ \A other \in Machine \ {mac} :
                  OwnNames(other) => In(Moved(m, r), other) = In(m, other)
  <2> DEFINE k == Moved(m, r)
             v == (m[g] \ out) \cup add
             i == Moved(In(m, mac), r)
  <2>1. k = [m EXCEPT ![g] = v] BY <1>2
  <2>2. v \in SUBSET AllDNs /\ Template \in v BY <1>0, <1>1
  <2>3. v \cap DNs(mac) = ((m[g] \cap DNs(mac)) \ out) \cup add OBVIOUS
  <2>4. \A other \in Machine \ {mac} :
          OwnNames(other) => v \cap DNs(other) = m[g] \cap DNs(other)
    BY <1>0
  <2>5. i = [In(m, mac) EXCEPT ![g] = (@ \ out) \cup add] BY <1>2
  <2> HIDE DEF k, v, i
  <2>6. Groups(k) BY <1>1, <2>1, <2>2 DEF Groups
  <2>7. In(k, mac) = i BY <1>1, <2>1, <2>3, <2>5 DEF In
  <2>8. \A other \in Machine \ {mac} : OwnNames(other) => In(k, other) = In(m, other)
    BY <1>1, <2>1, <2>4 DEF In
  <2> QED BY <2>6, <2>7, <2>8 DEF k, i
<1>a. CASE r.op = "join" /\ r.dn \in Group /\ r.to \in DNs(mac)
  <2> DEFINE g == r.dn
             d == r.to
  <2>1. ASSUME NEW f PROVE Moved(f, r) = [f EXCEPT ![g] = (@ \ {}) \cup {d}]
    <3>1. Moved(f, r) = [f EXCEPT ![g] = @ \cup {d}] BY <1>a DEF Moved
    <3>2. \A x : x \cup {d} = (x \ {}) \cup {d} OBVIOUS
    <3> QED BY <3>1, <3>2
  <2>2. g \in Group /\ {} \in SUBSET DNs(mac) /\ {d} \in SUBSET DNs(mac) BY <1>a
  <2> HIDE DEF g, d
  <2> QED BY <1>2, <2>1, <2>2
<1>b. CASE r.op = "leave" /\ r.dn \in Group /\ r.to \in DNs(mac)
  <2> DEFINE g == r.dn
             d == r.to
  <2>1. ASSUME NEW f PROVE Moved(f, r) = [f EXCEPT ![g] = (@ \ {d}) \cup {}]
    <3>1. Moved(f, r) = [f EXCEPT ![g] = @ \ {d}] BY <1>b DEF Moved
    <3>2. \A x : x \ {d} = (x \ {d}) \cup {} OBVIOUS
    <3> QED BY <3>1, <3>2
  <2>2. g \in Group /\ {} \in SUBSET DNs(mac) /\ {d} \in SUBSET DNs(mac) BY <1>b
  <2> HIDE DEF g, d
  <2> QED BY <1>2, <2>1, <2>2
<1>c. CASE r.op = "swap" /\ r.dn \in Group /\ r.to[1] \in DNs(mac) /\ r.to[2] \in DNs(mac)
  <2> DEFINE g == r.dn
             d == r.to[1]
             e == r.to[2]
  <2>1. ASSUME NEW f PROVE Moved(f, r) = [f EXCEPT ![g] = (@ \ {d}) \cup {e}]
    BY <1>c DEF Moved
  <2>2. g \in Group /\ {d} \in SUBSET DNs(mac) /\ {e} \in SUBSET DNs(mac) BY <1>c
  <2> HIDE DEF g, d, e
  <2> QED BY <1>2, <2>1, <2>2
<1>d. CASE r.op \in {"add", "delete", "set", "modify", "rename"}
  <2>1. \A f : Moved(f, r) = f BY <1>d DEF Moved
  <2> QED BY <2>1
<1> QED BY RecordIs, <1>a, <1>b, <1>c, <1>d

\* Whether a record is possible is seen in what the directory has of its machine.
LEMMA AllowedIs ==
  ASSUME NEW mac, NEW r \in Records(mac), NEW l, NEW m
  PROVE  Allowed(Entries(l, mac), In(m, mac), r) <=> Allowed(l, m, r)
<1> DEFINE E == Entries(l, mac)
           M == In(m, mac)
<1>1. \A d \in DNs(mac) : (d \in DOMAIN E <=> d \in DOMAIN l) /\ (d \in DOMAIN E => E[d] = l[d])
  BY DEF Entries
<1>2. \A g \in Group, d \in DNs(mac) : d \in M[g] <=> d \in m[g] BY DEF In
<1> HIDE DEF E, M
<1>3. Allowed(E, M, r) <=> Allowed(l, m, r) BY <1>1, <1>2, RecordIs DEF Allowed
<1> QED BY <1>3 DEF E, M

-----------------------------------------------------------------------------
(* What is left of the commands after a record.                            *)

\* A sequence without its head.
LEMMA TailIs ==
  ASSUME NEW T, NEW s \in Seq(T), s # <<>>
  PROVE  /\ Len(s) \in Nat \ {0} /\ DOMAIN s = 1..Len(s) /\ Head(s) = s[1] /\ Head(s) \in T
         /\ Tail(s) \in Seq(T) /\ DOMAIN Tail(s) = 1..(Len(s) - 1)
         /\ \A i \in 1..(Len(s) - 1) : Tail(s)[i] = s[i + 1]
         /\ Len(s) = 1 <=> Tail(s) = <<>>
<1>1. Len(s) \in Nat \ {0} /\ DOMAIN s = 1..Len(s) BY EmptySeq, LenProperties
<1>2. Head(s) = s[1] /\ Head(s) \in T BY <1>1, ElementOfSeq
<1>3. /\ Tail(s) \in Seq(T) /\ Len(Tail(s)) = Len(s) - 1 /\ DOMAIN Tail(s) = 1..Len(Tail(s))
      /\ \A i \in 1..(Len(s) - 1) : Tail(s)[i] = s[i + 1]
  BY <1>1
<1>4. Len(s) = 1 <=> Tail(s) = <<>> BY <1>1, <1>3
<1> QED BY <1>1, <1>2, <1>3, <1>4

RestOf(todo) ==
  IF Len(Head(todo)) = 1 THEN Tail(todo) ELSE <<Tail(Head(todo))>> \o Tail(todo)

\* The commands of a handler, and what is left of them.
LEMMA RestIs ==
  ASSUME NEW mac, NEW todo \in Seq(Commands(mac)), todo # <<>>
  PROVE  /\ Head(todo) \in Commands(mac) /\ Head(todo) \in Seq(Records(mac)) /\ Head(todo) # <<>>
         /\ Head(Head(todo)) \in Records(mac)
         /\ RestOf(todo) \in Seq(Commands(mac)) /\ Tail(todo) \in Seq(Commands(mac))
         /\ Tail(Head(todo)) = <<>> => RestOf(todo) = Tail(todo)
         /\ Tail(Head(todo)) # <<>> =>
              RestOf(todo) # <<>> /\ Head(RestOf(todo)) = Tail(Head(todo))
              /\ Tail(RestOf(todo)) = Tail(todo)
<1> DEFINE command == Head(todo)
<1>1. command \in Commands(mac) /\ Tail(todo) \in Seq(Commands(mac)) BY TailIs
<1>2. command \in Seq(Records(mac)) /\ command # <<>> BY <1>1 DEF Commands
<1>3. /\ Head(command) \in Records(mac) /\ Tail(command) \in Seq(Records(mac))
      /\ Len(command) = 1 <=> Tail(command) = <<>>
  BY ONLY <1>2, TailIs
<1>4. CASE Tail(command) = <<>>
  <2>1. RestOf(todo) = Tail(todo) BY <1>3, <1>4 DEF RestOf
  <2> QED BY <1>1, <1>2, <1>3, <1>4, <2>1
<1>5. CASE Tail(command) # <<>>
  <2>1. RestOf(todo) = <<Tail(command)>> \o Tail(todo) BY <1>3, <1>5 DEF RestOf
  <2>2. Tail(command) \in Commands(mac) BY <1>3, <1>5 DEF Commands
  <2>3. /\ <<Tail(command)>> \o Tail(todo) \in Seq(Commands(mac))
        /\ <<Tail(command)>> \o Tail(todo) # <<>>
        /\ Head(<<Tail(command)>> \o Tail(todo)) = Tail(command)
        /\ Tail(<<Tail(command)>> \o Tail(todo)) = Tail(todo)
    BY <1>1, <2>2, ConsIs
  <2> QED BY <1>1, <1>2, <1>3, <1>5, <2>1, <2>3
<1> QED BY <1>4, <1>5

\* The groups that are left after a record.
LEMMA PendingIs ==
  ASSUME NEW T, NEW s \in Seq(T), s # <<>>, Once(s)
  PROVE  /\ Once(Tail(s)) /\ Head(s).dn \in Pending(s)
         /\ Pending(Tail(s)) = Pending(s) \ {Head(s).dn}
<1>1. /\ Len(s) \in Nat \ {0} /\ DOMAIN s = 1..Len(s) /\ Head(s) = s[1]
      /\ Tail(s) \in Seq(T) /\ DOMAIN Tail(s) = 1..(Len(s) - 1)
      /\ \A i \in 1..(Len(s) - 1) : Tail(s)[i] = s[i + 1]
  BY TailIs
<1> DEFINE n == Len(s)
           q == Tail(s)
           h == Head(s)
<1>2. \A i, j \in 1..n : s[i].dn = s[j].dn => i = j BY <1>1 DEF Once
<1> HIDE DEF n, q, h
<1>3. Once(q)
  <2> SUFFICES ASSUME NEW i \in 1..(n - 1), NEW j \in 1..(n - 1), q[i].dn = q[j].dn PROVE i = j
    BY <1>1 DEF Once, q, n
  <2>1. i + 1 \in 1..n /\ j + 1 \in 1..n BY <1>1 DEF n
  <2>2. i + 1 = j + 1 BY <1>1, <1>2, <2>1 DEF q, n
  <2> QED BY <1>1, <2>2 DEF n
<1>4. Pending(s) = {s[i].dn : i \in 1..n} /\ Pending(q) = {s[i + 1].dn : i \in 1..(n - 1)}
  BY <1>1 DEF Pending, n, q
<1>5. h.dn = s[1].dn /\ 1 \in 1..n BY <1>1 DEF h, n
<1>6. h.dn \in Pending(s) BY <1>4, <1>5
<1>7. Pending(q) \subseteq Pending(s) \ {h.dn}
  <2> SUFFICES ASSUME NEW i \in 1..(n - 1) PROVE s[i + 1].dn \in Pending(s) \ {h.dn} BY <1>4
  <2>1. i + 1 \in 1..n /\ i + 1 # 1 BY <1>1 DEF n
  <2> QED BY <1>2, <1>4, <1>5, <2>1
<1>8. Pending(s) \ {h.dn} \subseteq Pending(q)
  <2> SUFFICES ASSUME NEW i \in 1..n, s[i].dn # h.dn PROVE s[i].dn \in Pending(q) BY <1>4
  <2>1. i - 1 \in 1..(n - 1) /\ (i - 1) + 1 = i BY <1>1, <1>5 DEF n
  <2> QED BY <1>4, <2>1
<1> QED BY <1>3, <1>6, <1>7, <1>8 DEF q, h

-----------------------------------------------------------------------------
(* One record: where it leads a handler, and that it keeps the state.      *)

Seen(mac, E, M, b) ==
  /\ E = [dn \in DOMAIN E |-> E[dn]] /\ DOMAIN E \subseteq DNs(mac)
  /\ \A dn \in DOMAIN E : E[dn] \in Objects(mac)
  /\ M \in [Group -> SUBSET DNs(mac)] /\ b \in SUBSET Group
States(E) == {E[dn].fai : dn \in DOMAIN E}
Steps(c, E, M, b) ==
  LET r == Head(Head(c.todo))
      done == With(c, c.old, c.new, c.pc, RestOf(c.todo))
      given == With(c, c.old, c.new, c.pc, Tail(c.todo))
  IN /\ Allowed(E, M, r) =>
          /\ OnTheWay(done, Changed(E, r), Moved(M, r), IF r.op = "delete" THEN {} ELSE b)
          /\ \/ States(E) = {} \/ States(Changed(E, r)) = {}
             \/ States(Changed(E, r)) = States(E)
             \/ c.arg.fai # Missing /\ States(Changed(E, r)) = {c.arg.fai}
     /\ ~Allowed(E, M, r) => OnTheWay(given, E, M, b)

\* The record of SystemSetState.
LEMMA SettingStep ==
  ASSUME SystemsOK, NEW mac \in Machine, NEW c, NEW E, NEW M, NEW b, Seen(mac, E, M, b),
         c.pc \in {"jobs", "forced", "end"}, Setting(c, E, M, b), c.pc # "end" => Known(c, E)
  PROVE  Steps(c, E, M, b)
<1> DEFINE r == Head(Head(c.todo))
           done == With(c, c.old, c.new, c.pc, RestOf(c.todo))
           given == With(c, c.old, c.new, c.pc, Tail(c.todo))
           F == Changed(E, r)
<1>1. PICK dn \in DOMAIN E : c.todo = SetState(dn, c.arg.fai) BY DEF Setting
<1>2. /\ r = Record("set", dn, Missing, c.arg.fai)
      /\ RestOf(c.todo) = <<>> /\ Tail(c.todo) = <<>>
  BY <1>1 DEF SetState, RestOf
<1>3. r.op = "set" /\ r.dn = dn /\ r.changes = c.arg.fai BY <1>2 DEF Record
<1>4. DOMAIN F = DOMAIN E /\ Moved(M, r) = M BY <1>3 DEF Changed, Moved
<1>5. /\ done.pc = c.pc /\ done.old = c.old /\ done.todo = <<>>
      /\ given.pc = c.pc /\ given.old = c.old /\ given.todo = <<>>
       /\ done.arg = c.arg /\ given.arg = c.arg
  BY <1>2 DEF With
<1>6. Rests(E, M, b) /\ c.arg.fai \in State /\ c.arg.fai # Missing BY DEF Setting, SystemsOK
<1>11. States(F) = {c.arg.fai}
  <2>1. F = [E EXCEPT ![dn].fai = c.arg.fai] BY <1>3 DEF Changed
  <2>2. DOMAIN E = {dn} BY <1>6 DEF Rests
  <2>3. E[dn] \in Objects(mac) /\ E = [x \in DOMAIN E |-> E[x]] BY DEF Seen
  <2>4. F[dn].fai = c.arg.fai BY <2>1, <2>3 DEF Objects
  <2> QED BY <1>4, <2>2, <2>4 DEF States
<1>7. (IF r.op = "delete" THEN {} ELSE b) = b BY <1>3
<1> HIDE DEF r, done, given, F
<1>8. Rests(F, M, b) /\ (c.pc # "end" => Known(c, F)) BY <1>4, <1>6 DEF Rests, Known
<1>9. OnTheWay(done, F, M, b) BY <1>5, <1>8 DEF OnTheWay, Waits, Known
<1>10. OnTheWay(given, E, M, b) BY <1>5, <1>6 DEF OnTheWay, Waits, Known
<1> QED BY <1>4, <1>6, <1>7, <1>9, <1>10, <1>11 DEF Steps, r, done, given, F

\* A record of SystemAddToGroups.
LEMMA JoiningStep ==
  ASSUME SystemsOK, NEW mac \in Machine, NEW c \in Handlers(mac), NEW E, NEW M, NEW b,
         Seen(mac, E, M, b), c.todo # <<>>, Joining(c, E, M, b),
         \/ c.pc = "replace" /\ c.old = Missing /\ c.op # "kill"
         \/ c.pc = "end" /\ c.op = "copy"
  PROVE  Steps(c, E, M, b)
<1> DEFINE todo == c.todo
           r == Head(Head(todo))
           rest == Tail(todo)
           dn == c.new.dn
           next == With(c, c.old, c.new, c.pc, rest)
           N == Moved(M, r)
<1>1. todo \in Seq(Commands(mac)) /\ todo # <<>> BY DEF Handlers
<1>2. /\ Len(todo) \in Nat \ {0} /\ DOMAIN todo = 1..Len(todo) /\ Head(todo) = todo[1]
      /\ DOMAIN rest = 1..(Len(todo) - 1)
      /\ \A i \in 1..(Len(todo) - 1) : rest[i] = todo[i + 1]
  BY ONLY <1>1, TailIs
<1>3. /\ \A i \in DOMAIN todo : \E g \in Group : todo[i] = <<Join(g, dn)>>
      /\ \A g \in Group :
           M[g] \in IF \E i \in DOMAIN todo : todo[i] = <<Join(g, dn)>> THEN {{}, {dn}} ELSE {{dn}}
  BY DEF Joining, Joins
<1>4. PICK g \in Group : todo[1] = <<Join(g, dn)>>
  <2>1. 1 \in DOMAIN todo BY <1>2
  <2> HIDE DEF todo, dn
  <2> QED BY <1>3, <2>1
<1>5. r = Join(g, dn) /\ Len(Head(todo)) = 1
  <2>1. Head(todo) = <<Join(g, dn)>> BY <1>2, <1>4
  <2>2. ASSUME NEW j PROVE Head(<<j>>) = j /\ Len(<<j>>) = 1 OBVIOUS
  <2> HIDE DEF todo, dn
  <2> QED BY <2>1, <2>2
<1>6. r.op = "join" /\ r.dn = g /\ r.to = dn BY <1>5 DEF Join, Record
<1>7. \A h : <<Join(h, dn)>> = <<Join(g, dn)>> => h = g BY DEF Join, Record
<1>8. RestOf(todo) = rest BY <1>5 DEF RestOf
<1>9. M \in [Group -> SUBSET DNs(mac)] BY DEF Seen
<1>10. Changed(E, r) = E /\ N = [M EXCEPT ![g] = @ \cup {dn}] BY <1>6 DEF Changed, Moved
<1>11. M[g] \in {{}, {dn}} BY <1>2, <1>3, <1>4
<1> HIDE DEF Join, r, todo, rest, dn, N
<1>12. N[g] = {dn} /\ \A h \in Group \ {g} : N[h] = M[h] BY <1>9, <1>10, <1>11
<1>13. Joins(rest, N, dn)
  <2>1. \A i \in DOMAIN rest : i + 1 \in DOMAIN todo /\ rest[i] = todo[i + 1] BY <1>2
  <2>2. \A i \in DOMAIN rest : \E h \in Group : rest[i] = <<Join(h, dn)>> BY <1>3, <2>1
  <2>3. ASSUME NEW h \in Group \ {g}
        PROVE  N[h] \in IF \E i \in DOMAIN rest : rest[i] = <<Join(h, dn)>>
                        THEN {{}, {dn}} ELSE {{dn}}
    <3>1. ASSUME NEW i \in DOMAIN todo, todo[i] = <<Join(h, dn)>>
          PROVE  \E j \in DOMAIN rest : rest[j] = <<Join(h, dn)>>
      <4>1. i # 1 BY <1>4, <1>7, <2>3, <3>1
      <4>2. i - 1 \in DOMAIN rest /\ rest[i - 1] = todo[(i - 1) + 1] /\ (i - 1) + 1 = i
        BY <1>2, <4>1
      <4> QED BY <3>1, <4>2
    <3> QED BY <1>3, <1>12, <3>1
  <2> QED BY <1>12, <2>2, <2>3 DEF Joins
<1>14. ~Allowed(E, M, r) => N = M
  <2>1. Allowed(E, M, r) <=> dn \notin M[g] BY <1>6 DEF Allowed
  <2>2. dn \in M[g] => M[g] \cup {dn} = M[g] OBVIOUS
  <2> QED BY <1>9, <1>10, <2>1, <2>2
<1>15. /\ next.op = c.op /\ next.pc = c.pc /\ next.old = c.old /\ next.new = c.new
       /\ next.todo = rest
  BY DEF With
<1>16. b = Group /\ DOMAIN E = IF c.pc = "replace" THEN {} ELSE {dn} BY DEF Joining, dn
<1> HIDE DEF next
<1>17. OnTheWay(next, E, N, b)
  <2>1. CASE rest = <<>>
    <3>1. Joined(N, b, dn) BY <1>13, <1>16, <2>1 DEF Joined, Joins
    <3>2. CASE c.pc = "replace"
      <4>1. Fresh(next, E) /\ StateKept(next) BY <1>15, <1>16, <3>2 DEF Fresh, Known, StateKept
      <4> QED BY <1>15, <2>1, <3>1, <3>2, <4>1 DEF OnTheWay, Waits, dn
    <3>3. CASE c.pc = "end"
      <4>1. Rests(E, N, b) BY <1>16, <3>1, <3>3 DEF Rests
      <4> QED BY <1>15, <2>1, <3>3, <4>1 DEF OnTheWay, Waits
    <3> QED BY <3>2, <3>3
  <2>2. CASE rest # <<>>
    <3>1. Joining(next, E, N, b) BY <1>13, <1>15, <1>16 DEF Joining, dn
    <3> QED BY <1>15, <2>2, <3>1 DEF OnTheWay, Runs
  <2> QED BY <2>1, <2>2
<1>18. (IF r.op = "delete" THEN {} ELSE b) = b BY <1>6
<1> QED BY <1>8, <1>10, <1>14, <1>17, <1>18 DEF Steps, r, todo, rest, next, N

\* The command of Replace, and what is left of it after a record.
LEMMA ReplacingIs ==
  ASSUME NEW mac, NEW c \in Handlers(mac), c.todo # <<>>, Len(c.todo) = 1
  PROVE  LET command == Head(c.todo)
             done == With(c, c.old, c.new, c.pc, RestOf(c.todo))
         IN /\ command \in Seq(Records(mac)) /\ command # <<>>
            /\ Head(command) \in Records(mac) /\ Tail(command) \in Seq(Records(mac))
            /\ done.op = c.op /\ done.pc = c.pc /\ done.old = c.old /\ done.new = c.new
            /\ Tail(command) = <<>> => done.todo = <<>>
            /\ Tail(command) # <<>> =>
                 done.todo # <<>> /\ Len(done.todo) = 1 /\ Head(done.todo) = Tail(command)
<1> DEFINE todo == c.todo
           command == Head(todo)
           rest == RestOf(todo)
<1>1. todo \in Seq(Commands(mac)) /\ todo # <<>> BY DEF Handlers
<1> HIDE DEF todo
<1>2. Tail(todo) = <<>> /\ Len(todo) = 1 BY <1>1, TailIs DEF todo
<1>3. /\ command \in Seq(Records(mac)) /\ command # <<>> /\ Head(command) \in Records(mac)
      /\ rest \in Seq(Commands(mac))
      /\ Tail(command) = <<>> => rest = <<>>
      /\ Tail(command) # <<>> => rest # <<>> /\ Head(rest) = Tail(command) /\ Tail(rest) = <<>>
  BY <1>1, <1>2, RestIs
<1> HIDE DEF command, rest
<1>4. Tail(command) \in Seq(Records(mac)) BY ONLY <1>3, TailIs
<1>5. Tail(command) # <<>> => Len(rest) = 1 BY <1>3, TailIs
<1> QED BY <1>3, <1>4, <1>5 DEF With, command, todo, rest

\* The record that creates.
LEMMA AddingStep ==
  ASSUME NEW mac, NEW c \in Handlers(mac), NEW E, NEW M, NEW b,
         c.todo # <<>>, Len(c.todo) = 1, c.pc = "end", Adding(c, Head(c.todo), E, M, b)
  PROVE  Steps(c, E, M, b)
<1> DEFINE command == Head(c.todo)
           r == Head(command)
           done == With(c, c.old, c.new, c.pc, RestOf(c.todo))
           F == Changed(E, r)
<1>1. command = <<Record("add", c.new.dn, Missing, Data(c.new))>> /\ DOMAIN E = {}
      /\ Joined(M, b, c.new.dn)
  BY DEF Adding
<1>2. r = Record("add", c.new.dn, Missing, Data(c.new)) /\ Tail(command) = <<>>
  <2>1. ASSUME NEW x PROVE Head(<<x>>) = x /\ Tail(<<x>>) = <<>> OBVIOUS
  <2> HIDE DEF command
  <2> QED BY <1>1, <2>1
<1>3. r.op = "add" /\ r.dn = c.new.dn BY <1>2 DEF Record
<1>4. done.pc = "end" /\ done.todo = <<>> BY <1>2, ReplacingIs
<1>5. F = Overlay([dn \in {c.new.dn} |-> r.changes], E) /\ Moved(M, r) = M
  BY <1>3 DEF Changed, Moved
<1>6. Allowed(E, M, r) /\ States(E) = {} BY <1>1, <1>3 DEF Allowed, States
<1>7. (IF r.op = "delete" THEN {} ELSE b) = b BY <1>3
<1> HIDE DEF r, done, F
<1>8. DOMAIN F = {c.new.dn} BY <1>1, <1>5 DEF Overlay
<1>9. Rests(F, M, b) BY <1>1, <1>8 DEF Rests
<1>10. OnTheWay(done, F, M, b) BY <1>4, <1>9 DEF OnTheWay, Waits
<1> QED BY <1>5, <1>6, <1>7, <1>10 DEF Steps, r, done, F

\* The record that writes the attributes.
LEMMA ModifyingStep ==
  ASSUME SystemsOK, NEW mac \in Machine, NEW c \in Handlers(mac), NEW E, NEW M, NEW b,
         Seen(mac, E, M, b), c.todo # <<>>, Len(c.todo) = 1, c.pc \in {"end", "join"},
         c.old # Missing, c.new # Missing, Modifying(c, Head(c.todo), E, M, b)
  PROVE  Steps(c, E, M, b)
<1> DEFINE command == Head(c.todo)
           r == Head(command)
           done == With(c, c.old, c.new, c.pc, RestOf(c.todo))
           F == Changed(E, r)
           d == c.old.dn
<1>1. /\ r = Record("modify", d, Data(c.old), Data(c.new))
      /\ Fresh(c, E) /\ StateKept(c) /\ Rests(E, M, b)
      /\ IF c.new.dn = d THEN Tail(command) = <<>> ELSE Renames(Tail(command), d, c.new.dn, b)
  BY DEF Modifying
<1>2. r.op = "modify" /\ r.dn = d /\ r.to = Data(c.old) /\ r.changes = Data(c.new)
  BY <1>1 DEF Record
<1>3. c.old \in Wholes(mac) /\ c.new \in Wholes(mac) BY DEF Handlers
<1>4. DOMAIN E = {d} /\ E[d] = Data(c.old) /\ Carries(c, c.old, c.new)
  BY <1>1 DEF Fresh, Known, StateKept
<1>5. Allowed(E, M, r) BY <1>2, <1>4 DEF Allowed
<1>6. F = [E EXCEPT ![d] = Merged(@, r.changes)] /\ Moved(M, r) = M
  BY <1>2 DEF Changed, Moved
<1>7. Merged(Data(c.old), Data(c.new)).fai = c.new.fai /\ Data(c.old).fai = c.old.fai
  <2>1. /\ Data(c.old) \in Objects(mac) /\ Data(c.new) \in Objects(mac)
        /\ Data(c.old).fai = c.old.fai /\ Data(c.new).fai = c.new.fai
    BY <1>3, DataIs
  <2>2. "install" \in State BY DEF State
  <2>3. \A o, n \in Objects(mac) : Merged(o, n).fai = n.fai BY ONLY SystemsOK, <2>2, MergedIs
  <2> QED BY <1>4, <2>1, <2>3
<1>8. (IF r.op = "delete" THEN {} ELSE b) = b BY <1>2
<1> HIDE DEF d
<1>9. /\ done.op = c.op /\ done.pc = c.pc /\ done.old = c.old /\ done.new = c.new
      /\ Tail(command) = <<>> => done.todo = <<>>
      /\ Tail(command) # <<>> =>
           done.todo # <<>> /\ Len(done.todo) = 1 /\ Head(done.todo) = Tail(command)
  BY ReplacingIs
<1> HIDE DEF r, done, F, command
<1>10. DOMAIN F = {d} /\ F[d] = Merged(Data(c.old), Data(c.new)) BY <1>2, <1>4, <1>6
<1>11. States(F) = States(E) \/ (c.arg.fai # Missing /\ States(F) = {c.arg.fai})
  <2>1. States(E) = {c.old.fai} /\ States(F) = {c.new.fai} BY <1>4, <1>7, <1>10 DEF States
  <2> QED BY <1>4, <2>1 DEF Carries
<1>12. Rests(F, M, b) BY <1>1, <1>4, <1>10 DEF Rests
<1>13. OnTheWay(done, F, M, b)
  <2>1. CASE c.new.dn = d
    <3>1. done.todo = <<>> BY <1>1, <1>9, <2>1
    <3> QED BY <1>9, <1>10, <1>12, <2>1, <3>1 DEF OnTheWay, Waits
  <2>2. CASE c.new.dn # d
    <3>1. Renames(Tail(command), d, c.new.dn, b) BY <1>1, <2>2
    <3>2. Tail(command) # <<>> BY <3>1 DEF Renames
    <3>3. Renaming(done, Tail(command), F, M, b) BY <1>9, <1>10, <1>12, <2>2, <3>1 DEF Renaming, d
    <3>4. Replacing(done, F, M, b) BY <1>9, <3>2, <3>3 DEF Replacing
    <3> QED BY <1>9, <3>2, <3>4 DEF OnTheWay, Runs
  <2> QED BY <2>1, <2>2
<1> QED BY <1>5, <1>6, <1>8, <1>11, <1>13 DEF Steps, r, done, F, command

\* The record that renames.
LEMMA RenamingStep ==
  ASSUME NEW mac, NEW c \in Handlers(mac), NEW E, NEW M, NEW b,
         Seen(mac, E, M, b), c.todo # <<>>, Len(c.todo) = 1, c.pc \in {"end", "join"},
         c.old # Missing, c.new # Missing, Renaming(c, Head(c.todo), E, M, b)
  PROVE  Steps(c, E, M, b)
<1> DEFINE command == Head(c.todo)
           r == Head(command)
           rest == Tail(command)
           done == With(c, c.old, c.new, c.pc, RestOf(c.todo))
           F == Changed(E, r)
           d == c.old.dn
           e == c.new.dn
<1>1. /\ r = Record("rename", d, e, Missing) /\ Swaps(rest, d, e) /\ Pending(rest) = b
      /\ d # e /\ DOMAIN E = {d} /\ Rests(E, M, b)
  BY DEF Renaming, Renames
<1>2. r.op = "rename" /\ r.dn = d /\ r.to = e BY <1>1 DEF Record
<1>3. Allowed(E, M, r) BY <1>1, <1>2 DEF Allowed
<1>4. F = Overlay([dn \in {e} |-> E[d]], Besides(E, d)) /\ Moved(M, r) = M
  BY <1>2 DEF Changed, Moved
<1>5. (IF r.op = "delete" THEN {} ELSE b) = b BY <1>2
<1>6. /\ done.op = c.op /\ done.pc = c.pc /\ done.old = c.old /\ done.new = c.new
      /\ rest = <<>> => done.todo = <<>>
      /\ rest # <<>> => done.todo # <<>> /\ Len(done.todo) = 1 /\ Head(done.todo) = rest
  BY ReplacingIs
<1>7. b \in SUBSET Group BY DEF Seen
<1> HIDE DEF r, done, F, command, rest
<1>8. DOMAIN F = {e} /\ F[e] = E[d] BY <1>1, <1>4 DEF Overlay, Besides
<1>9. States(F) = States(E) BY <1>1, <1>8 DEF States
<1>10. Joined(M, b, d) BY <1>1 DEF Rests
<1>11. OnTheWay(done, F, M, b)
  <2>1. CASE rest = <<>>
    <3>1. b = {} BY <1>1, <2>1 DEF Pending
    <3>2. Rests(F, M, b) BY <1>8, <1>10, <3>1 DEF Rests, Joined
    <3> QED BY <1>6, <1>8, <2>1, <3>2 DEF OnTheWay, Waits
  <2>2. CASE rest # <<>>
    <3>1. Swapping(done, rest, F, M, b) BY <1>1, <1>6, <1>8, <1>10 DEF Swapping, Joined
    <3>2. Replacing(done, F, M, b) BY <1>6, <2>2, <3>1 DEF Replacing
    <3> QED BY <1>6, <2>2, <3>2 DEF OnTheWay, Runs
  <2> QED BY <2>1, <2>2
<1> QED BY <1>3, <1>4, <1>5, <1>9, <1>11 DEF Steps, r, done, F, command

\* A record that has a group follow the renaming.
LEMMA SwappingStep ==
  ASSUME NEW mac, NEW c \in Handlers(mac), NEW E, NEW M, NEW b,
         Seen(mac, E, M, b), c.todo # <<>>, Len(c.todo) = 1, c.pc \in {"end", "join"},
         c.old # Missing, c.new # Missing, Swapping(c, Head(c.todo), E, M, b)
  PROVE  Steps(c, E, M, b)
<1> DEFINE command == Head(c.todo)
           r == Head(command)
           rest == Tail(command)
           done == With(c, c.old, c.new, c.pc, RestOf(c.todo))
           N == Moved(M, r)
           d == c.old.dn
           e == c.new.dn
           g == r.dn
<1>1. /\ command \in Seq(Records(mac)) /\ command # <<>>
      /\ done.op = c.op /\ done.pc = c.pc /\ done.old = c.old /\ done.new = c.new
      /\ rest = <<>> => done.todo = <<>>
      /\ rest # <<>> => done.todo # <<>> /\ Len(done.todo) = 1 /\ Head(done.todo) = rest
  BY ReplacingIs
<1>2. /\ Once(command) /\ \A i \in DOMAIN command : command[i] = Swap(command[i].dn, d, e)
      /\ d # e /\ DOMAIN E = {e} /\ Pending(command) \subseteq b
      /\ \A h \in Group : M[h] = IF h \notin b THEN {}
                                 ELSE IF h \in Pending(command) THEN {d} ELSE {e}
  BY DEF Swapping, Swaps
<1>3. M \in [Group -> SUBSET DNs(mac)] /\ b \in SUBSET Group BY DEF Seen
<1> HIDE DEF command
<1>4. /\ DOMAIN command = 1..Len(command) /\ Len(command) \in Nat \ {0} /\ r = command[1]
      /\ DOMAIN rest = 1..(Len(command) - 1)
      /\ \A i \in 1..(Len(command) - 1) : rest[i] = command[i + 1]
  BY ONLY <1>1, TailIs
<1>5. Once(rest) /\ g \in Pending(command) /\ Pending(rest) = Pending(command) \ {g}
  BY ONLY <1>1, <1>2, PendingIs
<1>6. r = Swap(g, d, e) BY <1>2, <1>4
<1>7. r.op = "swap" /\ r.to[1] = d /\ r.to[2] = e BY <1>6 DEF Swap, Record
<1>8. g \in Group /\ M[g] = {d} BY <1>2, <1>3, <1>5
<1>9. Allowed(E, M, r) BY <1>2, <1>7, <1>8 DEF Allowed
<1>10. Changed(E, r) = E /\ N = [M EXCEPT ![g] = (@ \ {d}) \cup {e}] BY <1>7 DEF Changed, Moved
<1>11. (IF r.op = "delete" THEN {} ELSE b) = b BY <1>7
<1>12. Swaps(rest, d, e)
  <2>1. \A i \in DOMAIN rest : i + 1 \in DOMAIN command /\ rest[i] = command[i + 1] BY <1>4
  <2> HIDE DEF rest, d, e
  <2> QED BY <1>2, <1>5, <2>1 DEF Swaps
<1> HIDE DEF r, rest, done, N, d, e, g
<1>13. N[g] = {e} /\ \A h \in Group \ {g} : N[h] = M[h] BY <1>2, <1>3, <1>8, <1>10
<1>14. \A h \in Group : N[h] = IF h \notin b THEN {} ELSE IF h \in Pending(rest) THEN {d} ELSE {e}
  BY <1>2, <1>5, <1>13
<1>15. OnTheWay(done, E, N, b)
  <2>1. CASE rest = <<>>
    <3>1. Pending(rest) = {} BY <2>1 DEF Pending
    <3>2. Rests(E, N, b) BY <1>2, <1>14, <3>1 DEF Rests, Joined
    <3> QED BY <1>1, <1>2, <2>1, <3>2 DEF OnTheWay, Waits, e
  <2>2. CASE rest # <<>>
    <3>1. Swapping(done, rest, E, N, b) BY <1>1, <1>2, <1>5, <1>12, <1>14 DEF Swapping, d, e
    <3>2. Replacing(done, E, N, b) BY <1>1, <2>2, <3>1 DEF Replacing
    <3> QED BY <1>1, <2>2, <3>2 DEF OnTheWay, Runs
  <2> QED BY <2>1, <2>2
<1> QED BY <1>9, <1>10, <1>11, <1>15 DEF Steps, r, done, N, command

\* The record that deletes.
LEMMA DeletingStep ==
  ASSUME NEW mac, NEW c \in Handlers(mac), NEW E, NEW M, NEW b,
         Seen(mac, E, M, b), c.todo # <<>>, Len(c.todo) = 1, c.pc = "end",
         c.old # Missing, Deleting(c, Head(c.todo), E, M, b)
  PROVE  Steps(c, E, M, b)
<1> DEFINE command == Head(c.todo)
           r == Head(command)
           rest == Tail(command)
           done == With(c, c.old, c.new, c.pc, RestOf(c.todo))
           F == Changed(E, r)
           d == c.old.dn
<1>1. /\ r = Record("delete", d, Missing, Missing) /\ Leaves(rest, d) /\ Pending(rest) = b
      /\ DOMAIN E = {d} /\ Rests(E, M, b)
  BY DEF Deleting
<1>2. r.op = "delete" /\ r.dn = d BY <1>1 DEF Record
<1>3. Allowed(E, M, r) BY <1>1, <1>2 DEF Allowed
<1>4. F = Besides(E, d) /\ Moved(M, r) = M BY <1>2 DEF Changed, Moved
<1>5. /\ done.op = c.op /\ done.pc = c.pc /\ done.old = c.old /\ done.new = c.new
      /\ rest = <<>> => done.todo = <<>>
      /\ rest # <<>> => done.todo # <<>> /\ Len(done.todo) = 1 /\ Head(done.todo) = rest
  BY ReplacingIs
<1>6. b \in SUBSET Group BY DEF Seen
<1> HIDE DEF r, done, F, command, rest
<1>7. DOMAIN F = {} BY <1>1, <1>4 DEF Besides
<1>8. States(F) = {} BY <1>7 DEF States
<1>9. Joined(M, b, d) BY <1>1 DEF Rests
<1>10. OnTheWay(done, F, M, {})
  <2>1. CASE rest = <<>>
    <3>1. b = {} BY <1>1, <2>1 DEF Pending
    <3>2. Rests(F, M, {}) BY <1>7, <1>9, <3>1 DEF Rests, Joined
    <3> QED BY <1>5, <2>1, <3>2 DEF OnTheWay, Waits
  <2>2. CASE rest # <<>>
    <3>1. Leaving(done, rest, F, M, {}) BY <1>1, <1>5, <1>7, <1>9 DEF Leaving, Joined
    <3>2. Replacing(done, F, M, {}) BY <1>5, <2>2, <3>1 DEF Replacing
    <3> QED BY <1>5, <2>2, <3>2 DEF OnTheWay, Runs
  <2> QED BY <2>1, <2>2
<1> QED BY <1>2, <1>3, <1>4, <1>8, <1>10 DEF Steps, r, done, F, command

\* A record that takes the deleted dn out of a group.
LEMMA LeavingStep ==
  ASSUME NEW mac, NEW c \in Handlers(mac), NEW E, NEW M, NEW b,
         Seen(mac, E, M, b), c.todo # <<>>, Len(c.todo) = 1, c.pc = "end",
         c.old # Missing, Leaving(c, Head(c.todo), E, M, b)
  PROVE  Steps(c, E, M, b)
<1> DEFINE command == Head(c.todo)
           r == Head(command)
           rest == Tail(command)
           done == With(c, c.old, c.new, c.pc, RestOf(c.todo))
           N == Moved(M, r)
           d == c.old.dn
           g == r.dn
<1>1. /\ command \in Seq(Records(mac)) /\ command # <<>> /\ r \in Records(mac)
      /\ done.op = c.op /\ done.pc = c.pc /\ done.old = c.old /\ done.new = c.new
      /\ rest = <<>> => done.todo = <<>>
      /\ rest # <<>> => done.todo # <<>> /\ Len(done.todo) = 1 /\ Head(done.todo) = rest
  BY ReplacingIs
<1>2. /\ Once(command) /\ \A i \in DOMAIN command : command[i] = LeaveGroup(command[i].dn, d)
      /\ DOMAIN E = {} /\ b = {}
      /\ \A h \in Group : M[h] = IF h \in Pending(command) THEN {d} ELSE {}
  BY DEF Leaving, Leaves
<1>3. M \in [Group -> SUBSET DNs(mac)] BY DEF Seen
<1> HIDE DEF command
<1>4. /\ DOMAIN command = 1..Len(command) /\ Len(command) \in Nat \ {0} /\ r = command[1]
      /\ DOMAIN rest = 1..(Len(command) - 1)
      /\ \A i \in 1..(Len(command) - 1) : rest[i] = command[i + 1]
  BY ONLY <1>1, TailIs
<1>5. Once(rest) /\ g \in Pending(command) /\ Pending(rest) = Pending(command) \ {g}
  BY ONLY <1>1, <1>2, PendingIs
<1>6. r = LeaveGroup(g, d) BY <1>2, <1>4
<1>7. r.op = "leave" /\ r.to = d BY <1>6 DEF LeaveGroup, Record
<1>8. g \in Group BY <1>1, <1>7, RecordIs
<1>9. M[g] = {d} BY <1>2, <1>5, <1>8
<1>10. Allowed(E, M, r) BY <1>7, <1>9 DEF Allowed
<1>11. Changed(E, r) = E /\ N = [M EXCEPT ![g] = @ \ {d}] BY <1>7 DEF Changed, Moved
<1>12. (IF r.op = "delete" THEN {} ELSE b) = {} BY <1>2, <1>7
<1>13. Leaves(rest, d)
  <2>1. \A i \in DOMAIN rest : i + 1 \in DOMAIN command /\ rest[i] = command[i + 1] BY <1>4
  <2> HIDE DEF rest, d
  <2> QED BY <1>2, <1>5, <2>1 DEF Leaves
<1> HIDE DEF r, rest, done, N, d, g
<1>14. N[g] = {} /\ \A h \in Group \ {g} : N[h] = M[h] BY <1>3, <1>8, <1>9, <1>11
<1>15. \A h \in Group : N[h] = IF h \in Pending(rest) THEN {d} ELSE {} BY <1>2, <1>5, <1>14
<1>16. OnTheWay(done, E, N, {})
  <2>1. CASE rest = <<>>
    <3>1. Pending(rest) = {} BY <2>1 DEF Pending
    <3>2. Rests(E, N, {}) BY <1>2, <1>15, <3>1 DEF Rests
    <3> QED BY <1>1, <2>1, <3>2 DEF OnTheWay, Waits
  <2>2. CASE rest # <<>>
    <3>1. Leaving(done, rest, E, N, {}) BY <1>1, <1>2, <1>13, <1>15 DEF Leaving, d
    <3>2. Replacing(done, E, N, {}) BY <1>1, <2>2, <3>1 DEF Replacing
    <3> QED BY <1>1, <2>2, <3>2 DEF OnTheWay, Runs
  <2> QED BY <2>1, <2>2
<1>17. States(E) = {} BY <1>2 DEF States
<1> QED BY <1>10, <1>11, <1>12, <1>16, <1>17 DEF Steps, r, done, N, command

\* Wherever a handler is, its next record leads it to a place that fits, and keeps the
\* state unless the handler was told another.
LEMMA RunStep ==
  ASSUME SystemsOK, NEW mac \in Machine, NEW c \in Handlers(mac), NEW E, NEW M, NEW b,
         Seen(mac, E, M, b), c.todo # <<>>, OnTheWay(c, E, M, b)
  PROVE  Steps(c, E, M, b)
<1>1. Runs(c, E, M, b) BY DEF OnTheWay
<1>2. CASE /\ c.pc \in {"jobs", "forced", "end"} /\ (c.pc # "end" => Known(c, E))
           /\ Setting(c, E, M, b)
  BY <1>2, SettingStep
<1>3. CASE /\ Joining(c, E, M, b)
           /\ \/ c.pc = "replace" /\ c.old = Missing /\ c.op # "kill"
              \/ c.pc = "end" /\ c.op = "copy"
  BY <1>3, JoiningStep
<1>4. CASE Replacing(c, E, M, b)
  <2>1. Len(c.todo) = 1 /\ c.pc \in {"end", "join"} BY <1>4 DEF Replacing
  <2>2. CASE c.pc = "end" /\ Adding(c, Head(c.todo), E, M, b) BY <2>1, <2>2, AddingStep
  <2>3. CASE c.old # Missing /\ c.new # Missing /\ Modifying(c, Head(c.todo), E, M, b)
    BY <2>1, <2>3, ModifyingStep
  <2>4. CASE c.old # Missing /\ c.new # Missing /\ Renaming(c, Head(c.todo), E, M, b)
    BY <2>1, <2>4, RenamingStep
  <2>5. CASE c.old # Missing /\ c.new # Missing /\ Swapping(c, Head(c.todo), E, M, b)
    BY <2>1, <2>5, SwappingStep
  <2>6. CASE c.pc = "end" /\ c.old # Missing /\ Deleting(c, Head(c.todo), E, M, b)
    BY <2>6, <2>1, DeletingStep
  <2>7. CASE c.pc = "end" /\ c.old # Missing /\ Leaving(c, Head(c.todo), E, M, b)
    BY <2>7, <2>1, LeavingStep
  <2> QED BY <1>4, <2>2, <2>3, <2>4, <2>5, <2>6, <2>7 DEF Replacing
<1> QED BY <1>1, <1>2, <1>3, <1>4 DEF Runs

-----------------------------------------------------------------------------
(* The views of a state, and what a search finds.                          *)

\* The objects with a MAC are those with a dn of the machine, if those are its own.
LEMMA DirectoryIs ==
  ASSUME SystemsOK, NEW l, Directory(l), NEW mac \in Machine
  PROVE  /\ {dn \in DOMAIN l : l[dn].mac = mac} \subseteq DOMAIN l \cap DNs(mac)
         /\ OwnNames(mac) => {dn \in DOMAIN l : l[dn].mac = mac} = DOMAIN l \cap DNs(mac)
         /\ {l[dn].fai : dn \in DOMAIN l \cap DNs(mac)} = States(Entries(l, mac))
<1>1. /\ DOMAIN l \subseteq AllDNs /\ l[Template].mac = "template"
      /\ \A m \in Machine : \A dn \in DNs(m) \cap DOMAIN l : l[dn].mac \in Kin(m)
  BY DEF Directory, TheTemplate, Objects
<1>2. ASSUME OwnNames(mac), NEW dn \in DOMAIN l \cap DNs(mac) PROVE l[dn].mac = mac
  <2>1. Kin(mac) = {mac} BY <1>2, KinIs
  <2> QED BY <1>1, <2>1
<1>3. ASSUME NEW dn \in DOMAIN l, l[dn].mac = mac PROVE dn \in DNs(mac)
  <2>1. dn # Template BY <1>1, <1>3 DEF SystemsOK
  <2>2. PICK m \in Machine : dn \in DNs(m) BY <1>1, <2>1 DEF AllDNs
  <2>3. mac \in Kin(m) /\ mac \in Kin(mac) BY <1>1, <1>3, <2>2, KinIs
  <2>4. Kin(m) = Kin(mac) BY <2>3, KinIs
  <2> QED BY <2>2, <2>4 DEF DNs, KinCns
<1>4. {dn \in DOMAIN l : l[dn].mac = mac} \subseteq DOMAIN l \cap DNs(mac) BY <1>3
<1>6. OwnNames(mac) => {dn \in DOMAIN l : l[dn].mac = mac} = DOMAIN l \cap DNs(mac)
  BY <1>2, <1>4
<1>5. {l[dn].fai : dn \in DOMAIN l \cap DNs(mac)} = States(Entries(l, mac))
  BY DEF Entries, States
<1> QED BY <1>4, <1>5, <1>6

\* The views have the types that the lemmas on records ask for.
LEMMA SeenIs ==
  ASSUME SystemsOK, TypeOK, NEW mac \in Machine
  PROVE  /\ Seen(mac, Entries(ldap, mac), In(members, mac), belongs[mac])
         /\ OwnNames(mac) => DOMAIN Entries(ldap, mac) = DnsOf(mac)
         /\ \A dn \in DnsOf(mac) :
              /\ dn \in DNs(mac) /\ dn \in DOMAIN ldap
              /\ Entries(ldap, mac)[dn] = ldap[dn] /\ ldap[dn] \in Objects(mac)
         /\ OwnNames(mac) => \A g \in Group :
              In(members, mac)[g] = {dn \in members[g] : dn[1] \in Cns(mac)}
<1> DEFINE E == Entries(ldap, mac)
           M == In(members, mac)
<1>1. E = [dn \in DOMAIN E |-> E[dn]] /\ DOMAIN E = DOMAIN ldap \cap DNs(mac) BY DEF Entries
<1>2. M \in [Group -> SUBSET DNs(mac)] BY DEF In
<1>3. belongs[mac] \in SUBSET Group BY DEF TypeOK
<1>4. /\ Directory(ldap)
      /\ \A m \in Machine : \A dn \in DNs(m) \cap DOMAIN ldap : ldap[dn] \in Objects(m)
  BY DEF TypeOK, Directory
<1>5. /\ DnsOf(mac) \subseteq DOMAIN ldap \cap DNs(mac)
      /\ OwnNames(mac) => DOMAIN ldap \cap DNs(mac) = DnsOf(mac)
  BY <1>4, DirectoryIs DEF DnsOf
<1>6. \A dn \in DOMAIN ldap \cap DNs(mac) : E[dn] = ldap[dn] BY DEF Entries
<1>7. ASSUME OwnNames(mac), NEW g \in Group
      PROVE  M[g] = {dn \in members[g] : dn[1] \in Cns(mac)}
  <2>1. members[g] \in SUBSET AllDNs BY DEF TypeOK, Groups
  <2>2. \A dn \in AllDNs : dn \in DNs(mac) <=> dn[1] \in Cns(mac) BY <1>7, DNsIs
  <2>3. M[g] = members[g] \cap DNs(mac) BY DEF In
  <2> QED BY <2>1, <2>2, <2>3
<1> HIDE DEF E, M
<1>8. Seen(mac, E, M, belongs[mac]) BY <1>1, <1>2, <1>3, <1>4, <1>6 DEF Seen
<1> QED BY <1>1, <1>4, <1>5, <1>6, <1>7, <1>8 DEF E, M

\* What a search finds, and that it is all there is if there is one object at most.
Found(old, E) ==
  /\ DOMAIN E = IF old = Missing THEN {} ELSE {old.dn}
  /\ old # Missing => E[old.dn] = Data(old)
LEMMA SearchIs ==
  ASSUME SystemsOK, TypeOK, NEW mac \in Machine
  PROVE  /\ GetAllData(mac) \in Wholes(mac) \cup {Missing}
         /\ \A M, b : mac \in Undisturbed /\ Rests(Entries(ldap, mac), M, b) =>
              Found(GetAllData(mac), Entries(ldap, mac))
<1> DEFINE E == Entries(ldap, mac)
           old == GetAllData(mac)
           D == DnsOf(mac)
           d == CHOOSE x \in D : TRUE
<1>1. /\ OwnNames(mac) => DOMAIN E = D
      /\ \A dn \in D : dn \in DNs(mac) /\ E[dn] = ldap[dn] /\ ldap[dn] \in Objects(mac)
  BY SeenIs
<1>2. old = IF Cardinality(D) # 1 THEN Missing ELSE Overlay([dn |-> d], ldap[d]) BY DEF GetAllData
<1> HIDE DEF E, old, D
<1>3. ASSUME NEW x \in D
      PROVE  LET w == Overlay([dn |-> x], ldap[x])
             IN w \in Wholes(mac) /\ w.dn = x /\ Data(w) = E[x]
  BY <1>1, WholeIs
<1>4. Cardinality({}) = 0 /\ \A x : Cardinality({x}) = 1 BY FS_EmptySet, FS_Singleton
<1>5. ASSUME Cardinality(D) = 1 PROVE d \in D
  <2>1. D # {} BY <1>4, <1>5
  <2> QED BY <2>1
<1>6. ASSUME mac \in Undisturbed, NEW M, NEW b, Rests(E, M, b) PROVE Found(old, E)
  <2>0. DOMAIN E = D BY <1>1, <1>6 DEF Undisturbed
  <2>1. CASE D = {} BY <2>0, <1>2, <1>4, <2>1 DEF Found
  <2>2. CASE \E x \in D : D = {x}
    <3>1. PICK x \in D : D = {x} BY <2>2
    <3>2. d = x /\ Cardinality(D) = 1 BY <1>4, <3>1
    <3>3. old = Overlay([dn |-> x], ldap[x]) BY <1>2, <3>2
    <3>4. old \in Wholes(mac) /\ old.dn = x /\ Data(old) = E[x] BY <1>3, <3>3
    <3> QED BY <2>0, <3>1, <3>4 DEF Found, SystemsOK
  <2> QED BY <2>0, <1>6, <2>1, <2>2 DEF Rests
<1>7. old \in Wholes(mac) \cup {Missing}
  <2>1. CASE Cardinality(D) # 1 BY <1>2, <2>1
  <2>2. CASE Cardinality(D) = 1
    <3>1. d \in D BY <1>5, <2>2
    <3> HIDE DEF d
    <3> QED BY <1>2, <1>3, <2>2, <3>1
  <2> QED BY <2>1, <2>2
<1> QED BY <1>6, <1>7 DEF E, old

\* A thread is idle, or handles a machine.
LEMMA ThreadIs ==
  ASSUME SystemsOK, TypeOK, NEW t \in Thread
  PROVE  /\ thread[t].op = "idle" => thread[t] = Idle
         /\ thread[t].pc # "done" \/ thread[t].todo # <<>> =>
              /\ thread[t].mac \in Machine /\ thread[t] \in Handlers(thread[t].mac)
              /\ Stands(thread[t])
         /\ \A mac \in Machine : thread[t].mac = mac =>
              thread[t] \in Handlers(mac) /\ Stands(thread[t])
<1>1. CASE thread[t] = Idle BY <1>1 DEF Idle, SystemsOK
<1>2. CASE thread[t] # Idle
  <2>1. PICK mac \in Machine : thread[t] \in Handlers(mac) BY <1>2 DEF TypeOK
  <2>2. thread[t].mac = mac /\ thread[t].op # "idle" BY <2>1 DEF Handlers
  <2>3. Stands(thread[t]) BY <1>2 DEF TypeOK
  <2> QED BY <2>1, <2>2, <2>3
<1> QED BY <1>1, <1>2

\* The groups of the one dn.
LEMMA GroupsAre ==
  ASSUME SystemsOK, TypeOK, NEW mac \in Machine, NEW dn \in DNs(mac), NEW b \in SUBSET Group,
         Joined(In(members, mac), b, dn)
  PROVE  GroupsWithMember(dn) = b
<1>1. \A g \in Group : dn \in In(members, mac)[g] <=> dn \in members[g] BY DEF In
<1> QED BY <1>1 DEF GroupsWithMember, Joined

\* The first template is in all groups.
LEMMA TemplateGroups ==
  ASSUME TypeOK
  PROVE  GroupsWithMember(Template) = Group
  BY DEF TypeOK, Groups, GroupsWithMember

-----------------------------------------------------------------------------
(* A step of one handler.                                                  *)

\* Where the handler of a machine is, as its machine's views tell.
Place(c, mac) == OnTheWay(c, Entries(ldap, mac), In(members, mac), belongs[mac])

\* Where a handler is.
LEMMA PlaceIs ==
  ASSUME SystemsOK, SystemsInv, NEW t \in Thread, thread[t].mac \in Undisturbed
  PROVE  Place(thread[t], thread[t].mac)
  BY DEF SystemsInv, Kept, Place

\* A step of one handler keeps the invariant if it leaves other machines alone and leads
\* the handler to a place that fits what it leaves behind.
LEMMA StepIs ==
  ASSUME SystemsOK, SystemsInv, NEW t \in Thread, NEW mac \in Machine, thread[t].mac = mac,
         NEW c, c \in Handlers(mac), Stands(c), thread' = [thread EXCEPT ![t] = c],
         Directory(ldap'), Groups(members'), belongs' \in [Machine -> SUBSET Group],
         UNCHANGED <<dns, mixed>>, failed \subseteq failed', failed' \subseteq Machine,
         \A other \in Machine \ {mac} : OwnNames(other) =>
           /\ Entries(ldap', other) = Entries(ldap, other)
           /\ In(members', other) = In(members, other) /\ belongs'[other] = belongs[other],
         mac \in Undisturbed' =>
           OnTheWay(c, Entries(ldap', mac), In(members', mac), belongs'[mac])
  PROVE  SystemsInv'
<1>1. /\ thread \in [Thread -> {Idle} \cup UNION {Handlers(m) : m \in Machine}]
      /\ \A u \in Thread : thread[u] # Idle => Stands(thread[u])
      /\ Called(dns) /\ dns' = dns /\ mixed \subseteq Machine
  BY DEF SystemsInv, TypeOK
<1>2. c.mac = mac BY DEF Handlers
<1>3. thread'[t] = c /\ \A u \in Thread \ {t} : thread'[u] = thread[u] BY <1>1
<1>4. \A u \in Thread : thread'[u].mac = thread[u].mac BY <1>2, <1>3
<1>5. TypeOK'
  <2>1. thread' \in [Thread -> {Idle} \cup UNION {Handlers(m) : m \in Machine}] BY <1>1
  <2>2. \A u \in Thread : thread'[u] # Idle => Stands(thread'[u]) BY <1>1, <1>3
  <2> QED BY <1>1, <2>1, <2>2 DEF TypeOK
<1>6. Alone' BY <1>4 DEF SystemsInv, Alone
<1>7. Undisturbed' \subseteq Undisturbed BY DEF Undisturbed
<1>8. Kept'
  <2> SUFFICES ASSUME NEW m \in Undisturbed'
               PROVE  /\ (\A u \in Thread : thread'[u].mac # m) =>
                           Rests(Entries(ldap', m), In(members', m), belongs'[m])
                      /\ \A u \in Thread : thread'[u].mac = m =>
                           OnTheWay(thread'[u], Entries(ldap', m), In(members', m), belongs'[m])
    BY DEF Kept
  <2>1. CASE m = mac
    <3>1. ASSUME NEW u \in Thread, thread'[u].mac = mac PROVE u = t
      <4>1. mac \notin mixed' /\ thread'[t].mac = mac BY <1>2, <1>3, <2>1 DEF Undisturbed
      <4> QED BY <1>6, <3>1, <4>1 DEF Alone
    <3>2. OnTheWay(c, Entries(ldap', m), In(members', m), belongs'[m]) BY <2>1
    <3> QED BY <1>2, <1>3, <2>1, <3>1, <3>2
  <2>2. CASE m # mac
    <3>1. m \in Machine \ {mac} /\ OwnNames(m) /\ m \in Undisturbed
      BY <1>7, <2>2 DEF Undisturbed
    <3>2. /\ Entries(ldap', m) = Entries(ldap, m)
          /\ In(members', m) = In(members, m) /\ belongs'[m] = belongs[m]
      BY <3>1
    <3>3. /\ (\A u \in Thread : thread[u].mac # m) =>
               Rests(Entries(ldap, m), In(members, m), belongs[m])
          /\ \A u \in Thread : thread[u].mac = m =>
               OnTheWay(thread[u], Entries(ldap, m), In(members, m), belongs[m])
      BY <3>1 DEF SystemsInv, Kept
    <3>4. \A u \in Thread : thread'[u].mac = m => thread'[u] = thread[u] BY <1>2, <1>3, <2>2
    <3> QED BY <1>4, <3>2, <3>3, <3>4
  <2> QED BY <2>1, <2>2
<1> QED BY <1>5, <1>6, <1>8 DEF SystemsInv

\* A step that only moves the handler, and puts its machine into groups or not.
LEMMA MoveIs ==
  ASSUME SystemsOK, SystemsInv, NEW t \in Thread, NEW mac \in Machine, thread[t].mac = mac,
         NEW c, c \in Handlers(mac), Stands(c), thread' = [thread EXCEPT ![t] = c],
         UNCHANGED <<ldap, members, dns, mixed, failed>>,
         NEW b \in SUBSET Group, belongs' = [belongs EXCEPT ![mac] = b],
         mac \in Undisturbed => OnTheWay(c, Entries(ldap, mac), In(members, mac), b)
  PROVE  SystemsInv'
<1>1. /\ Directory(ldap') /\ Groups(members') /\ failed' \subseteq Machine
      /\ belongs \in [Machine -> SUBSET Group]
  BY DEF SystemsInv, TypeOK
<1>2. /\ belongs' \in [Machine -> SUBSET Group] /\ belongs'[mac] = b
      /\ \A other \in Machine \ {mac} : belongs'[other] = belongs[other]
  BY <1>1
<1>3. \A other \in Machine :
        Entries(ldap', other) = Entries(ldap, other) /\ In(members', other) = In(members, other)
  OBVIOUS
<1>4. mac \in Undisturbed' =>
        OnTheWay(c, Entries(ldap', mac), In(members', mac), belongs'[mac])
  BY <1>2, <1>3 DEF Undisturbed
<1>5. UNCHANGED <<dns, mixed>> /\ failed \subseteq failed' OBVIOUS
<1> QED BY <1>1, <1>2, <1>3, <1>4, <1>5, StepIs

\* The same if nothing else changes.
LEMMA QuietIs ==
  ASSUME SystemsOK, SystemsInv, NEW t \in Thread, NEW mac \in Machine, thread[t].mac = mac,
         NEW c, c \in Handlers(mac), Stands(c), thread' = [thread EXCEPT ![t] = c],
         UNCHANGED <<ldap, members, dns, mixed, failed, belongs>>,
         mac \in Undisturbed => Place(c, mac)
  PROVE  SystemsInv'
<1>1. belongs \in [Machine -> SUBSET Group] BY DEF SystemsInv, TypeOK
<1>2. belongs[mac] \in SUBSET Group /\ belongs' = [belongs EXCEPT ![mac] = belongs[mac]]
  BY <1>1
<1> QED BY <1>2, MoveIs DEF Place

\* The answers to a search: what there is, or nothing as it failed.
Asked(t, old) ==
  /\ \/ old = GetAllData(thread[t].mac) /\ failed' = failed
     \/ old = Missing /\ failed' = failed \cup {thread[t].mac}
  /\ UNCHANGED <<ldap, members, dns, mixed, belongs>>

\* A step of a handler that has searched.
LEMMA AskedIs ==
  ASSUME SystemsOK, SystemsInv, NEW t \in Thread, NEW mac \in Machine, thread[t].mac = mac,
         NEW c, c \in Handlers(mac), Stands(c), thread' = [thread EXCEPT ![t] = c],
         NEW old, Asked(t, old), mac \in Undisturbed /\ old = GetAllData(mac) => Place(c, mac)
  PROVE  SystemsInv'
<1>1. CASE old = GetAllData(mac) /\ failed' = failed
  BY <1>1, QuietIs DEF Asked
<1>2. CASE failed' = failed \cup {mac}
  <2>1. /\ Directory(ldap') /\ Groups(members') /\ belongs' \in [Machine -> SUBSET Group]
        /\ failed' \subseteq Machine
    BY <1>2 DEF SystemsInv, TypeOK, Asked
  <2>2. \A other \in Machine :
          /\ Entries(ldap', other) = Entries(ldap, other)
          /\ In(members', other) = In(members, other) /\ belongs'[other] = belongs[other]
    BY DEF Asked
  <2>3. mac \notin Undisturbed' BY <1>2 DEF Undisturbed
  <2>4. UNCHANGED <<dns, mixed>> /\ failed \subseteq failed' BY <1>2 DEF Asked
  <2> QED BY <2>1, <2>2, <2>3, <2>4, StepIs
<1> QED BY <1>1, <1>2 DEF Asked

\* Where the handler of a machine is before a step that has no command under way.
LEMMA WaitsIs ==
  ASSUME SystemsOK, SystemsInv, NEW t \in Thread, NEW pc, Ready(t, pc), pc # "done"
  PROVE  LET c == thread[t]
             mac == c.mac
             E == Entries(ldap, mac)
             M == In(members, mac)
             b == belongs[mac]
         IN /\ mac \in Machine /\ c \in Handlers(mac) /\ Stands(c) /\ c.pc = pc /\ c.todo = <<>>
            /\ Seen(mac, E, M, b)
            /\ mac \in Undisturbed => Waits(c, E, M, b)
<1>1. TypeOK /\ thread[t].pc = pc /\ thread[t].todo = <<>> BY DEF SystemsInv, Ready
<1>2. thread[t].mac \in Machine /\ thread[t] \in Handlers(thread[t].mac) /\ Stands(thread[t])
  BY <1>1, ThreadIs
<1>3. Seen(thread[t].mac, Entries(ldap, thread[t].mac), In(members, thread[t].mac),
           belongs[thread[t].mac])
  BY <1>1, <1>2, SeenIs
<1>4. thread[t].mac \in Undisturbed =>
        Waits(thread[t], Entries(ldap, thread[t].mac), In(members, thread[t].mac),
              belongs[thread[t].mac])
  BY <1>1, PlaceIs DEF Place, OnTheWay
<1> QED BY <1>1, <1>2, <1>3, <1>4

LEMMA WithIs ==
  ASSUME NEW mac, NEW c \in Handlers(mac), NEW o \in Wholes(mac) \cup {Missing},
         NEW n \in Wholes(mac) \cup {Missing}, NEW q \in Seq(Commands(mac)),
         NEW p \in {"read", "prepare", "replace", "force", "jobs", "forced", "set", "reread",
                    "join", "end"}
  PROVE  With(c, o, n, p, q) \in Handlers(mac)
<1> HIDE DEF Wholes, Commands
<1> QED BY DEF With, Handlers

LEMMA FieldsAre ==
  ASSUME NEW c, NEW o, NEW n, NEW p, NEW q
  PROVE  /\ With(c, o, n, p, q).op = c.op /\ With(c, o, n, p, q).mac = c.mac
         /\ With(c, o, n, p, q).pc = p /\ With(c, o, n, p, q).arg = c.arg
         /\ With(c, o, n, p, q).old = o /\ With(c, o, n, p, q).new = n
         /\ With(c, o, n, p, q).todo = q
  BY DEF With

\* The handler's commands and objects, without looking at what they are.
LEMMA HandlerIs ==
  ASSUME NEW mac, NEW c \in Handlers(mac)
  PROVE  /\ c.op \in {"detect", "activate", "fai", "set", "hello", "kill", "copy"}
         /\ c.mac = mac /\ c.arg \in Args(mac) /\ c.todo \in Seq(Commands(mac))
         /\ c.pc \in {"read", "prepare", "replace", "force", "jobs", "forced", "set", "reread",
                      "join", "end"}
         /\ c.old \in Wholes(mac) \cup {Missing} /\ c.new \in Wholes(mac) \cup {Missing}
<1> HIDE DEF Wholes, Commands, Args
<1> QED BY DEF Handlers

\* Every handler reads first.
LEMMA ReadSystemStep ==
  ASSUME SystemsOK, SystemsInv, NEW t \in Thread, ReadSystem(t)
  PROVE  SystemsInv'
<1> DEFINE c == thread[t]
           mac == c.mac
           E == Entries(ldap, mac)
           M == In(members, mac)
           b == belongs[mac]
           Next(old) == CASE c.op \in {"detect", "activate"} -> "prepare"
                          [] c.op = "fai" -> "force"
                          [] OTHER -> IF old = Missing THEN "end" ELSE
                               [set |-> "set", hello |-> "reread", kill |-> "replace",
                                copy |-> "prepare"][c.op]
<1>1. Ready(t, "read") BY DEF ReadSystem
<1>2. \E old : Asked(t, old) /\ Goes(t, [old |-> old, pc |-> Next(old)])
  BY DEF ReadSystem, Search, Asked, Others
<1>3. PICK old : Asked(t, old) /\ Goes(t, [old |-> old, pc |-> Next(old)]) BY <1>2
<1>4. /\ mac \in Machine /\ c \in Handlers(mac) /\ Stands(c) /\ c.pc = "read" /\ c.todo = <<>>
      /\ mac \in Undisturbed => Waits(c, E, M, b)
  BY <1>1, WaitsIs
<1>5. GetAllData(mac) \in Wholes(mac) \cup {Missing}
      /\ (mac \in Undisturbed /\ Rests(E, M, b) => Found(GetAllData(mac), E))
  BY <1>4, SearchIs DEF SystemsInv
<1>6. old \in Wholes(mac) \cup {Missing} BY <1>3, <1>5 DEF Asked
<1> DEFINE p == Next(old)
           d == With(c, old, c.new, p, c.todo)
<1>7. /\ c.op \in {"detect", "activate", "fai", "set", "hello", "kill", "copy"}
      /\ c.todo \in Seq(Commands(mac)) /\ c.new \in Wholes(mac) \cup {Missing}
  BY <1>4, HandlerIs
<1>8. p \in {"prepare", "force", "end", "set", "reread", "replace"} BY <1>7
<1>9. thread' = [thread EXCEPT ![t] = d]
  <2>1. Overlay([old |-> old, pc |-> p], c) = d BY <1>4, OverlayIs
  <2> QED BY <1>3, <2>1 DEF Goes
<1>10. d \in Handlers(mac) BY <1>4, <1>6, <1>7, <1>8, WithIs
<1>11. /\ d.op = c.op /\ d.pc = p /\ d.arg = c.arg /\ d.old = old /\ d.new = c.new
       /\ d.todo = <<>>
  <2> HIDE DEF p
  <2> QED BY <1>4 DEF With
<1>12. Stands(d)
  <2>1. c.op \in {"set", "hello", "kill", "copy"} /\ p # "end" => old # Missing BY <1>7
  <2>2. p = "replace" => c.op = "kill" BY <1>7
  <2>3. p \in CASE c.op \in {"detect", "activate"} -> {"read", "prepare", "replace", "end"}
                [] c.op = "fai" -> {"read", "force", "jobs", "forced", "end"}
                [] c.op = "set" -> {"read", "set", "end"}
                [] c.op = "hello" -> {"read", "reread", "replace", "end"}
                [] c.op = "kill" -> {"read", "replace", "end"}
                [] c.op = "copy" -> {"read", "prepare", "replace", "join", "end"}
    BY <1>7
  <2> HIDE DEF d, p
  <2> QED BY <1>4, <1>8, <1>11, <2>1, <2>2, <2>3 DEF Stands
<1>13. ASSUME mac \in Undisturbed, old = GetAllData(mac) PROVE Place(d, mac)
  <2>1. Rests(E, M, b) BY <1>4, <1>13 DEF Waits
  <2>2. Found(old, E) BY <1>5, <1>13, <2>1
  <2>3. Fresh(d, E) BY <1>11, <2>2 DEF Fresh, Known, Found
  <2>4. p = "replace" => c.op = "kill" /\ old # Missing BY <1>7
  <2>5. p = "replace" => c.new = Missing BY <1>4, <2>4 DEF Stands
  <2> HIDE DEF d, p
  <2>6. p = "replace" => StateKept(d) BY <1>11, <2>5 DEF StateKept
  <2>7. p # "join" BY <1>8
  <2>8. Waits(d, E, M, b) BY <1>11, <2>1, <2>3, <2>4, <2>6, <2>7 DEF Waits, Fresh
  <2> QED BY <1>11, <2>8 DEF Place, OnTheWay
<1> HIDE DEF d
<1> QED BY <1>3, <1>4, <1>9, <1>10, <1>12, <1>13, AskedIs

\* SystemReplace.
LEMMA DoReplaceStep ==
  ASSUME SystemsOK, SystemsInv, NEW t \in Thread, DoReplace(t)
  PROVE  SystemsInv'
<1> DEFINE c == thread[t]
           mac == c.mac
           E == Entries(ldap, mac)
           M == In(members, mac)
           b == belongs[mac]
           command == Replace(c.old, c.new)
           p == IF c.op = "copy" THEN "join" ELSE "end"
           d == With(c, c.old, c.new, p, <<command>>)
<1>1. Ready(t, "replace") BY DEF DoReplace
<1>2. /\ mac \in Machine /\ c \in Handlers(mac) /\ Stands(c) /\ c.pc = "replace" /\ c.todo = <<>>
      /\ Seen(mac, E, M, b) /\ (mac \in Undisturbed => Waits(c, E, M, b))
  BY <1>1, WaitsIs
<1>3. /\ c.op \in {"detect", "activate", "fai", "set", "hello", "kill", "copy"}
      /\ c.old \in Wholes(mac) \cup {Missing} /\ c.new \in Wholes(mac) \cup {Missing}
  BY <1>2, HandlerIs
<1>4. /\ c.op \in {"detect", "activate", "hello", "kill", "copy"}
      /\ c.op \in {"hello", "kill", "copy"} => c.old # Missing
      /\ c.new = Missing <=> c.op = "kill"
  BY <1>2, <1>3 DEF Stands
<1>5. /\ c.new = Missing => command = Delete(c.old)
      /\ c.new # Missing /\ c.old = Missing => command = Create(c.new)
      /\ c.new # Missing /\ c.old # Missing => command = Modify(c.old, c.new)
  BY DEF Replace
<1>6. command \in Commands(mac)
  BY <1>2, <1>3, <1>4, <1>5, DeleteIs, CreateIs, ModifyIs
<1>7. thread' = [thread EXCEPT ![t] = d]
  <2> DEFINE q == <<command>>
  <2>1. d = With(c, c.old, c.new, p, q) OBVIOUS
  <2> HIDE DEF c, p, q, d
  <2>2. Overlay([todo |-> q, pc |-> p], c) = d BY <1>2, <2>1, OverlayIs
  <2> QED BY <2>2 DEF c, p, q, DoReplace, Goes
<1>8. UNCHANGED <<ldap, members, dns, mixed, failed, belongs>>
  BY DEF DoReplace, Quiet, Others
<1> HIDE DEF command
<1>9. d \in Handlers(mac) BY <1>2, <1>3, <1>6, WithIs
<1>10. /\ d.op = c.op /\ d.pc = p /\ d.arg = c.arg /\ d.old = c.old /\ d.new = c.new
       /\ d.todo = <<command>> /\ d.todo # <<>> /\ Len(d.todo) = 1 /\ Head(d.todo) = command
  BY <1>2 DEF With
<1> HIDE DEF d
<1>11. Stands(d) BY <1>2, <1>4, <1>10 DEF Stands
<1>12. ASSUME mac \in Undisturbed PROVE Place(d, mac)
  <2>1. /\ Fresh(c, E) /\ StateKept(c)
        /\ IF c.old = Missing THEN Joined(M, b, c.new.dn) ELSE Rests(E, M, b)
    BY <1>2, <1>12 DEF Waits
  <2>2. c.old # Missing => GroupsWithMember(c.old.dn) = b
    <3> SUFFICES ASSUME c.old # Missing PROVE GroupsWithMember(c.old.dn) = b OBVIOUS
    <3>1. DOMAIN E = {c.old.dn} BY <2>1 DEF Fresh, Known
    <3>2. Joined(M, b, c.old.dn) BY <2>1, <3>1 DEF Rests
    <3>3. c.old.dn \in DNs(mac) /\ b \in SUBSET Group BY <1>2, <3>1 DEF Seen
    <3> QED BY <1>2, <3>2, <3>3, GroupsAre DEF SystemsInv
  <2>3. CASE c.new = Missing
    <3>1. c.old # Missing /\ p = "end" BY <1>4, <2>3
    <3>2. c.old \in Wholes(mac) BY <1>3, <3>1
    <3>3. Deleting(d, command, E, M, b)
      BY <1>2, <1>5, <1>10, <2>1, <2>2, <2>3, <3>1, <3>2, DeleteIs DEF Deleting, Fresh, Known
    <3>4. Replacing(d, E, M, b) BY <1>10, <3>1, <3>3 DEF Replacing
    <3> QED BY <1>10, <3>4 DEF Place, OnTheWay, Runs
  <2>4. CASE c.new # Missing /\ c.old = Missing
    <3>1. p = "end" BY <1>4, <2>4
    <3>2. Adding(d, command, E, M, b)
      BY <1>5, <1>10, <2>1, <2>4 DEF Adding, Create, Fresh, Known
    <3>3. Replacing(d, E, M, b) BY <1>10, <2>4, <3>1, <3>2 DEF Replacing
    <3> QED BY <1>10, <3>3 DEF Place, OnTheWay, Runs
  <2>5. CASE c.new # Missing /\ c.old # Missing
    <3>1. c.old \in Wholes(mac) /\ c.new \in Wholes(mac) BY <1>3, <2>5
    <3>2. Fresh(d, E) /\ StateKept(d) BY <1>10, <2>1 DEF Fresh, Known, StateKept, Carries
    <3>3. Modifying(d, command, E, M, b)
      BY <1>2, <1>5, <1>10, <2>1, <2>2, <2>5, <3>1, <3>2, ModifyIs DEF Modifying
    <3>4. Replacing(d, E, M, b) BY <1>10, <2>5, <3>3 DEF Replacing
    <3> QED BY <1>10, <3>4 DEF Place, OnTheWay, Runs
  <2> QED BY <2>3, <2>4, <2>5
<1> QED BY <1>2, <1>7, <1>8, <1>9, <1>11, <1>12, QuietIs

\* The command of SystemSetState.
LEMMA SetStateIs ==
  ASSUME NEW mac, NEW dn \in DNs(mac), NEW value \in State
  PROVE  SetState(dn, value) \in Seq(Commands(mac)) /\ SetState(dn, value) # <<>>
<1> DEFINE r == Record("set", dn, Missing, value)
<1>1. r \in Records(mac) BY DEF Record, Records
<1>2. SetState(dn, value) = <<<<r>>>> BY DEF SetState
<1> HIDE DEF r, Records
<1>3. <<r>> \in Commands(mac) BY <1>1 DEF Commands
<1> HIDE DEF Commands
<1> QED BY <1>2, <1>3

\* SystemSetState.
LEMMA SetStep ==
  ASSUME SystemsOK, SystemsInv, NEW t \in Thread, Set(t)
  PROVE  SystemsInv'
<1> DEFINE c == thread[t]
           mac == c.mac
           E == Entries(ldap, mac)
           M == In(members, mac)
           b == belongs[mac]
           q == SetState(c.old.dn, c.arg.fai)
           d == With(c, c.old, c.new, "end", q)
<1>1. Ready(t, "set") BY DEF Set
<1>2. /\ mac \in Machine /\ c \in Handlers(mac) /\ Stands(c) /\ c.pc = "set" /\ c.todo = <<>>
      /\ (mac \in Undisturbed => Waits(c, E, M, b))
  BY <1>1, WaitsIs
<1>3. c.op = "set" /\ c.old # Missing /\ c.arg.fai \in State
  BY <1>2, HandlerIs DEF Stands
<1>4. c.old \in Wholes(mac) /\ c.new \in Wholes(mac) \cup {Missing} BY <1>2, <1>3, HandlerIs
<1>5. q \in Seq(Commands(mac)) /\ q # <<>> BY <1>3, <1>4, DataIs, SetStateIs
<1>6. thread' = [thread EXCEPT ![t] = d]
  <2>1. d = With(c, c.old, c.new, "end", q) OBVIOUS
  <2> HIDE DEF c, q, d
  <2>2. Overlay([pc |-> "end", todo |-> q], c) = d BY <1>2, <2>1, OverlayIs
  <2> QED BY <2>2 DEF c, q, Set, Goes
<1>7. UNCHANGED <<ldap, members, dns, mixed, failed, belongs>> BY DEF Set, Quiet, Others
<1>8. d \in Handlers(mac) BY <1>2, <1>4, <1>5, WithIs
<1>9. d.op = c.op /\ d.pc = "end" /\ d.arg = c.arg /\ d.old = c.old /\ d.new = c.new /\ d.todo = q
  BY DEF With
<1>10. d.todo = SetState(c.old.dn, d.arg.fai) BY <1>9
<1> HIDE DEF d, q
<1>11. Stands(d) BY <1>2, <1>3, <1>9 DEF Stands
<1>12. ASSUME mac \in Undisturbed PROVE Place(d, mac)
  <2>1. Rests(E, M, b) /\ DOMAIN E = {c.old.dn} BY <1>2, <1>3, <1>12 DEF Waits, Fresh, Known
  <2>2. Setting(d, E, M, b) BY <1>3, <1>9, <1>10, <2>1 DEF Setting
  <2> QED BY <1>5, <1>9, <2>2 DEF Place, OnTheWay, Runs
<1> QED BY <1>2, <1>6, <1>7, <1>8, <1>11, <1>12, QuietIs

\* SystemForceFAIState, before and after the jobs are removed.
LEMMA ForceStateStep ==
  ASSUME SystemsOK, SystemsInv, NEW t \in Thread, ForceState(t)
  PROVE  SystemsInv'
<1> DEFINE c == thread[t]
           mac == c.mac
           E == Entries(ldap, mac)
           M == In(members, mac)
           b == belongs[mac]
           p == IF c.pc = "force" THEN "jobs" ELSE "forced"
           Q(found) == IF found = Missing THEN <<>> ELSE SetState(found.dn, c.arg.fai)
<1>1. Ready(t, "force") \/ Ready(t, "jobs") BY DEF ForceState
<1>2. PICK found : Asked(t, found) /\ Goes(t, [pc |-> p, todo |-> Q(found)])
  BY DEF ForceState, Search, Asked, Others
<1>3. /\ mac \in Machine /\ c \in Handlers(mac) /\ Stands(c) /\ c.pc \in {"force", "jobs"}
      /\ c.todo = <<>> /\ (mac \in Undisturbed => Waits(c, E, M, b))
  BY <1>1, WaitsIs
<1>4. c.op = "fai" /\ c.arg.fai \in State BY <1>3, HandlerIs DEF Stands
<1>5. /\ c.old \in Wholes(mac) \cup {Missing} /\ c.new \in Wholes(mac) \cup {Missing}
  BY <1>3, HandlerIs
<1>6. GetAllData(mac) \in Wholes(mac) \cup {Missing}
      /\ (mac \in Undisturbed /\ Rests(E, M, b) => Found(GetAllData(mac), E))
  BY <1>3, SearchIs DEF SystemsInv
<1>7. found \in Wholes(mac) \cup {Missing} BY <1>2, <1>6 DEF Asked
<1> DEFINE q == Q(found)
           d == With(c, c.old, c.new, p, q)
<1>8. q \in Seq(Commands(mac)) /\ (found # Missing => q # <<>>)
  <2>1. CASE found = Missing BY <2>1
  <2>2. CASE found # Missing BY <1>4, <1>7, <2>2, DataIs, SetStateIs
  <2> QED BY <2>1, <2>2
<1>9. thread' = [thread EXCEPT ![t] = d]
  <2>1. d = With(c, c.old, c.new, p, q) OBVIOUS
  <2> HIDE DEF c, p, q, d
  <2>2. Overlay([pc |-> p, todo |-> q], c) = d BY <1>3, <2>1, OverlayIs
  <2> QED BY <1>2, <2>2 DEF c, p, q, Goes
<1>10. p \in {"jobs", "forced"} OBVIOUS
<1>11. found # Missing => q = SetState(found.dn, c.arg.fai) OBVIOUS
<1>12. found = Missing => q = <<>> OBVIOUS
<1> HIDE DEF p, q
<1>13. d \in Handlers(mac) BY <1>3, <1>5, <1>8, <1>10, WithIs
<1>14. d.op = c.op /\ d.pc = p /\ d.arg = c.arg /\ d.old = c.old /\ d.new = c.new /\ d.todo = q
  BY DEF With
<1> HIDE DEF d
<1>15. Stands(d) BY <1>3, <1>4, <1>10, <1>14 DEF Stands
<1>16. ASSUME mac \in Undisturbed, found = GetAllData(mac) PROVE Place(d, mac)
  <2>1. Rests(E, M, b) /\ Known(c, E) BY <1>3, <1>16 DEF Waits
  <2>2. Found(found, E) BY <1>6, <1>16, <2>1
  <2>3. Known(d, E) BY <1>14, <2>1 DEF Known
  <2>4. CASE found = Missing
    <3>1. Waits(d, E, M, b) BY <1>10, <1>14, <2>1, <2>3 DEF Waits
    <3> QED BY <1>12, <1>14, <2>4, <3>1 DEF Place, OnTheWay
  <2>5. CASE found # Missing
    <3>1. Setting(d, E, M, b) BY <1>4, <1>11, <1>14, <2>1, <2>2, <2>5 DEF Setting, Found
    <3> QED BY <1>8, <1>10, <1>14, <2>3, <2>5, <3>1 DEF Place, OnTheWay, Runs
  <2> QED BY <2>4, <2>5
<1> QED BY <1>2, <1>3, <1>9, <1>13, <1>15, <1>16, AskedIs

\* FAIReboot deletes a system that was in Incoming.
LEMMA ForcedStep ==
  ASSUME SystemsOK, SystemsInv, NEW t \in Thread, Forced(t)
  PROVE  SystemsInv'
<1> DEFINE c == thread[t]
           mac == c.mac
           E == Entries(ldap, mac)
           M == In(members, mac)
           b == belongs[mac]
           leaves == c.old # Missing /\ c.old.dn[2] = Incoming
           q == IF leaves THEN <<Replace(c.old, Missing)>> ELSE <<>>
           d == With(c, c.old, c.new, "end", q)
<1>1. Ready(t, "forced") BY DEF Forced
<1>2. /\ mac \in Machine /\ c \in Handlers(mac) /\ Stands(c) /\ c.pc = "forced" /\ c.todo = <<>>
      /\ Seen(mac, E, M, b) /\ (mac \in Undisturbed => Waits(c, E, M, b))
  BY <1>1, WaitsIs
<1>3. c.op = "fai" /\ c.arg.fai \in State BY <1>2, HandlerIs DEF Stands
<1>4. /\ c.old \in Wholes(mac) \cup {Missing} /\ c.new \in Wholes(mac) \cup {Missing}
  BY <1>2, HandlerIs
<1>5. leaves => c.old \in Wholes(mac) /\ Delete(c.old) \in Commands(mac)
  BY <1>2, <1>4, DeleteIs
<1>6. q = IF leaves THEN <<Delete(c.old)>> ELSE <<>> BY DEF Replace
<1>7. thread' = [thread EXCEPT ![t] = d]
  <2>1. d = With(c, c.old, c.new, "end", q) OBVIOUS
  <2> HIDE DEF c, q, d
  <2>2. Overlay([pc |-> "end", todo |-> q], c) = d BY <1>2, <2>1, OverlayIs
  <2> QED BY <2>2 DEF c, q, Forced, Goes
<1>8. UNCHANGED <<ldap, members, dns, mixed, failed, belongs>> BY DEF Forced, Quiet, Others
<1> HIDE DEF q, leaves
<1>9. q \in Seq(Commands(mac))
  <2>1. CASE leaves
    <3>1. Delete(c.old) \in Commands(mac) /\ q = <<Delete(c.old)>> BY <1>5, <1>6, <2>1
    <3> HIDE DEF Commands
    <3> QED BY <3>1
  <2>2. CASE ~leaves BY <1>6, <2>2
  <2> QED BY <2>1, <2>2
<1>10. d \in Handlers(mac) BY <1>2, <1>4, <1>9, WithIs
<1>11. d.op = c.op /\ d.pc = "end" /\ d.arg = c.arg /\ d.old = c.old /\ d.new = c.new /\ d.todo = q
  BY DEF With
<1> HIDE DEF d
<1>12. Stands(d) BY <1>2, <1>3, <1>11 DEF Stands
<1>13. ASSUME mac \in Undisturbed PROVE Place(d, mac)
  <2>1. Rests(E, M, b) /\ Known(c, E) BY <1>2, <1>13 DEF Waits
  <2>2. CASE ~leaves
    <3>1. Waits(d, E, M, b) BY <1>11, <2>1 DEF Waits
    <3> QED BY <1>6, <1>11, <2>2, <3>1 DEF Place, OnTheWay
  <2>3. CASE leaves
    <3>1. c.old # Missing /\ c.old \in Wholes(mac) BY <1>5, <2>3 DEF leaves
    <3>2. DOMAIN E = {c.old.dn} BY <2>1, <3>1 DEF Known
    <3>3. Joined(M, b, c.old.dn) BY <2>1, <3>2 DEF Rests
    <3>4. c.old.dn \in DNs(mac) /\ b \in SUBSET Group BY <1>2, <3>2 DEF Seen
    <3>5. GroupsWithMember(c.old.dn) = b BY <1>2, <3>3, <3>4, GroupsAre DEF SystemsInv
    <3>6. Deleting(d, Delete(c.old), E, M, b)
      BY <1>2, <1>11, <2>1, <3>1, <3>2, <3>5, DeleteIs DEF Deleting
    <3>7. d.todo # <<>> /\ Len(d.todo) = 1 /\ Head(d.todo) = Delete(c.old)
      BY <1>6, <1>11, <2>3
    <3>8. Replacing(d, E, M, b) BY <1>11, <3>1, <3>6, <3>7 DEF Replacing
    <3> QED BY <3>7, <3>8 DEF Place, OnTheWay, Runs
  <2> QED BY <2>2, <2>3
<1> QED BY <1>2, <1>7, <1>8, <1>10, <1>12, <1>13, QuietIs

\* A handler ends: all it had to do is done.
LEMMA DoneStep ==
  ASSUME SystemsOK, SystemsInv, NEW t \in Thread, Done(t)
  PROVE  SystemsInv'
<1> DEFINE c == thread[t]
           mac == c.mac
<1>1. Ready(t, "end") /\ thread' = [thread EXCEPT ![t] = Idle]
      /\ UNCHANGED <<ldap, members, dns, mixed, failed, belongs>>
  BY DEF Done, Quiet, Others
<1>2. /\ mac \in Machine /\ c.pc = "end"
      /\ mac \in Undisturbed =>
           Waits(c, Entries(ldap, mac), In(members, mac), belongs[mac])
  BY <1>1, WaitsIs
<1>3. /\ thread \in [Thread -> {Idle} \cup UNION {Handlers(m) : m \in Machine}]
      /\ \A u \in Thread : thread[u] # Idle => Stands(thread[u])
  BY DEF SystemsInv, TypeOK
<1>4. thread'[t] = Idle /\ \A u \in Thread \ {t} : thread'[u] = thread[u] BY <1>1, <1>3
<1>5. \A m \in Machine : Idle.mac # m BY DEF Idle, SystemsOK
<1>6. TypeOK'
  <2>1. thread' \in [Thread -> {Idle} \cup UNION {Handlers(m) : m \in Machine}] BY <1>1, <1>3
  <2>2. \A u \in Thread : thread'[u] # Idle => Stands(thread'[u]) BY <1>3, <1>4
  <2> QED BY <1>1, <2>1, <2>2 DEF SystemsInv, TypeOK
<1>7. Alone' BY <1>1, <1>4, <1>5 DEF SystemsInv, Alone
<1>8. Kept'
  <2> SUFFICES ASSUME NEW m \in Undisturbed'
               PROVE  /\ (\A u \in Thread : thread'[u].mac # m) =>
                           Rests(Entries(ldap', m), In(members', m), belongs'[m])
                      /\ \A u \in Thread : thread'[u].mac = m =>
                           OnTheWay(thread'[u], Entries(ldap', m), In(members', m), belongs'[m])
    BY DEF Kept
  <2>1. /\ m \in Undisturbed /\ m \in Machine
        /\ Entries(ldap', m) = Entries(ldap, m) /\ In(members', m) = In(members, m)
        /\ belongs'[m] = belongs[m]
    BY <1>1 DEF Undisturbed
  <2>2. /\ (\A u \in Thread : thread[u].mac # m) =>
             Rests(Entries(ldap, m), In(members, m), belongs[m])
        /\ \A u \in Thread : thread[u].mac = m =>
             OnTheWay(thread[u], Entries(ldap, m), In(members, m), belongs[m])
    BY <2>1 DEF SystemsInv, Kept
  <2>3. mac = m => Rests(Entries(ldap, m), In(members, m), belongs[m])
    BY <1>2, <2>1 DEF Waits
  <2>4. \A u \in Thread : thread'[u].mac = m => u # t /\ thread'[u] = thread[u]
    BY <1>4, <1>5, <2>1
  <2>5. (\A u \in Thread : thread'[u].mac # m) =>
          mac = m \/ \A u \in Thread : thread[u].mac # m
    BY <1>4
  <2> QED BY <2>1, <2>2, <2>3, <2>4, <2>5
<1> QED BY <1>6, <1>7, <1>8 DEF SystemsInv

\* here_i_am reads again.
LEMMA RereadStep ==
  ASSUME SystemsOK, SystemsInv, NEW t \in Thread, Reread(t)
  PROVE  SystemsInv'
<1> DEFINE c == thread[t]
           mac == c.mac
           E == Entries(ldap, mac)
           M == In(members, mac)
           b == belongs[mac]
           update_ip == c.old.ip # c.arg.ip
           update_name == dns[mac] # Missing /\ c.old.dn[1] # DnsName(dns[mac])
           Ip(old) == IF update_ip THEN c.arg.ip ELSE old.ip
           Cn(old) == IF update_name THEN DnsName(dns[mac]) ELSE old.dn[1]
           e == With(c, c.old, c.new, "end", c.todo)
<1>1. Ready(t, "reread") BY DEF Reread
<1>2. /\ mac \in Machine /\ c \in Handlers(mac) /\ Stands(c) /\ c.pc = "reread" /\ c.todo = <<>>
      /\ (mac \in Undisturbed => Waits(c, E, M, b))
  BY <1>1, WaitsIs
<1>3. c.op = "hello" BY <1>2, HandlerIs DEF Stands
<1>4. /\ c.old \in Wholes(mac) \cup {Missing} /\ c.new \in Wholes(mac) \cup {Missing}
      /\ c.arg \in Args(mac) /\ c.todo \in Seq(Commands(mac))
  BY <1>2, HandlerIs
<1>5. \/ Goes(t, [pc |-> "end"]) /\ Quiet
      \/ \E old : /\ Asked(t, old)
                  /\ IF old = Missing THEN Goes(t, [pc |-> "end"])
                     ELSE Goes(t, [old |-> old, pc |-> "replace",
                                   new |-> Greeted(old, Ip(old), Cn(old))])
  BY DEF Reread, Search, Asked, Others, Greeted
<1>6. Goes(t, [pc |-> "end"]) => thread' = [thread EXCEPT ![t] = e]
  <2>1. Overlay([pc |-> "end"], c) = e BY <1>2, OverlayIs
  <2> QED BY <2>1 DEF Goes
<1>7. e \in Handlers(mac) BY <1>2, <1>4, WithIs
<1>8. e.op = c.op /\ e.pc = "end" /\ e.todo = <<>> BY <1>2 DEF With
<1> HIDE DEF e
<1>9. Stands(e) BY <1>3, <1>8 DEF Stands
<1>10. mac \in Undisturbed => Place(e, mac)
  BY <1>2, <1>8 DEF Waits, Place, OnTheWay
<1>11. CASE Goes(t, [pc |-> "end"]) /\ Quiet
  <2>1. UNCHANGED <<ldap, members, dns, mixed, failed, belongs>> BY <1>11 DEF Quiet, Others
  <2> QED BY <1>2, <1>6, <1>7, <1>9, <1>10, <1>11, <2>1, QuietIs
<1>12. CASE \E old : /\ Asked(t, old)
                     /\ IF old = Missing THEN Goes(t, [pc |-> "end"])
                        ELSE Goes(t, [old |-> old, pc |-> "replace",
                                      new |-> Greeted(old, Ip(old), Cn(old))])
  <2>1. PICK old : /\ Asked(t, old)
                   /\ IF old = Missing THEN Goes(t, [pc |-> "end"])
                      ELSE Goes(t, [old |-> old, pc |-> "replace",
                                    new |-> Greeted(old, Ip(old), Cn(old))])
    BY <1>12
  <2>2. CASE old = Missing
    BY <1>2, <1>6, <1>7, <1>9, <1>10, <2>1, <2>2, AskedIs
  <2>3. CASE old # Missing
    <3> DEFINE new == Greeted(old, Ip(old), Cn(old))
               d == With(c, old, new, "replace", c.todo)
    <3>1. GetAllData(mac) \in Wholes(mac) \cup {Missing}
          /\ (mac \in Undisturbed /\ Rests(E, M, b) => Found(GetAllData(mac), E))
      BY <1>2, SearchIs DEF SystemsInv
    <3>2. old \in Wholes(mac) BY <2>1, <2>3, <3>1 DEF Asked
    <3>3. Ip(old) \in IP \cup {Missing} BY <1>4, <3>2 DEF Args, Wholes
    <3>4. dns[mac] # Missing => DnsName(dns[mac]) \in KinCns(mac)
      <4>1. dns[mac] \in Names[mac] \cup {Missing} BY <1>2 DEF SystemsInv, TypeOK, Called
      <4>2. dns[mac] # Missing => DnsName(dns[mac]) \in Cns(mac) BY <4>1 DEF Cns
      <4> QED BY <1>2, <4>2, KinIs
    <3>5. Cn(old) \in KinCns(mac) BY <3>2, <3>4 DEF Wholes, DNs
    <3>6. new \in Wholes(mac) /\ new.fai = old.fai
      <4> DEFINE ip == Ip(old)
                 cn == Cn(old)
                 m == mac
      <4>1. /\ old \in Wholes(m) /\ ip \in IP \cup {Missing}
            /\ cn \in KinCns(m) /\ new = Greeted(old, ip, cn)
        BY <3>2, <3>3, <3>5
      <4> HIDE DEF ip, cn, m, new
      <4>2. new \in Wholes(m) /\ new.fai = old.fai BY <4>1, GreetedIs
      <4> QED BY <4>2 DEF m
    <3>7. thread' = [thread EXCEPT ![t] = d]
      <4>1. d = With(c, old, new, "replace", c.todo) OBVIOUS
      <4>2. thread' = [thread EXCEPT ![t] =
                         Overlay([old |-> old, pc |-> "replace", new |-> new], c)]
        BY <2>1, <2>3 DEF Goes
      <4> HIDE DEF new, d
      <4>3. Overlay([old |-> old, pc |-> "replace", new |-> new], c) = d
        BY <1>2, <4>1, OverlayIs
      <4> QED BY <4>2, <4>3
    <3> HIDE DEF new
    <3>8. d \in Handlers(mac) BY <1>2, <1>4, <3>2, <3>6, WithIs
    <3>9. d.op = c.op /\ d.pc = "replace" /\ d.old = old /\ d.new = new /\ d.todo = <<>>
      BY <1>2 DEF With
    <3> HIDE DEF d
    <3>10. new # Missing BY <1>2, <3>6 DEF SystemsOK
    <3>11. Stands(d) BY <1>3, <2>3, <3>9, <3>10 DEF Stands
    <3>12. ASSUME mac \in Undisturbed, old = GetAllData(mac) PROVE Place(d, mac)
      <4>1. Rests(E, M, b) BY <1>2, <3>12 DEF Waits
      <4>2. Found(old, E) BY <3>1, <3>12, <4>1
      <4>3. Fresh(d, E) /\ StateKept(d)
        BY <2>3, <3>6, <3>9, <4>2 DEF Fresh, Known, Found, StateKept, Carries
      <4>4. Waits(d, E, M, b) BY <2>3, <3>9, <4>1, <4>3 DEF Waits
      <4> QED BY <3>9, <4>4 DEF Place, OnTheWay
    <3> QED BY <1>2, <2>1, <3>7, <3>8, <3>11, <3>12, AskedIs
  <2> QED BY <2>2, <2>3
<1> QED BY <1>5, <1>11, <1>12

\* The commands that put a dn into all groups.
LEMMA JoinsAre ==
  ASSUME SystemsOK, NEW mac \in Machine, NEW dn \in DNs(mac), NEW M,
         \A g \in Group : M[g] \in {{}, {dn}}
  PROVE  LET q == AddToGroups(dn, Group)
         IN q \in Seq(Commands(mac)) /\ Joins(q, M, dn) /\ (q = <<>> => Group = {})
<1> DEFINE q == AddToGroups(dn, Group)
<1>1. /\ q \in Seq(Commands(mac))
      /\ \A i \in DOMAIN q : \E g \in Group : q[i] = <<Join(g, dn)>>
      /\ \A g \in Group : \E i \in DOMAIN q : q[i] = <<Join(g, dn)>>
  BY PerGroupIs DEF SystemsOK
<1> HIDE DEF q
<1>2. Joins(q, M, dn) BY <1>1 DEF Joins
<1>3. q = <<>> => Group = {} BY <1>1
<1> QED BY <1>1, <1>2, <1>3 DEF q

\* What a handler prepares for a machine that has no object, or one that it replaces.
LEMMA PreparedIs ==
  ASSUME SystemsOK, SystemsInv, NEW t \in Thread, NEW mac \in Machine, thread[t].mac = mac,
         Ready(t, "prepare"), NEW new \in Wholes(mac), NEW joins \in BOOLEAN,
         joins => thread[t].old = Missing,
         thread[t].old # Missing => Carries(thread[t], thread[t].old, new),
         Goes(t, [pc |-> "replace", new |-> new,
                  todo |-> IF joins THEN AddToGroups(new.dn, Group) ELSE <<>>]),
         belongs' = IF joins THEN [belongs EXCEPT ![mac] = @ \cup Group] ELSE belongs,
         UNCHANGED <<ldap, members, dns, mixed, failed>>
  PROVE  SystemsInv'
<1> DEFINE c == thread[t]
           E == Entries(ldap, mac)
           M == In(members, mac)
           b == belongs[mac]
           f == IF joins THEN Group ELSE b
           q == IF joins THEN AddToGroups(new.dn, Group) ELSE <<>>
           d == With(c, c.old, new, "replace", q)
<1>1. /\ c \in Handlers(mac) /\ Stands(c) /\ c.pc = "prepare" /\ c.todo = <<>>
      /\ Seen(mac, E, M, b) /\ (mac \in Undisturbed => Waits(c, E, M, b))
  BY WaitsIs
<1>2. /\ c.op \in {"detect", "activate", "copy"} /\ (c.op = "copy" => c.old # Missing)
      /\ c.old \in Wholes(mac) \cup {Missing}
  BY <1>1, HandlerIs DEF Stands
<1>3. new.dn \in DNs(mac) BY DataIs
<1>4. belongs \in [Machine -> SUBSET Group] BY DEF SystemsInv, TypeOK
<1>5. f \in SUBSET Group /\ belongs' = [belongs EXCEPT ![mac] = f]
  <2>1. b \in SUBSET Group BY <1>4
  <2>2. CASE joins
    <3>1. b \cup Group = Group BY <2>1
    <3> QED BY <2>2, <3>1
  <2>3. CASE ~joins BY <1>4, <2>1, <2>3
  <2> QED BY <2>2, <2>3
<1>6. q \in Seq(Commands(mac))
  <2>1. CASE joins
    <3>1. \A g \in Group : [h \in Group |-> {}][g] \in {{}, {new.dn}} OBVIOUS
    <3>2. AddToGroups(new.dn, Group) \in Seq(Commands(mac)) BY <1>3, PerGroupIs DEF SystemsOK
    <3> QED BY <2>1, <3>2
  <2>2. CASE ~joins BY <2>2
  <2> QED BY <2>1, <2>2
<1>7. thread' = [thread EXCEPT ![t] = d]
  <2>1. d = With(c, c.old, new, "replace", q)
        /\ thread' = [thread EXCEPT ![t] =
                        Overlay([pc |-> "replace", new |-> new, todo |-> q], c)]
    BY DEF Goes
  <2> HIDE DEF q, d
  <2>2. Overlay([pc |-> "replace", new |-> new, todo |-> q], c) = d BY <1>1, <2>1, OverlayIs
  <2> QED BY <2>1, <2>2
<1>8. (joins => q = AddToGroups(new.dn, Group) /\ f = Group) /\ (~joins => q = <<>> /\ f = b)
  OBVIOUS
<1> HIDE DEF q, f
<1>9. d \in Handlers(mac) BY <1>1, <1>2, <1>6, WithIs
<1>10. /\ d.op = c.op /\ d.pc = "replace" /\ d.old = c.old /\ d.new = new /\ d.todo = q
       /\ d.arg = c.arg
  BY DEF With
<1> HIDE DEF d
<1>11. new # Missing BY DEF SystemsOK
<1>12. Stands(d) BY <1>2, <1>10, <1>11 DEF Stands
<1>13. ASSUME mac \in Undisturbed PROVE OnTheWay(d, E, M, f)
  <2>1. Rests(E, M, b) /\ Fresh(c, E) BY <1>1, <1>13 DEF Waits
  <2>2. Fresh(d, E) BY <1>10, <2>1 DEF Fresh, Known
  <2>3. StateKept(d) BY <1>10 DEF StateKept, Carries
  <2>4. c.old = Missing => DOMAIN E = {} /\ b = {} /\ \A g \in Group : M[g] = {}
    BY <2>1 DEF Rests, Fresh, Known
  <2>5. CASE joins
    <3>1. \A g \in Group : M[g] \in {{}, {new.dn}} BY <2>4, <2>5
    <3>2. Joins(q, M, new.dn) /\ (q = <<>> => Group = {}) BY <1>3, <1>8, <2>5, <3>1, JoinsAre
    <3>3. CASE q = <<>>
      <4>1. Joined(M, f, new.dn) BY <3>2, <3>3 DEF Joined
      <4>2. Waits(d, E, M, f) BY <1>10, <2>2, <2>3, <2>5, <4>1 DEF Waits
      <4> QED BY <1>10, <3>3, <4>2 DEF OnTheWay
    <3>4. CASE q # <<>>
      <4>1. Joining(d, E, M, f) BY <1>8, <1>10, <2>4, <2>5, <3>2 DEF Joining
      <4> QED BY <1>2, <1>10, <2>5, <3>4, <4>1 DEF OnTheWay, Runs
    <3> QED BY <3>3, <3>4
  <2>6. CASE ~joins
    <3>1. c.old = Missing => Joined(M, f, new.dn) BY <1>8, <2>4, <2>6 DEF Joined
    <3>2. c.old # Missing => Rests(E, M, f) BY <1>8, <2>1, <2>6
    <3>3. Waits(d, E, M, f) BY <1>10, <2>2, <2>3, <3>1, <3>2 DEF Waits
    <3> QED BY <1>8, <1>10, <2>6, <3>3 DEF OnTheWay
  <2> QED BY <2>5, <2>6
<1> QED BY <1>5, <1>7, <1>9, <1>12, <1>13, MoveIs

\* detected_hardware.
LEMMA PrepareDetectedStep ==
  ASSUME SystemsOK, SystemsInv, NEW t \in Thread, PrepareDetected(t)
  PROVE  SystemsInv'
<1> DEFINE c == thread[t]
           mac == c.mac
           new == Detected(c)
           joins == c.old = Missing
<1>1. Ready(t, "prepare") BY DEF PrepareDetected
<1>2. mac \in Machine /\ c \in Handlers(mac) BY <1>1, WaitsIs
<1>3. Called(dns) BY DEF SystemsInv, TypeOK
<1>4. new \in Wholes(mac) /\ (c.old # Missing => Carries(c, c.old, new))
  BY <1>2, <1>3, DetectedIs
<1>5. GroupsWithMember(Template) = Group BY TemplateGroups DEF SystemsInv
<1>6. /\ Goes(t, [pc |-> "replace", new |-> new,
                  todo |-> IF joins THEN AddToGroups(new.dn, Group) ELSE <<>>])
      /\ belongs' = IF joins THEN [belongs EXCEPT ![mac] = @ \cup Group] ELSE belongs
      /\ UNCHANGED <<ldap, members, dns, mixed, failed>>
  <2>1. (IF joins THEN AddToGroups(new.dn, Group) ELSE <<>>)
          = IF c.old # Missing THEN <<>> ELSE AddToGroups(new.dn, Group)
    OBVIOUS
  <2>2. (IF joins THEN [belongs EXCEPT ![mac] = @ \cup Group] ELSE belongs)
          = IF c.old # Missing THEN belongs ELSE [belongs EXCEPT ![mac] = @ \cup Group]
    OBVIOUS
  <2> QED BY <1>5, <2>1, <2>2 DEF PrepareDetected, Others
<1> HIDE DEF new
<1> QED BY <1>1, <1>2, <1>4, <1>6, PreparedIs

\* job_trigger_activate_new.
LEMMA PrepareActivatedStep ==
  ASSUME SystemsOK, SystemsInv, NEW t \in Thread, PrepareActivated(t)
  PROVE  SystemsInv'
<1> DEFINE c == thread[t]
           mac == c.mac
           new == Activated(c)
           joins == c.old = Missing /\ c.arg.template
<1>1. Ready(t, "prepare") BY DEF PrepareActivated
<1>2. mac \in Machine /\ c \in Handlers(mac) BY <1>1, WaitsIs
<1>3. new \in Wholes(mac) /\ (c.old # Missing => Carries(c, c.old, new))
  BY <1>2, ActivatedIs DEF Carries
<1>4. GroupsWithMember(Template) = Group BY TemplateGroups DEF SystemsInv
<1>5. /\ Goes(t, [pc |-> "replace", new |-> new,
                  todo |-> IF joins THEN AddToGroups(new.dn, Group) ELSE <<>>])
      /\ belongs' = IF joins THEN [belongs EXCEPT ![mac] = @ \cup Group] ELSE belongs
      /\ UNCHANGED <<ldap, members, dns, mixed, failed>>
  <2>1. (IF joins THEN [belongs EXCEPT ![mac] = @ \cup Group] ELSE belongs)
          = IF ~joins THEN belongs ELSE [belongs EXCEPT ![mac] = @ \cup Group]
    OBVIOUS
  <2> QED BY <1>4, <2>1 DEF PrepareActivated, Others
<1>6. joins \in BOOLEAN OBVIOUS
<1>7. joins => c.old = Missing OBVIOUS
<1> HIDE DEF new, joins
<1> QED BY <1>1, <1>2, <1>3, <1>5, <1>6, <1>7, PreparedIs

\* sibridge's copy, before the object is replaced.
LEMMA PrepareCopyStep ==
  ASSUME SystemsOK, SystemsInv, NEW t \in Thread, PrepareCopy(t)
  PROVE  SystemsInv'
<1> DEFINE c == thread[t]
           mac == c.mac
           new == Copied(c.old)
<1>1. Ready(t, "prepare") /\ c.op = "copy" BY DEF PrepareCopy
<1>2. mac \in Machine /\ c \in Handlers(mac) /\ Stands(c) /\ c.pc = "prepare" /\ c.todo = <<>>
  BY <1>1, WaitsIs
<1>3. c.old \in Wholes(mac) BY <1>1, <1>2, HandlerIs DEF Stands
<1>4. new \in Wholes(mac) /\ Carries(c, c.old, new) BY <1>2, <1>3, CopiedIs DEF Carries
<1>5. /\ Goes(t, [pc |-> "replace", new |-> new])
      /\ UNCHANGED <<ldap, members, dns, mixed, failed, belongs>>
  BY DEF PrepareCopy, Copied, Quiet, Others
<1> HIDE DEF new
<1>6. Goes(t, [pc |-> "replace", new |-> new,
               todo |-> IF FALSE THEN AddToGroups(new.dn, Group) ELSE <<>>])
  <2>1. Overlay([pc |-> "replace", new |-> new], c)
          = Overlay([pc |-> "replace", new |-> new, todo |-> <<>>], c)
    BY <1>2, OverlayIs
  <2> QED BY <1>5, <2>1 DEF Goes
<1>7. belongs' = IF FALSE THEN [belongs EXCEPT ![mac] = @ \cup Group] ELSE belongs BY <1>5
<1> QED BY <1>1, <1>2, <1>4, <1>5, <1>6, <1>7, PreparedIs

\* The same, after it.
LEMMA JoinCopyStep ==
  ASSUME SystemsOK, SystemsInv, NEW t \in Thread, JoinCopy(t)
  PROVE  SystemsInv'
<1> DEFINE c == thread[t]
           mac == c.mac
           E == Entries(ldap, mac)
           M == In(members, mac)
           b == belongs[mac]
           dn == c.new.dn
           q == AddToGroups(dn, Group)
           d == With(c, c.old, c.new, "end", q)
<1>1. Ready(t, "join") BY DEF JoinCopy
<1>2. /\ mac \in Machine /\ c \in Handlers(mac) /\ Stands(c) /\ c.pc = "join" /\ c.todo = <<>>
      /\ (mac \in Undisturbed => Waits(c, E, M, b))
  BY <1>1, WaitsIs
<1>3. c.op = "copy" /\ c.new # Missing BY <1>2, HandlerIs DEF Stands
<1>4. c.old \in Wholes(mac) \cup {Missing} /\ c.new \in Wholes(mac) BY <1>2, <1>3, HandlerIs
<1>5. dn \in DNs(mac) BY <1>4, DataIs
<1>6. GroupsWithMember(Template) = Group BY TemplateGroups DEF SystemsInv
<1>7. belongs \in [Machine -> SUBSET Group] BY DEF SystemsInv, TypeOK
<1>8. b \cup Group = Group BY <1>2, <1>7
<1>9. belongs' = [belongs EXCEPT ![mac] = Group] BY <1>6, <1>8 DEF JoinCopy
<1>10. q \in Seq(Commands(mac)) BY <1>5, PerGroupIs DEF SystemsOK
<1>11. thread' = [thread EXCEPT ![t] = d]
  <2>1. d = With(c, c.old, c.new, "end", q)
        /\ thread' = [thread EXCEPT ![t] = Overlay([pc |-> "end", todo |-> q], c)]
    BY <1>6 DEF JoinCopy, Goes
  <2> HIDE DEF q, d
  <2>2. Overlay([pc |-> "end", todo |-> q], c) = d BY <1>2, <2>1, OverlayIs
  <2> QED BY <2>1, <2>2
<1>12. UNCHANGED <<ldap, members, dns, mixed, failed>> BY DEF JoinCopy, Others
<1>13. d \in Handlers(mac)
  <2> HIDE DEF q
  <2> QED BY <1>2, <1>4, <1>10, WithIs
<1>14. d.op = c.op /\ d.pc = "end" /\ d.new = c.new /\ d.todo = q
  <2> HIDE DEF q
  <2> QED BY DEF With
<1> HIDE DEF d
<1>15. Stands(d) BY <1>3, <1>14 DEF Stands
<1>16. ASSUME mac \in Undisturbed PROVE OnTheWay(d, E, M, Group)
  <2>1. Rests(E, M, b) /\ DOMAIN E = {dn} BY <1>2, <1>16 DEF Waits
  <2>2. Joined(M, b, dn) BY <2>1 DEF Rests
  <2>3. \A g \in Group : M[g] \in {{}, {dn}} BY <2>2 DEF Joined
  <2>4. Joins(q, M, dn) /\ (q = <<>> => Group = {}) BY <1>2, <1>5, <2>3, JoinsAre
  <2> HIDE DEF q
  <2>5. CASE q = <<>>
    <3>1. Rests(E, M, Group) BY <2>1, <2>4, <2>5 DEF Rests, Joined
    <3> QED BY <1>14, <2>5, <3>1 DEF OnTheWay, Waits
  <2>6. CASE q # <<>>
    <3>1. Joining(d, E, M, Group) BY <1>14, <2>1, <2>4 DEF Joining
    <3> QED BY <1>3, <1>14, <2>6, <3>1 DEF OnTheWay, Runs
  <2> QED BY <2>5, <2>6
<1> QED BY <1>2, <1>9, <1>11, <1>12, <1>13, <1>15, <1>16, MoveIs

\* A handler runs a record.
LEMMA RunCommandStep ==
  ASSUME SystemsOK, SystemsInv, NEW t \in Thread, RunCommand(t)
  PROVE  /\ SystemsInv'
         /\ \A mac \in Undisturbed :
              (StateOf(mac) # {} /\ StateOf(mac)' # {} /\ StateOf(mac)' # StateOf(mac)) =>
                /\ thread[t].mac = mac /\ thread[t].arg.fai # Missing
                /\ StateOf(mac)' = {thread[t].arg.fai}
<1> DEFINE c == thread[t]
           mac == c.mac
           todo == c.todo
           r == Head(Head(todo))
           E == Entries(ldap, mac)
           M == In(members, mac)
           b == belongs[mac]
           done == With(c, c.old, c.new, c.pc, RestOf(todo))
           given == With(c, c.old, c.new, c.pc, Tail(todo))
<1>1. todo # <<>> BY DEF RunCommand
<1>2. /\ TypeOK /\ Directory(ldap) /\ Groups(members) /\ failed \subseteq Machine
      /\ belongs \in [Machine -> SUBSET Group]
  BY DEF SystemsInv, TypeOK
<1>3. mac \in Machine /\ c \in Handlers(mac) /\ Stands(c) BY <1>1, <1>2, ThreadIs
<1>4. /\ todo \in Seq(Commands(mac)) /\ c.old \in Wholes(mac) \cup {Missing}
      /\ c.new \in Wholes(mac) \cup {Missing}
      /\ c.pc \in {"read", "prepare", "replace", "force", "jobs", "forced", "set", "reread",
                   "join", "end"}
  BY <1>3, HandlerIs
<1>5. /\ r \in Records(mac) /\ RestOf(todo) \in Seq(Commands(mac))
      /\ Tail(todo) \in Seq(Commands(mac))
  BY <1>1, <1>4, RestIs
<1>6. done \in Handlers(mac) /\ given \in Handlers(mac)
  <2>1. done \in Handlers(mac) BY <1>3, <1>4, <1>5, WithIs
  <2>2. given \in Handlers(mac) BY <1>3, <1>4, <1>5, WithIs
  <2> QED BY <2>1, <2>2
<1>7. Stands(done) /\ Stands(given)
  <2>1. /\ done.op = c.op /\ done.pc = c.pc /\ done.arg = c.arg /\ done.old = c.old
        /\ done.new = c.new
    BY FieldsAre
  <2>2. /\ given.op = c.op /\ given.pc = c.pc /\ given.arg = c.arg /\ given.old = c.old
        /\ given.new = c.new
    BY FieldsAre
  <2>3. Stands(c) /\ c.todo # <<>> BY <1>1, <1>3
  <2>4. c.pc \notin {"read", "prepare", "force", "set", "reread"} BY <2>3 DEF Stands
  <2> HIDE DEF done, given, c
  <2>5. Stands(done) BY <2>1, <2>3, <2>4 DEF Stands
  <2>6. Stands(given) BY <2>2, <2>3, <2>4 DEF Stands
  <2> QED BY <2>5, <2>6
<1>8. Seen(mac, E, M, b) BY <1>2, <1>3, SeenIs
<1>9. mac \in Undisturbed => Steps(c, E, M, b)
  BY <1>1, <1>3, <1>8, PlaceIs, RunStep DEF Place
<1>10. Overlay([todo |-> RestOf(todo)], c) = done /\ Overlay([todo |-> Tail(todo)], c) = given
  BY <1>3, OverlayIs
<1>11. /\ \/ /\ Possible(r) /\ Perform(r)
             /\ Goes(t, [todo |-> RestOf(todo)])
             /\ belongs' = IF r.op = "delete" THEN [belongs EXCEPT ![mac] = {}] ELSE belongs
             /\ UNCHANGED <<ldapFaults, failed>>
          \/ /\ ~Possible(r)
             /\ Goes(t, [todo |-> Tail(todo)])
             /\ UNCHANGED <<ldap, members, ldapFaults, failed, belongs>>
          \/ /\ failed' = failed \cup {mac}
             /\ Goes(t, [todo |-> Tail(todo)])
             /\ UNCHANGED <<ldap, members, belongs>>
       /\ UNCHANGED <<dns, mixed>>
  BY DEF RunCommand, RestOf, Others
<1>12. Allowed(E, M, r) <=> Possible(r) BY <1>5, AllowedIs, PerformIs
<1> HIDE DEF done, given
<1>a. CASE /\ Possible(r) /\ Perform(r)
           /\ Goes(t, [todo |-> RestOf(todo)])
           /\ belongs' = IF r.op = "delete" THEN [belongs EXCEPT ![mac] = {}] ELSE belongs
           /\ UNCHANGED <<ldapFaults, failed>>
  <2> DEFINE f == IF r.op = "delete" THEN {} ELSE b
  <2>1. ldap' = Changed(ldap, r) /\ members' = Moved(members, r) /\ Allowed(ldap, members, r)
    BY <1>a, PerformIs
  <2>2. /\ Directory(ldap') /\ Entries(ldap', mac) = Changed(E, r)
        /\ \A other \in Machine \ {mac} :
             OwnNames(other) => Entries(ldap', other) = Entries(ldap, other)
    BY <1>2, <1>3, <1>5, <2>1, ChangedIs
  <2>3. /\ Groups(members') /\ In(members', mac) = Moved(M, r)
        /\ \A other \in Machine \ {mac} :
             OwnNames(other) => In(members', other) = In(members, other)
    BY <1>2, <1>3, <1>5, <2>1, MovedIs
  <2>4. /\ belongs' \in [Machine -> SUBSET Group] /\ belongs'[mac] = f
        /\ \A other \in Machine \ {mac} : belongs'[other] = belongs[other]
    BY <1>2, <1>3, <1>a
  <2>5. thread' = [thread EXCEPT ![t] = done] BY <1>10, <1>a DEF Goes
  <2>6. mac \in Undisturbed =>
          OnTheWay(done, Entries(ldap', mac), In(members', mac), belongs'[mac])
    <3>1. mac \in Undisturbed => OnTheWay(done, Changed(E, r), Moved(M, r), f)
      BY <1>9, <1>12, <1>a DEF Steps, done
    <3> QED BY <2>2, <2>3, <2>4, <3>1
  <2>7. Undisturbed' = Undisturbed BY <1>11, <1>a DEF Undisturbed
  <2>8. UNCHANGED <<dns, mixed>> /\ failed \subseteq failed' /\ failed' \subseteq Machine
    BY <1>2, <1>11, <1>a
  <2>9. SystemsInv'
    <3> HIDE DEF E, M, b, f, r, todo
    <3> QED BY <1>3, <1>6, <1>7, <2>2, <2>3, <2>4, <2>5, <2>6, <2>7, <2>8, StepIs
  <2>10. ASSUME NEW m \in Undisturbed, StateOf(m) # {}, StateOf(m)' # {},
                StateOf(m)' # StateOf(m)
         PROVE  mac = m /\ c.arg.fai # Missing /\ StateOf(m)' = {c.arg.fai}
    <3>1. m \in Machine /\ OwnNames(m) BY DEF Undisturbed
    <3>2. StateOf(m) = States(Entries(ldap, m)) BY <1>2, <3>1, DirectoryIs DEF StateOf, DnsOf
    <3>3. StateOf(m)' = States(Entries(ldap', m))
      BY <2>2, <3>1, DirectoryIs DEF StateOf, DnsOf
    <3>4. CASE m # mac BY <2>2, <2>10, <3>1, <3>2, <3>3, <3>4
    <3>5. CASE m = mac
      <4>1. \/ States(E) = {} \/ States(Changed(E, r)) = {}
            \/ States(Changed(E, r)) = States(E)
            \/ c.arg.fai # Missing /\ States(Changed(E, r)) = {c.arg.fai}
        BY <1>9, <1>12, <1>a, <2>10, <3>5 DEF Steps
      <4> QED BY <2>2, <2>10, <3>2, <3>3, <3>5, <4>1
    <3> QED BY <3>4, <3>5
  <2> QED BY <2>9, <2>10
<1>b. CASE /\ ~Possible(r)
           /\ Goes(t, [todo |-> Tail(todo)])
           /\ UNCHANGED <<ldap, members, ldapFaults, failed, belongs>>
  <2>1. thread' = [thread EXCEPT ![t] = given] BY <1>10, <1>b DEF Goes
  <2>2. mac \in Undisturbed => Place(given, mac) BY <1>9, <1>12, <1>b DEF Steps, Place, given
  <2>3. UNCHANGED <<ldap, members, dns, mixed, failed, belongs>> BY <1>11, <1>b
  <2>4. SystemsInv'
    <3> HIDE DEF E, M, b, r, todo
    <3> QED BY <1>3, <1>6, <1>7, <2>1, <2>2, <2>3, QuietIs
  <2>5. \A m : StateOf(m)' = StateOf(m) BY <2>3 DEF StateOf, DnsOf
  <2> QED BY <2>4, <2>5
<1>c. CASE /\ failed' = failed \cup {mac}
           /\ Goes(t, [todo |-> Tail(todo)])
           /\ UNCHANGED <<ldap, members, belongs>>
  <2>1. thread' = [thread EXCEPT ![t] = given] BY <1>10, <1>c DEF Goes
  <2>2. mac \notin Undisturbed' BY <1>c DEF Undisturbed
  <2>3. UNCHANGED <<dns, mixed>> /\ failed \subseteq failed' /\ failed' \subseteq Machine
    BY <1>2, <1>3, <1>11, <1>c
  <2>4. /\ Directory(ldap') /\ Groups(members') /\ belongs' \in [Machine -> SUBSET Group]
        /\ \A other \in Machine :
             /\ Entries(ldap', other) = Entries(ldap, other)
             /\ In(members', other) = In(members, other) /\ belongs'[other] = belongs[other]
    BY <1>2, <1>c
  <2>5. SystemsInv'
    <3> HIDE DEF E, M, b, r, todo
    <3> QED BY <1>3, <1>6, <1>7, <2>1, <2>2, <2>3, <2>4, StepIs
  <2>6. \A m : StateOf(m)' = StateOf(m) BY <1>c DEF StateOf, DnsOf
  <2> QED BY <2>5, <2>6
<1> QED BY <1>11, <1>a, <1>b, <1>c

\* A handler starts: nothing is under way for its machine.
LEMMA CallStep ==
  ASSUME SystemsOK, SystemsInv, NEW t \in Thread, NEW mac \in Machine,
         NEW op \in {"detect", "activate", "fai", "set", "hello", "kill", "copy"},
         NEW arg \in Args(mac), op \in {"set", "fai"} => arg.fai \in State,
         Call(t, op, mac, arg)
  PROVE  SystemsInv'
<1> DEFINE c == [op |-> op, mac |-> mac, pc |-> "read", arg |-> arg, old |-> Missing,
                 new |-> Missing, todo |-> <<>>]
<1>1. [Idle EXCEPT !.op = op, !.mac = mac, !.arg = arg, !.pc = "read"] = c
  <2> DEFINE c1 == [Idle EXCEPT !.op = op]
             c2 == [c1 EXCEPT !.mac = mac]
             c3 == [c2 EXCEPT !.arg = arg]
  <2>1. c1 = [op |-> op, mac |-> Missing, pc |-> "done", arg |-> Missing, old |-> Missing,
              new |-> Missing, todo |-> <<>>]
    BY DEF Idle
  <2> HIDE DEF c1
  <2>2. c2 = [op |-> op, mac |-> mac, pc |-> "done", arg |-> Missing, old |-> Missing,
              new |-> Missing, todo |-> <<>>]
    BY <2>1
  <2> HIDE DEF c2
  <2>3. c3 = [op |-> op, mac |-> mac, pc |-> "done", arg |-> arg, old |-> Missing,
              new |-> Missing, todo |-> <<>>]
    BY <2>2
  <2> HIDE DEF c3
  <2>4. [c3 EXCEPT !.pc = "read"] = c BY <2>3
  <2>5. [Idle EXCEPT !.op = op, !.mac = mac, !.arg = arg, !.pc = "read"]
          = [c3 EXCEPT !.pc = "read"]
    BY DEF c1, c2, c3
  <2> QED BY <2>4, <2>5
<1>2. /\ thread[t].op = "idle" /\ thread' = [thread EXCEPT ![t] = c]
      /\ mixed' = IF \E u \in Thread : thread[u].mac = mac THEN mixed \cup {mac} ELSE mixed
      /\ UNCHANGED <<ldap, members, dns, failed, belongs>>
  BY <1>1 DEF Call
<1>3. c \in Handlers(mac)
  <2>1. <<>> \in Seq(Commands(mac)) OBVIOUS
  <2> HIDE DEF Args, Wholes, Commands
  <2> QED BY <2>1 DEF Handlers
<1>4. c.op = op /\ c.mac = mac /\ c.pc = "read" /\ c.arg = arg /\ c.todo = <<>> /\ c.new = Missing
  OBVIOUS
<1> HIDE DEF c
<1>5. Stands(c) BY <1>4 DEF Stands
<1>6. /\ TypeOK
      /\ thread \in [Thread -> {Idle} \cup UNION {Handlers(m) : m \in Machine}]
      /\ \A u \in Thread : thread[u] # Idle => Stands(thread[u])
      /\ mixed \subseteq Machine
  BY DEF SystemsInv, TypeOK
<1>7. thread'[t] = c /\ \A u \in Thread \ {t} : thread'[u] = thread[u] BY <1>2, <1>6
<1>8. \A m \in Machine : thread[t].mac # m BY <1>2, <1>6, ThreadIs DEF Idle, SystemsOK
<1>9. mixed \subseteq mixed' /\ mixed' \subseteq Machine BY <1>2, <1>6
<1>10. TypeOK'
  <2>1. thread' \in [Thread -> {Idle} \cup UNION {Handlers(m) : m \in Machine}]
    BY <1>2, <1>3, <1>6
  <2>2. \A u \in Thread : thread'[u] # Idle => Stands(thread'[u]) BY <1>5, <1>6, <1>7
  <2> QED BY <1>2, <1>6, <1>9, <2>1, <2>2 DEF TypeOK
<1>11. mac \in Machine \ mixed' => \A u \in Thread : thread[u].mac # mac BY <1>2
<1>12. Alone'
  <2> SUFFICES ASSUME NEW m \in Machine \ mixed', NEW u \in Thread, NEW v \in Thread,
                      thread'[u].mac = m, thread'[v].mac = m
               PROVE  u = v
    BY DEF Alone
  <2>1. thread[u].mac = m /\ thread[v].mac = m => u = v BY <1>9 DEF SystemsInv, Alone
  <2> QED BY <1>4, <1>7, <1>11, <2>1
<1>13. Kept'
  <2> SUFFICES ASSUME NEW m \in Undisturbed'
               PROVE  /\ (\A u \in Thread : thread'[u].mac # m) =>
                           Rests(Entries(ldap', m), In(members', m), belongs'[m])
                      /\ \A u \in Thread : thread'[u].mac = m =>
                           OnTheWay(thread'[u], Entries(ldap', m), In(members', m), belongs'[m])
    BY DEF Kept
  <2>1. /\ m \in Undisturbed /\ m \in Machine \ mixed'
        /\ Entries(ldap', m) = Entries(ldap, m) /\ In(members', m) = In(members, m)
        /\ belongs'[m] = belongs[m]
    BY <1>2, <1>9 DEF Undisturbed
  <2>2. /\ (\A u \in Thread : thread[u].mac # m) =>
             Rests(Entries(ldap, m), In(members, m), belongs[m])
        /\ \A u \in Thread : thread[u].mac = m =>
             OnTheWay(thread[u], Entries(ldap, m), In(members, m), belongs[m])
    BY <2>1 DEF SystemsInv, Kept
  <2>3. CASE m = mac
    <3>1. Rests(Entries(ldap, m), In(members, m), belongs[m]) BY <1>11, <2>1, <2>2, <2>3
    <3>2. OnTheWay(c, Entries(ldap, m), In(members, m), belongs[m])
      BY <1>4, <3>1 DEF OnTheWay, Waits
    <3>3. \A u \in Thread : thread'[u].mac = m => u = t BY <1>7, <1>11, <2>1, <2>3
    <3> QED BY <1>7, <2>1, <3>1, <3>2, <3>3
  <2>4. CASE m # mac
    <3>1. \A u \in Thread : thread'[u].mac = m <=> thread[u].mac = m
      BY <1>4, <1>7, <1>8, <2>1, <2>4
    <3>2. \A u \in Thread : thread'[u].mac = m => thread'[u] = thread[u] BY <1>4, <1>7, <2>4
    <3> QED BY <2>1, <2>2, <3>1, <3>2
  <2> QED BY <2>3, <2>4
<1> QED BY <1>10, <1>12, <1>13 DEF SystemsInv

\* The arguments of calls.
LEMMA ArgsAre ==
  ASSUME NEW mac
  PROVE  /\ NoArg \in Args(mac)
         /\ \A a \in Args(mac) :
              /\ \A ip \in IP : [a EXCEPT !.ip = ip] \in Args(mac)
              /\ \A dn \in DNs(mac) \cup {Missing} : [a EXCEPT !.dn = dn] \in Args(mac)
              /\ [a EXCEPT !.template = TRUE] \in Args(mac)
              /\ [a EXCEPT !.base = TRUE] \in Args(mac)
              /\ [a EXCEPT !.mode = "active"] \in Args(mac)
              /\ [a EXCEPT !.class = "gotoWorkstation"] \in Args(mac)
              /\ \A fai \in State :
                   [a EXCEPT !.fai = fai] \in Args(mac) /\ [a EXCEPT !.fai = fai].fai = fai
<1> HIDE DEF DNs, State
<1>1. NoArg \in Args(mac) BY DEF NoArg, Args
<1>2. ASSUME NEW a \in Args(mac)
      PROVE  /\ \A ip \in IP : [a EXCEPT !.ip = ip] \in Args(mac)
             /\ \A dn \in DNs(mac) \cup {Missing} : [a EXCEPT !.dn = dn] \in Args(mac)
             /\ [a EXCEPT !.template = TRUE] \in Args(mac)
             /\ [a EXCEPT !.base = TRUE] \in Args(mac)
             /\ [a EXCEPT !.mode = "active"] \in Args(mac)
             /\ [a EXCEPT !.class = "gotoWorkstation"] \in Args(mac)
             /\ \A fai \in State :
                  [a EXCEPT !.fai = fai] \in Args(mac) /\ [a EXCEPT !.fai = fai].fai = fai
  BY DEF Args
<1> QED BY <1>1, <1>2

\* Every message, job or command.
LEMMA CallsStep ==
  ASSUME SystemsOK, SystemsInv, NEW t \in Thread, NEW mac \in Machine, Calls(t, mac)
  PROVE  SystemsInv'
<1>1. ASSUME NEW ip \in IP, Call(t, "hello", mac, [NoArg EXCEPT !.ip = ip])
      PROVE  SystemsInv'
  <2>1. [NoArg EXCEPT !.ip = ip] \in Args(mac) BY ArgsAre
  <2> QED BY <1>1, <2>1, CallStep
<1>2. ASSUME NEW ip \in IP, NEW dn \in {Missing} \cup {<<DnsName(n), "moved">> : n \in Names[mac]},
             NEW told \in {NoArg, [NoArg EXCEPT !.fai = "softupdate", !.mode = "active"],
                           [NoArg EXCEPT !.class = "gotoWorkstation"]},
             Call(t, "detect", mac, [told EXCEPT !.ip = ip, !.dn = dn])
      PROVE  SystemsInv'
  <2> DEFINE u == [NoArg EXCEPT !.fai = "softupdate"]
             a == [told EXCEPT !.ip = ip]
             e == [told EXCEPT !.ip = ip, !.dn = dn]
  <2>1. told \in Args(mac)
    <3>1. NoArg \in Args(mac) /\ "softupdate" \in State BY ArgsAre DEF State
    <3>2. u \in Args(mac) BY <3>1, ArgsAre
    <3>3. [NoArg EXCEPT !.fai = "softupdate", !.mode = "active"] = [u EXCEPT !.mode = "active"]
      OBVIOUS
    <3> HIDE DEF u
    <3>4. [u EXCEPT !.mode = "active"] \in Args(mac) BY <3>2, ArgsAre
    <3>5. [NoArg EXCEPT !.class = "gotoWorkstation"] \in Args(mac) BY <3>1, ArgsAre
    <3> QED BY <3>1, <3>3, <3>4, <3>5
  <2>2. e = [a EXCEPT !.dn = dn] OBVIOUS
  <2>3. a \in Args(mac) BY <2>1, ArgsAre
  <2>4. dn \in DNs(mac) \cup {Missing}
    <3>1. \A n \in Names[mac] : DnsName(n) \in KinCns(mac)
      BY KinIs DEF Cns
    <3> QED BY <3>1 DEF DNs, Ous
  <2> HIDE DEF a
  <2>5. [a EXCEPT !.dn = dn] \in Args(mac) BY <2>3, <2>4, ArgsAre
  <2>6. e \in Args(mac) BY <2>2, <2>5
  <2>7. Call(t, "detect", mac, e) BY <1>2
  <2> HIDE DEF e
  <2> QED BY <2>6, <2>7, CallStep
<1>3. ASSUME NEW arg \in {NoArg, [NoArg EXCEPT !.template = TRUE], [NoArg EXCEPT !.base = TRUE]},
             Call(t, "activate", mac, arg)
      PROVE  SystemsInv'
  <2>1. NoArg \in Args(mac) BY ArgsAre
  <2>2. [NoArg EXCEPT !.template = TRUE] \in Args(mac) BY <2>1, ArgsAre
  <2>3. [NoArg EXCEPT !.base = TRUE] \in Args(mac) BY <2>1, ArgsAre
  <2>4. arg \in Args(mac) BY <2>1, <2>2, <2>3
  <2> QED BY <1>3, <2>4, CallStep
<1>4. ASSUME NEW op \in {"set", "fai"}, NEW fai \in {"softupdate", "error"},
             Call(t, op, mac, [NoArg EXCEPT !.fai = fai])
      PROVE  SystemsInv'
  <2> DEFINE a == [NoArg EXCEPT !.fai = fai]
  <2>1. fai \in State BY DEF State
  <2>2. a \in Args(mac) /\ a.fai = fai BY <2>1, ArgsAre
  <2>3. Call(t, op, mac, a) BY <1>4
  <2> HIDE DEF a
  <2> QED BY <2>1, <2>2, <2>3, CallStep
<1>5. ASSUME NEW op \in {"kill", "copy"}, Call(t, op, mac, NoArg)
      PROVE  SystemsInv'
  BY <1>5, ArgsAre, CallStep
<1> QED BY <1>1, <1>2, <1>3, <1>4, <1>5 DEF Calls

\* DNS is not looked at by the invariant.
LEMMA RenamedStep ==
  ASSUME SystemsOK, SystemsInv, NEW mac \in Machine, NEW name \in {Missing} \cup Names[mac],
         Renamed(mac, name)
  PROVE  SystemsInv'
<1>1. /\ dns' = [dns EXCEPT ![mac] = name]
      /\ UNCHANGED <<ldap, members, thread, mixed, failed, belongs>>
  BY DEF Renamed
<1>2. TypeOK'
  <2>1. Called(dns) BY DEF SystemsInv, TypeOK
  <2>2. Called(dns') BY <1>1, <2>1 DEF Called
  <2> QED BY <1>1, <2>2 DEF SystemsInv, TypeOK
<1>3. Alone' BY <1>1 DEF SystemsInv, Alone
<1>4. Kept' BY <1>1 DEF SystemsInv, Kept, Undisturbed
<1> QED BY <1>2, <1>3, <1>4 DEF SystemsInv

\* What there is to begin with.
First(m) == <<AutoName(m), Incoming>>
New(dn) == [mac |-> dn[1][2], fai |-> "localboot", mode |-> "locked",
            ip |-> Missing, class |-> "GOhard", hw |-> Missing]
LEMMA InitInv ==
  ASSUME SystemsOK, SystemsInit
  PROVE  SystemsInv
<1>1. mixed \subseteq Machine BY DEF SystemsInit
<1>2. PICK known \in SUBSET (Machine \ mixed) :
        ldap = Overlay([dn \in {Template} |-> TheTemplate],
               [dn \in {First(m) : m \in known} |-> New(dn)])
  BY DEF SystemsInit, First, New
<1>3. /\ members = [g \in Group |-> {Template}] /\ dns = [m \in Machine |-> Missing]
      /\ thread = [t \in Thread |-> Idle] /\ failed = {} /\ belongs = [m \in Machine |-> {}]
  BY DEF SystemsInit
<1>4. ASSUME NEW m \in Machine PROVE First(m) \in DNs(m) /\ New(First(m)) \in Objects(m)
  <2>1. m \in Kin(m) /\ AutoName(m) \in KinCns(m) BY KinIs DEF Cns
  <2>2. First(m)[1][2] = m BY DEF First, AutoName
  <2> QED BY <2>1, <2>2 DEF First, New, DNs, Ous, Objects, State
<1>5. /\ DOMAIN ldap = {Template} \cup {First(m) : m \in known} /\ ldap[Template] = TheTemplate
      /\ \A dn \in DOMAIN ldap \ {Template} : ldap[dn] = New(dn)
      /\ ldap = [dn \in DOMAIN ldap |-> ldap[dn]]
  BY <1>2 DEF Overlay
<1>6. \A m \in Machine :
        /\ Template \notin DNs(m) /\ DNs(m) \subseteq AllDNs
        /\ \A other \in Machine : other # m /\ OwnNames(other) => DNs(m) \cap DNs(other) = {}
        /\ \A other \in Machine : DNs(m) \cap DNs(other) # {} => Objects(other) = Objects(m)
  BY DNsIs
<1>7. ASSUME NEW m \in Machine, NEW dn \in DOMAIN ldap \cap DNs(m)
      PROVE  ldap[dn] \in Objects(m) /\ (OwnNames(m) => dn = First(m))
  <2>1. dn # Template BY <1>6
  <2>2. PICK k \in known : dn = First(k) BY <1>5, <2>1
  <2>0. known \subseteq Machine OBVIOUS
  <2>3. dn \in DNs(k) \cap DNs(m) /\ New(dn) \in Objects(k) BY <1>4, <2>0, <2>2
  <2>4. OwnNames(m) => k = m BY <1>6, <2>0, <2>3
  <2>5. Objects(k) = Objects(m) BY <1>6, <2>0, <2>3
  <2> QED BY <1>5, <2>1, <2>2, <2>3, <2>4, <2>5
<1>8. Directory(ldap)
  <2>0. known \subseteq Machine OBVIOUS
  <2>1. ASSUME NEW k \in known PROVE First(k) \in AllDNs
    BY <1>4, <1>6, <2>0
  <2>2. Template \in AllDNs BY DEF AllDNs
  <2>3. DOMAIN ldap \subseteq AllDNs BY <1>5, <2>1, <2>2
  <2> QED BY <1>5, <1>7, <2>3 DEF Directory
<1>9. Groups(members) BY <1>3 DEF Groups, AllDNs
<1>10. TypeOK BY <1>1, <1>3, <1>8, <1>9 DEF TypeOK, Called
<1>11. \A m \in Machine : \A t \in Thread : thread[t].mac # m BY <1>3 DEF Idle, SystemsOK
<1>12. Alone BY <1>11 DEF Alone
<1>13. ASSUME NEW m \in Machine, OwnNames(m)
       PROVE  Rests(Entries(ldap, m), In(members, m), belongs[m])
  <2> DEFINE D == DOMAIN ldap \cap DNs(m)
  <2>1. DOMAIN Entries(ldap, m) = D /\ belongs[m] = {} BY <1>3 DEF Entries
  <2>2. \A g \in Group : In(members, m)[g] = {} BY <1>3, <1>6 DEF In
  <2>3. D = {} \/ D = {First(m)} BY <1>7, <1>13
  <2> HIDE DEF D
  <2> QED BY <2>1, <2>2, <2>3 DEF Rests, Joined
<1>14. Kept BY <1>11, <1>13 DEF Kept, Undisturbed
<1> QED BY <1>10, <1>12, <1>14 DEF SystemsInv

\* Every step keeps the invariant, and the state unless a handler was told another.
LEMMA NextInv ==
  ASSUME SystemsOK, SystemsInv, [SystemsNext]_systems
  PROVE  /\ SystemsInv'
         /\ \A mac \in Undisturbed :
              (StateOf(mac) # {} /\ StateOf(mac)' # {} /\ StateOf(mac)' # StateOf(mac)) =>
                \E t \in Thread : /\ thread[t].mac = mac /\ thread[t].arg.fai # Missing
                                 /\ StateOf(mac)' = {thread[t].arg.fai}
<1>0. UNCHANGED ldap => \A mac : StateOf(mac)' = StateOf(mac) BY DEF StateOf, DnsOf
<1>1. ASSUME NEW t \in Thread, NEW mac \in Machine, Calls(t, mac)
      PROVE  SystemsInv' /\ UNCHANGED ldap
  <2>1. UNCHANGED ldap BY <1>1 DEF Calls, Call
  <2> QED BY <1>1, <2>1, CallsStep
<1>2. ASSUME NEW t \in Thread,
             \/ Done(t) \/ ReadSystem(t) \/ DoReplace(t) \/ Reread(t)
             \/ PrepareDetected(t) \/ PrepareActivated(t) \/ PrepareCopy(t) \/ JoinCopy(t)
             \/ Set(t) \/ ForceState(t) \/ Forced(t)
      PROVE  SystemsInv' /\ UNCHANGED ldap
  <2>1. UNCHANGED ldap
    BY <1>2 DEF Done, ReadSystem, DoReplace, Reread, PrepareDetected, PrepareActivated,
                PrepareCopy, JoinCopy, Set, ForceState, Forced, Search, Quiet
  <2>2. SystemsInv'
    BY <1>2, DoneStep, ReadSystemStep, DoReplaceStep, RereadStep, PrepareDetectedStep,
       PrepareActivatedStep, PrepareCopyStep, JoinCopyStep, SetStep, ForceStateStep, ForcedStep
  <2> QED BY <2>1, <2>2
<1>3. ASSUME NEW mac \in Machine, NEW name \in {Missing} \cup Names[mac], Renamed(mac, name)
      PROVE  SystemsInv' /\ UNCHANGED ldap
  BY <1>3, RenamedStep DEF Renamed
<1>4. ASSUME UNCHANGED systems PROVE SystemsInv' /\ UNCHANGED ldap
  BY <1>4 DEF systems, SystemsInv, TypeOK, Alone, Kept, Undisturbed
<1>5. ASSUME NEW t \in Thread, RunCommand(t)
      PROVE  /\ SystemsInv'
             /\ \A mac \in Undisturbed :
                  (StateOf(mac) # {} /\ StateOf(mac)' # {} /\ StateOf(mac)' # StateOf(mac)) =>
                    /\ thread[t].mac = mac /\ thread[t].arg.fai # Missing
                    /\ StateOf(mac)' = {thread[t].arg.fai}
  BY <1>5, RunCommandStep
<1>6. \/ UNCHANGED systems
      \/ \E t \in Thread, mac \in Machine : Calls(t, mac)
      \/ \E t \in Thread : RunCommand(t)
      \/ \E t \in Thread :
           \/ Done(t) \/ ReadSystem(t) \/ DoReplace(t) \/ Reread(t)
           \/ PrepareDetected(t) \/ PrepareActivated(t) \/ PrepareCopy(t) \/ JoinCopy(t)
           \/ Set(t) \/ ForceState(t) \/ Forced(t)
      \/ \E mac \in Machine : \E name \in {Missing} \cup Names[mac] : Renamed(mac, name)
  BY DEF SystemsNext
<1> QED BY <1>0, <1>1, <1>2, <1>3, <1>4, <1>5, <1>6

\* At every moment there is at most one object.
LEMMA OneEntry ==
  ASSUME NEW c, NEW E, NEW M, NEW b, OnTheWay(c, E, M, b)
  PROVE  DOMAIN E = {} \/ \E dn : DOMAIN E = {dn}
<1>1. CASE Rests(E, M, b) BY <1>1 DEF Rests
<1>2. CASE Known(c, E) BY <1>2 DEF Known
<1>3. CASE Waits(c, E, M, b) BY <1>1, <1>2, <1>3 DEF Waits, Fresh
<1>4. CASE Setting(c, E, M, b) BY <1>1, <1>4 DEF Setting
<1>5. CASE Joining(c, E, M, b) BY <1>5 DEF Joining
<1>6. CASE Replacing(c, E, M, b)
  <2> DEFINE command == Head(c.todo)
  <2>1. CASE Adding(c, command, E, M, b) BY <2>1 DEF Adding
  <2>2. CASE Modifying(c, command, E, M, b) BY <1>1, <2>2 DEF Modifying
  <2>3. CASE Renaming(c, command, E, M, b) BY <1>1, <2>3 DEF Renaming
  <2>4. CASE Swapping(c, command, E, M, b) BY <2>4 DEF Swapping
  <2>5. CASE Deleting(c, command, E, M, b) BY <1>1, <2>5 DEF Deleting
  <2>6. CASE Leaving(c, command, E, M, b) BY <2>6 DEF Leaving
  <2> HIDE DEF command
  <2>7. \/ Adding(c, command, E, M, b) \/ Modifying(c, command, E, M, b)
        \/ Renaming(c, command, E, M, b) \/ Swapping(c, command, E, M, b)
        \/ Deleting(c, command, E, M, b) \/ Leaving(c, command, E, M, b)
    BY <1>6 DEF Replacing, command
  <2> QED BY <2>1, <2>2, <2>3, <2>4, <2>5, <2>6, <2>7
<1>7. CASE Runs(c, E, M, b) BY <1>2, <1>4, <1>5, <1>6, <1>7 DEF Runs
<1> QED BY <1>3, <1>7 DEF OnTheWay

\* The property follows.
LEMMA InvKeepsMembership ==
  ASSUME SystemsOK, SystemsInv
  PROVE  MembershipKept
<1> SUFFICES ASSUME NEW mac \in Undisturbed
             PROVE  /\ Cardinality(DnsOf(mac)) <= 1
                    /\ AtRest => \A g \in Group :
                         {dn \in members[g] : dn[1] \in Cns(mac)}
                           = IF g \in belongs[mac] THEN DnsOf(mac) ELSE {}
  BY DEF MembershipKept
<1> DEFINE E == Entries(ldap, mac)
           M == In(members, mac)
           b == belongs[mac]
<1>1. mac \in Machine /\ OwnNames(mac) /\ TypeOK BY DEF Undisturbed, SystemsInv
<1>2. /\ DOMAIN E = DnsOf(mac) /\ b \in SUBSET Group
      /\ \A g \in Group : M[g] = {dn \in members[g] : dn[1] \in Cns(mac)}
  BY <1>1, SeenIs DEF TypeOK
<1>3. /\ (\A t \in Thread : thread[t].mac # mac) => Rests(E, M, b)
      /\ \A t \in Thread : thread[t].mac = mac => OnTheWay(thread[t], E, M, b)
  BY DEF SystemsInv, Kept
<1> HIDE DEF E, M, b
<1>4. DOMAIN E = {} \/ \E dn : DOMAIN E = {dn}
  <2>1. CASE Rests(E, M, b) BY <2>1 DEF Rests
  <2> QED BY <1>3, <2>1, OneEntry
<1>5. Cardinality(DnsOf(mac)) <= 1
  <2>1. Cardinality({}) = 0 /\ \A x : Cardinality({x}) = 1 BY FS_EmptySet, FS_Singleton
  <2>2. CASE DOMAIN E = {}
    <3>1. DnsOf(mac) = {} BY <1>2, <2>2
    <3>2. Cardinality(DnsOf(mac)) = 0 BY <2>1, <3>1
    <3> QED BY <3>2
  <2>3. CASE \E dn : DOMAIN E = {dn}
    <3>1. PICK dn : DnsOf(mac) = {dn} BY <1>2, <2>3
    <3>2. Cardinality(DnsOf(mac)) = 1 BY <2>1, <3>1
    <3> QED BY <3>2
  <2> QED BY <1>4, <2>2, <2>3
<1>6. ASSUME AtRest, NEW g \in Group
      PROVE  {dn \in members[g] : dn[1] \in Cns(mac)} = IF g \in b THEN DnsOf(mac) ELSE {}
  <2>1. \A t \in Thread : thread[t] = Idle BY <1>1, <1>6, ThreadIs DEF AtRest
  <2>2. \A t \in Thread : thread[t].mac # mac BY <1>1, <2>1 DEF Idle, SystemsOK
  <2>3. Rests(E, M, b) BY <1>3, <2>2
  <2>4. M[g] = IF g \in b THEN DOMAIN E ELSE {} BY <2>3 DEF Rests, Joined
  <2> QED BY <1>2, <2>4
<1> QED BY <1>5, <1>6 DEF b

-----------------------------------------------------------------------------
\* Of a machine whose names are its own, whatever names the others share, and whose
\* handlers ran one after the other and reached LDAP, there is one object at most,
\* however the commands of SystemReplace and SystemAddToGroups, the renaming by
\* here_i_am and by messages, the copy of sibridge and the deletion by FAIReboot
\* follow each other; when all is done the object is in the groups that the system
\* was put into, and no group keeps a dn that is gone.
THEOREM MembershipTheorem == SystemsOK => (SystemsSpec => []MembershipKept)
<1> SUFFICES ASSUME SystemsOK PROVE SystemsSpec => []MembershipKept OBVIOUS
<1>1. SystemsInit => SystemsInv BY InitInv
<1>2. SystemsInv /\ [SystemsNext]_systems => SystemsInv' BY NextInv
<1>3. SystemsInv => MembershipKept BY InvKeepsMembership
<1> QED BY <1>1, <1>2, <1>3, PTL DEF SystemsSpec

\* The faiState that LDAP has of such a machine is changed only by a handler that was
\* told a state, by its message, its job or FAIReboot, and it becomes that state:
\* job_trigger_activate_new, here_i_am, copy and a detected_hardware without a state
\* write back the state that they read, of the object they replace.
THEOREM StateTheorem == SystemsOK => (SystemsSpec => StateIsKept)
<1> SUFFICES ASSUME SystemsOK PROVE SystemsSpec => StateIsKept OBVIOUS
<1> DEFINE A == \A mac \in Undisturbed :
                  (StateOf(mac) # {} /\ StateOf(mac)' # {} /\ StateOf(mac)' # StateOf(mac)) =>
                    \E t \in Thread : /\ thread[t].mac = mac /\ thread[t].arg.fai # Missing
                                     /\ StateOf(mac)' = {thread[t].arg.fai}
<1>1. SystemsInit => SystemsInv BY InitInv
<1>2. SystemsInv /\ [SystemsNext]_systems => SystemsInv' BY NextInv
<1>3. SystemsInv /\ [SystemsNext]_systems => [A]_systems BY NextInv
<1>4. StateIsKept <=> [][A]_systems BY DEF StateIsKept
<1> QED BY <1>1, <1>2, <1>3, <1>4, PTL DEF SystemsSpec
=============================================================================
