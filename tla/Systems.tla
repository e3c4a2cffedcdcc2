------------------------------ MODULE Systems ------------------------------
(***************************************************************************)
(* The systems in LDAP and who changes them: the handlers of               *)
(* detected_hardware, job_trigger_activate_new and here_i_am, the actions  *)
(* of jobs (SystemSetState, FAIReboot) and two commands of sibridge.  Each *)
(* reads an object with one command, ldapsearch, and writes it with others *)
(* (ldapmodify), and all of them run at the same time.                     *)
(*                                                                         *)
(* A dn is <<cn, ou>>; the attributes are those that somebody reads or     *)
(* compares.  An LDAP server does one LDIF record at a time; ldapmodify    *)
(* stops at the first that fails.  Objects of local printers are left out. *)
(***************************************************************************)
EXTENDS Naturals, Sequences, FiniteSets, SequencesExt

CONSTANTS Machine,  \* MAC addresses
          Missing,  \* no value, no object
          Names,    \* machine -> the names that DNS or a message may give it
          IP,
          Group,    \* object groups
          Thread,   \* bound: handlers at the same time
          MaxCalls, \* bound: handlers in all
          MaxLDAPFaults \* bound: commands that fail as LDAP cannot be reached

ASSUME NamesAssumption == DOMAIN Names = Machine

VARIABLES ldap,   \* dn -> object
          members,\* group -> dns
          dns,    \* what DNS tells of a machine
          thread, \* the handlers
          calls, ldapFaults,
          mixed,  \* machines of which two handlers ran at once
          failed, \* machines of which a handler's command failed
          belongs \* machine -> the groups it was put into

systems == <<ldap, members, dns, thread, calls, ldapFaults, mixed, failed, belongs>>

Attribute == {"fai", "mode", "ip", "class", "hw"}
AutoName(mac) == <<"auto", mac>>
DnsName(name) == <<"dns", name>>
Incoming == "incoming"
Template == <<<<"template", Missing>>, "ou">>
TheTemplate == [mac |-> "template", fai |-> "install", mode |-> "active", ip |-> Missing,
                class |-> "gotoWorkstation", hw |-> Missing]
Idle == [op |-> "idle", mac |-> Missing, pc |-> "done", arg |-> Missing, old |-> Missing,
         new |-> Missing, todo |-> <<>>]

\* A function with some of its values changed, or added.
Overlay(changes, f) ==
  [x \in DOMAIN changes \cup DOMAIN f |-> IF x \in DOMAIN changes THEN changes[x] ELSE f[x]]
TemplateData == Overlay([dn |-> Template], TheTemplate)

-----------------------------------------------------------------------------
\* SystemGetAllDataForMAC without groups: the one object with the MAC, with its
\* dn, or Missing.
DnsOf(mac) == {dn \in DOMAIN ldap : ldap[dn].mac = mac}
GetAllData(mac) ==
  IF Cardinality(DnsOf(mac)) # 1 THEN Missing
  ELSE LET dn == CHOOSE d \in DnsOf(mac) : TRUE IN Overlay([dn |-> dn], ldap[dn])

GroupsWithMember(dn) == {g \in Group : dn \in members[g]}

\* SystemFillInMissingData: address and name are not copied, but the ou is if there
\* is no dn.  Classes are added to those there are, so that a workstation is left one.
FillIn(system, defaults) ==
  [a \in DOMAIN system |->
     IF a = "dn" /\ system.dn[2] = Missing THEN <<system.dn[1], defaults.dn[2]>>
     ELSE IF \/ a \in Attribute \ {"ip"} /\ system[a] = Missing
             \/ a = "class" /\ defaults.class = "gotoWorkstation" THEN defaults[a]
     ELSE system[a]]

\* As Defaults below, though there is a state.
DefaultsAlways(system, mode) ==
  [system EXCEPT !.class = IF @ = Missing THEN "GOhard" ELSE @,
                 !.mode = IF @ = Missing THEN mode ELSE @,
                 !.fai = "install",
                 !.dn = <<@[1], IF @[2] = Missing THEN Incoming ELSE @[2]>>]

Defaults(system, mode) ==
  [system EXCEPT !.class = IF @ = Missing THEN "GOhard" ELSE @,
                 !.mode = IF @ = Missing THEN mode ELSE @,
                 !.fai = IF @ = Missing THEN "install" ELSE @,
                 !.dn = <<@[1], IF @[2] = Missing THEN Incoming ELSE @[2]>>]

-----------------------------------------------------------------------------
\* The records of LDIF that a command holds.
Record(op, dn, to, changes) == [op |-> op, dn |-> dn, to |-> to, changes |-> changes]
Join(g, dn) == Record("join", g, dn, Missing)
Swap(g, dn, to) == Record("swap", g, <<dn, to>>, Missing)
LeaveGroup(g, dn) == Record("leave", g, dn, Missing)
PerGroup(groups, R(_)) == [n \in 1..Cardinality(groups) |-> R(SetToSeq(groups)[n])]

\* SystemAddToGroups: a command for each group.
AddToGroups(dn, groups) == PerGroup(groups, LAMBDA g : <<Join(g, dn)>>)

Data(system) == [a \in DOMAIN system \ {"dn"} |-> system[a]]

\* SystemReplace: one command.  All attributes of the new object are written, the
\* ones that have not changed too.
Delete(old) ==
  <<Record("delete", old.dn, Missing, Missing)>>
  \o PerGroup(GroupsWithMember(old.dn), LAMBDA g : LeaveGroup(g, old.dn))
Create(new) == <<Record("add", new.dn, Missing, Data(new))>>
\* As Modify below, without the groups.
ModifyAlone(old, new) ==
  <<Record("modify", old.dn, Data(old), Data(new))>>
  \o IF new.dn = old.dn THEN <<>> ELSE <<Record("rename", old.dn, new.dn, Missing)>>

Modify(old, new) ==
  <<Record("modify", old.dn, Data(old), Data(new))>>
  \o IF new.dn = old.dn THEN <<>>
     ELSE <<Record("rename", old.dn, new.dn, Missing)>>
          \o PerGroup(GroupsWithMember(old.dn), LAMBDA g : Swap(g, old.dn, new.dn))

Replace(old, new) ==
  IF new = Missing THEN Delete(old) ELSE IF old = Missing THEN Create(new)
  ELSE Modify(old, new)

\* What a record does to the directory, if it can be done.
Possible(r) ==
  CASE r.op = "add" -> r.dn \notin DOMAIN ldap
    [] r.op = "delete" -> r.dn \in DOMAIN ldap
    [] r.op = "set" -> r.dn \in DOMAIN ldap
    [] r.op = "modify" ->
         /\ r.dn \in DOMAIN ldap
         /\ \A a \in Attribute :
              (r.to[a] = Missing /\ r.changes[a] # Missing) => ldap[r.dn][a] = Missing
    [] r.op = "rename" -> r.dn \in DOMAIN ldap /\ r.to \notin DOMAIN ldap
    [] r.op = "join" -> r.to \notin members[r.dn]
    [] r.op = "swap" -> r.to[1] \in members[r.dn] /\ r.to[2] \notin members[r.dn]
    [] r.op = "leave" -> r.to \in members[r.dn]

Besides(f, x) == [y \in DOMAIN f \ {x} |-> f[y]]
Perform(r) ==
  /\ ldap' =
       CASE r.op = "add" -> Overlay([dn \in {r.dn} |-> r.changes], ldap)
         [] r.op = "delete" -> Besides(ldap, r.dn)
         [] r.op = "set" -> [ldap EXCEPT ![r.dn].fai = r.changes]
         [] r.op = "modify" ->
              [ldap EXCEPT ![r.dn] = [a \in DOMAIN @ |->
                 IF r.changes[a] # Missing THEN r.changes[a] ELSE @[a]]]
         [] r.op = "rename" -> Overlay([dn \in {r.to} |-> ldap[r.dn]], Besides(ldap, r.dn))
         [] OTHER -> ldap
  /\ members' =
       CASE r.op = "join" -> [members EXCEPT ![r.dn] = @ \cup {r.to}]
         [] r.op = "swap" -> [members EXCEPT ![r.dn] = (@ \ {r.to[1]}) \cup {r.to[2]}]
         [] r.op = "leave" -> [members EXCEPT ![r.dn] = @ \ {r.to}]
         [] OTHER -> members

-----------------------------------------------------------------------------
\* The handlers.  One runs the commands it has to run before it goes on.
Ready(t, pc) == thread[t].pc = pc /\ thread[t].todo = <<>>
Goes(t, changes) == thread' = [thread EXCEPT ![t] = Overlay(changes, @)]
Others == UNCHANGED <<dns, calls, mixed>>
Quiet == UNCHANGED <<ldap, members, ldapFaults, failed, belongs>> /\ Others

\* A call: the message, job or command for a machine.  Of a machine of which two ran
\* at once nothing is claimed, so no more come.
Call(t, op, mac, arg) ==
  /\ thread[t].op = "idle" /\ calls < MaxCalls /\ mac \notin mixed
  /\ calls' = calls + 1
  /\ thread' = [thread EXCEPT ![t] =
                  [Idle EXCEPT !.op = op, !.mac = mac, !.arg = arg, !.pc = "read"]]
  /\ mixed' = IF \E u \in Thread : thread[u].mac = mac THEN mixed \cup {mac} ELSE mixed
  /\ UNCHANGED <<ldap, members, dns, ldapFaults, failed, belongs>>

\* ldapsearch, which may fail; many callers take that for an object not found.
Search(t, Then(_)) ==
  \/ /\ Then(GetAllData(thread[t].mac))
     /\ UNCHANGED <<ldap, members, ldapFaults, failed, belongs>> /\ Others
  \/ /\ ldapFaults < MaxLDAPFaults /\ ldapFaults' = ldapFaults + 1
     /\ failed' = failed \cup {thread[t].mac}
     /\ Then(Missing)
     /\ UNCHANGED <<ldap, members, belongs>> /\ Others

\* The next record of the command; what is left of a command that fails is not done.
RunCommand(t) ==
  LET command == Head(thread[t].todo)
      r == Head(command)
      mac == thread[t].mac
      rest == IF Len(command) = 1 THEN Tail(thread[t].todo)
              ELSE <<Tail(command)>> \o Tail(thread[t].todo)
  IN /\ thread[t].todo # <<>>
     /\ \/ /\ Possible(r) /\ Perform(r)
           /\ Goes(t, [todo |-> rest])
           /\ belongs' = IF r.op = "delete" THEN [belongs EXCEPT ![mac] = {}] ELSE belongs
           /\ UNCHANGED <<ldapFaults, failed>>
        \/ /\ ~Possible(r)
           /\ Goes(t, [todo |-> Tail(thread[t].todo)])
           /\ UNCHANGED <<ldap, members, ldapFaults, failed, belongs>>
        \/ /\ ldapFaults < MaxLDAPFaults /\ ldapFaults' = ldapFaults + 1
           /\ failed' = failed \cup {mac}
           /\ Goes(t, [todo |-> Tail(thread[t].todo)])
           /\ UNCHANGED <<ldap, members, belongs>>
     /\ Others

Done(t) ==
  /\ Ready(t, "end") /\ thread' = [thread EXCEPT ![t] = Idle] /\ Quiet

\* What every handler does first.
ReadSystem(t) ==
  LET c == thread[t]
      Then(old) ==
        Goes(t, [old |-> old, pc |->
          CASE c.op \in {"detect", "activate"} -> "prepare"
            [] c.op = "fai" -> "force"
            [] OTHER -> IF old = Missing THEN "end" ELSE
                        [set |-> "set", hello |-> "reread", kill |-> "replace",
                         copy |-> "prepare"][c.op]])
  IN Ready(t, "read") /\ Search(t, Then)

\* SystemReplace with what was read and made; the groups are looked up.
DoReplace(t) ==
  /\ Ready(t, "replace")
  /\ Goes(t, [todo |-> <<Replace(thread[t].old, thread[t].new)>>,
              pc |-> IF thread[t].op = "copy" THEN "join" ELSE "end"])
  /\ Quiet

-----------------------------------------------------------------------------
\* detected_hardware: what the message has is completed from the old object, or from
\* the first template, whose groups the new system joins.  Nobody looks whether there
\* is a system of that name.
NewName(mac) == IF dns[mac] = Missing THEN AutoName(mac) ELSE DnsName(dns[mac])
Detected(c) ==
  LET found == [mac |-> c.mac, fai |-> c.arg.fai, mode |-> c.arg.mode,
                class |-> c.arg.class, hw |-> "found", ip |-> c.arg.ip,
                dn |-> IF c.arg.dn # Missing THEN c.arg.dn
                       ELSE IF c.old # Missing THEN c.old.dn ELSE <<NewName(c.mac), Missing>>]
  IN Defaults(FillIn(found, IF c.old # Missing THEN c.old ELSE TemplateData),
              "locked")

PrepareDetected(t) ==
  LET c == thread[t]
      new == Detected(c)
      next == [pc |-> "replace", new |-> new,
               todo |-> IF c.old # Missing THEN <<>>
                        ELSE AddToGroups(new.dn, GroupsWithMember(Template))]
  IN /\ c.op = "detect" /\ Ready(t, "prepare")
     /\ Goes(t, next)
     /\ belongs' = IF c.old # Missing THEN belongs
                   ELSE [belongs EXCEPT ![c.mac] = @ \cup GroupsWithMember(Template)]
     /\ UNCHANGED <<ldap, members, ldapFaults, failed>> /\ Others

\* job_trigger_activate_new: where the system goes, and what it becomes.
Ou(c) ==
  IF c.arg.base
  THEN IF c.arg.template \/ (c.old # Missing /\ c.old.class = "gotoWorkstation")
       THEN "workstations" ELSE Incoming
  ELSE IF c.arg.template THEN Template[2]
       ELSE IF c.old # Missing THEN c.old.dn[2] ELSE Incoming
Activated(c) ==
  LET blank == [mac |-> c.mac, fai |-> Missing, mode |-> Missing, class |-> Missing, hw |-> Missing,
                ip |-> Missing, dn |-> <<AutoName(c.mac), Ou(c)>>]
      system == IF c.old = Missing
                THEN IF c.arg.template THEN FillIn(blank, TemplateData)
                     ELSE blank
                ELSE [c.old EXCEPT !.dn = <<@[1], Ou(c)>>]
  IN [Defaults(system, "active") EXCEPT !.mode = "active"]

PrepareActivated(t) ==
  LET c == thread[t]
      new == Activated(c)
      joins == c.old = Missing /\ c.arg.template
  IN /\ c.op = "activate" /\ Ready(t, "prepare")
     /\ Goes(t, [pc |-> "replace", new |-> new,
                 todo |-> IF joins THEN AddToGroups(new.dn, GroupsWithMember(Template))
                          ELSE <<>>])
     /\ belongs' = IF ~joins THEN belongs
                   ELSE [belongs EXCEPT ![c.mac] = @ \cup GroupsWithMember(Template)]
     /\ UNCHANGED <<ldap, members, ldapFaults, failed>> /\ Others

\* sibridge's copy: data that is missing, and the place of a system in Incoming, are
\* taken from a template; the groups are joined afterwards.
PrepareCopy(t) ==
  LET old == thread[t].old
      place == [old EXCEPT !.dn = <<@[1], IF @[2] = Incoming THEN Missing ELSE @[2]>>]
      filled == FillIn(place, TemplateData)
  IN /\ thread[t].op = "copy" /\ Ready(t, "prepare")
     /\ Goes(t, [pc |-> "replace",
                 new |-> [filled EXCEPT !.mode = IF old.mode # "active" THEN "locked" ELSE @]])
     /\ Quiet
JoinCopy(t) ==
  LET groups == GroupsWithMember(Template)
  IN /\ Ready(t, "join")
     /\ Goes(t, [pc |-> "end", todo |-> AddToGroups(thread[t].new.dn, groups)])
     /\ belongs' = [belongs EXCEPT ![thread[t].mac] = @ \cup groups]
     /\ UNCHANGED <<ldap, members, ldapFaults, failed>> /\ Others

\* here_i_am reads once more, after a second, if name or address have changed.
Reread(t) ==
  LET c == thread[t]
      update_ip == c.old.ip # c.arg.ip
      update_name == dns[c.mac] # Missing /\ c.old.dn[1] # DnsName(dns[c.mac])
      Then(old) ==
        LET ip == IF update_ip THEN c.arg.ip ELSE old.ip
            cn == IF update_name THEN DnsName(dns[c.mac]) ELSE old.dn[1]
        IN IF old = Missing THEN Goes(t, [pc |-> "end"])
           ELSE Goes(t, [old |-> old, pc |-> "replace",
                         new |-> [old EXCEPT !.ip = ip, !.dn = <<cn, @[2]>>]])
  IN /\ Ready(t, "reread")
     /\ IF update_ip \/ update_name THEN Search(t, Then)
        ELSE Goes(t, [pc |-> "end"]) /\ Quiet

\* SystemSetState.
SetState(dn, value) == <<<<Record("set", dn, Missing, value)>>>>
Set(t) ==
  /\ Ready(t, "set")
  /\ Goes(t, [pc |-> "end", todo |-> SetState(thread[t].old.dn, thread[t].arg.fai)])
  /\ Quiet

\* FAIReboot with SystemForceFAIState: the state is set, jobs are removed, and when
\* they are gone it is set again; then a system that was in Incoming is deleted.
ForceState(t) ==
  LET c == thread[t]
      Then(found) ==
        Goes(t, [pc |-> IF c.pc = "force" THEN "jobs" ELSE "forced",
                 todo |-> IF found = Missing THEN <<>> ELSE SetState(found.dn, c.arg.fai)])
  IN /\ Ready(t, "force") \/ Ready(t, "jobs")
     /\ Search(t, Then)
Forced(t) ==
  LET old == thread[t].old
  IN /\ Ready(t, "forced")
     /\ Goes(t, [pc |-> "end",
                 todo |-> IF old # Missing /\ old.dn[2] = Incoming THEN <<Replace(old, Missing)>>
                          ELSE <<>>])
     /\ Quiet

-----------------------------------------------------------------------------
\* DNS changes between calls.
AtRest == \A t \in Thread : thread[t].op = "idle"
Renamed(mac, name) ==
  /\ calls < MaxCalls /\ AtRest /\ mac \notin mixed /\ dns[mac] # name
  /\ dns' = [dns EXCEPT ![mac] = name]
  /\ UNCHANGED <<ldap, members, thread, calls, ldapFaults, mixed, failed, belongs>>

\* Some machines have an object to begin with.  There are MaxCalls calls for one
\* machine, or one less for it with faults or for several without.
SystemsInit ==
  /\ LET one == CHOOSE m \in Machine : TRUE IN
       \/ calls = 0 /\ ldapFaults = MaxLDAPFaults /\ mixed = Machine \ {one}
       \/ calls = 1 /\ ldapFaults = 0 /\ mixed = Machine \ {one}
       \/ calls = 1 /\ ldapFaults = MaxLDAPFaults /\ mixed = {}
  /\ \E known \in SUBSET (Machine \ mixed) :
       ldap = Overlay([dn \in {Template} |-> TheTemplate],
              [dn \in {<<AutoName(m), Incoming>> : m \in known} |->
                 [mac |-> dn[1][2], fai |-> "localboot", mode |-> "locked", ip |-> Missing,
                  class |-> "GOhard", hw |-> Missing]])
  /\ members = [g \in Group |-> {Template}]
  /\ dns = [m \in Machine |-> Missing]
  /\ thread = [t \in Thread |-> Idle]
  /\ failed = {}
  /\ belongs = [m \in Machine |-> {}]

NoArg == [ip |-> Missing, dn |-> Missing, template |-> FALSE, base |-> FALSE, fai |-> Missing,
          mode |-> Missing, class |-> Missing]
Calls(t, mac) ==
  \/ \E ip \in IP :
       \/ Call(t, "hello", mac, [NoArg EXCEPT !.ip = ip])
       \/ \E dn \in {Missing} \cup {<<DnsName(n), "moved">> : n \in Names[mac]},
             told \in {NoArg, [NoArg EXCEPT !.fai = "softupdate", !.mode = "active"],
                       [NoArg EXCEPT !.class = "gotoWorkstation"]} :
            Call(t, "detect", mac, [told EXCEPT !.ip = ip, !.dn = dn])
  \/ \E arg \in {NoArg, [NoArg EXCEPT !.template = TRUE], [NoArg EXCEPT !.base = TRUE]} :
       Call(t, "activate", mac, arg)
  \/ Call(t, "set", mac, [NoArg EXCEPT !.fai = "softupdate"])
  \/ Call(t, "fai", mac, [NoArg EXCEPT !.fai = "error"])
  \/ \E op \in {"kill", "copy"} : Call(t, op, mac, NoArg)

SystemsNext ==
  \/ \E t \in Thread :
       \/ \E mac \in Machine : Calls(t, mac)
       \/ RunCommand(t) \/ Done(t)
       \/ ReadSystem(t) \/ DoReplace(t) \/ Reread(t)
       \/ PrepareDetected(t) \/ PrepareActivated(t) \/ PrepareCopy(t) \/ JoinCopy(t)
       \/ Set(t) \/ ForceState(t) \/ Forced(t)
  \/ \E mac \in Machine : \E name \in {Missing} \cup Names[mac] : Renamed(mac, name)

SystemsSpec == SystemsInit /\ [][SystemsNext]_systems

-----------------------------------------------------------------------------
\* A machine whose names are its own, and whose handlers ran one after the other and
\* reached LDAP, has one object at most, and when all is done the object is in the
\* groups that the system was put into, wherever it was moved meanwhile; no group
\* keeps a dn that is gone.
Cns(mac) == {AutoName(mac)} \cup {DnsName(n) : n \in Names[mac]}
OwnNames(mac) == \A m \in Machine \ {mac} : Names[m] \cap Names[mac] = {}
Undisturbed == {mac \in Machine \ (mixed \cup failed) : OwnNames(mac)}
MembershipKept ==
  \A mac \in Undisturbed :
    /\ Cardinality(DnsOf(mac)) <= 1
    /\ AtRest => \A g \in Group :
         {dn \in members[g] : dn[1] \in Cns(mac)}
           = IF g \in belongs[mac] THEN DnsOf(mac) ELSE {}

\* The faiState of a system that stays is changed only by a message, a job's action or
\* FAIReboot that asks for the state it gets, unless two handlers of the system run at
\* once: whoever writes the whole object back writes the state that it has.
StateOf(mac) == {ldap[dn].fai : dn \in DnsOf(mac)}
StateIsKept ==
  [][\A mac \in Undisturbed :
       (StateOf(mac) # {} /\ StateOf(mac)' # {} /\ StateOf(mac)' # StateOf(mac)) =>
         \E t \in Thread : /\ thread[t].mac = mac /\ thread[t].arg.fai # Missing
                          /\ StateOf(mac)' = {thread[t].arg.fai}]_systems

\* "This function ... verifies that the faistate has actually been set"
\* (db/systemdb.go:404): after SystemForceFAIState the state is what was asked for.
ForcedStateIsSet ==
  \A t \in Thread : Ready(t, "forced") =>
    StateOf(thread[t].mac) \subseteq {thread[t].arg.fai}
=============================================================================
