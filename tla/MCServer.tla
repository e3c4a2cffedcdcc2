------------------------------ MODULE MCServer ------------------------------
(***************************************************************************)
(* The server at work, in parts that share no state: how many connections  *)
(* it accepts (AcceptLoop), how often an address connects                  *)
(* (ConnectionRate), what is read from a connection (Requests), the        *)
(* connection to a peer (PeerConnection), files sent with TFTP             *)
(* (TftpTransfer), the handlers that change systems in LDAP (Systems), and *)
(* those that store log files (FaiLogs).                                   *)
(***************************************************************************)
EXTENDS PeerConnection, Connections, Requests, TftpTransfer, Systems

VARIABLES part
CONSTANTS c3, m1, m2, n1, n2

\* AcceptLoop: two of the connections come from one address.
ConnAddress == [c \in Conn |-> IF c = c3 THEN 2 ELSE 1]
ConnCertificate ==
  [c \in Conn |-> [ConnParallel |-> IF c = c3 THEN 0 ELSE 1, ConnPerHour |-> 3]]

\* ConnectionRate.
times == <<lim, now, recent>>

\* Requests: every stream of up to 6 letters that begins with STARTTLS, and of up
\* to 4 others.
UpTo(S, n) == UNION {[1..k -> S] : k \in 0..n}
ServerStreams ==
  {<<"S", "T", "newline">> \o s : s \in UpTo({"a", "newline"}, 5)}
  \cup UpTo({"S", "a", "newline"}, 4)

\* Systems: each machine has a name of its own.
MachineNames == [m \in Machine |-> IF m = m1 THEN {n1} ELSE {n2}]

\* FaiLogs: hooks that report files of one name or with a slash, with and without
\* data, and data that looks like the beginning of a line.
LogFile(n, d) == [name |-> n, data |-> d]
Hooks ==
  {<<LogFile(<<"a">>, <<"a", "l">>),
     LogFile(<<"l", "og_file">>, <<"l", "a", "a", "a">>)>>,
   <<LogFile(<<"a", "/">>, <<>>), LogFile(<<"a", "_">>, <<"a", "l">>)>>}
CONSTANTS NoName, PlainName, Action, Limits, MaxFragmentLength, Handlers, MaxSeconds
VARIABLES seconds, bearer, logHandler, disk, dirs, links, linker, progressed
logs == <<seconds, bearer, logHandler, disk, dirs, links, linker, progressed>>
Logs ==
  INSTANCE FaiLogs WITH clock <- seconds, handler <- logHandler, MaxTime <- MaxSeconds

-----------------------------------------------------------------------------
\* The parts that are not looked at stay in one of their initial states.
ParkedReader == sent = <<>> /\ limits = [total |-> 0, message |-> 0, TLSRequired |-> FALSE]
ParkedSystems ==
  calls = 0 /\ DOMAIN ldap = {Template} /\ mixed = Machine \ {CHOOSE m \in Machine : TRUE}
ServerInit ==
  /\ part \in {"accept", "rate", "read", "peer", "tftp", "systems", "logs"}
  /\ LoopInit /\ Rate!Init
  /\ ReaderInit /\ (part # "read" => ParkedReader)
  /\ Init /\ (part # "peer" => reachable /\ useTLS = (TRUE \in TLSModes))
  /\ TransferInit /\ (part # "tftp" => file = <<>> /\ client.blksize = 0)
  /\ SystemsInit /\ (part # "systems" => ParkedSystems)
  /\ Logs!LogsInit
  /\ part # "logs" => \A n \in PlainName : bearer[n] = CHOOSE m \in Machine : TRUE

ServerNext ==
  /\ UNCHANGED part
  /\ \/ part = "accept" /\ LoopNext
        /\ UNCHANGED <<times, reader, vars, transfer, systems, logs>>
     \/ part = "rate" /\ Rate!Next
        /\ UNCHANGED <<loop, reader, vars, transfer, systems, logs>>
     \/ part = "read" /\ ReaderNext
        /\ UNCHANGED <<loop, times, vars, transfer, systems, logs>>
     \/ part = "peer" /\ Next
        /\ UNCHANGED <<loop, times, reader, transfer, systems, logs>>
     \/ part = "tftp" /\ TransferNext
        /\ UNCHANGED <<loop, times, reader, vars, systems, logs>>
     \/ part = "systems" /\ SystemsNext
        /\ UNCHANGED <<loop, times, reader, vars, transfer, logs>>
     \/ part = "logs" /\ Logs!LogsNext
        /\ UNCHANGED <<loop, times, reader, vars, transfer, systems>>

ServerSpec ==
  ServerInit /\ [][ServerNext]_<<part, loop, times, reader, vars, transfer, systems, logs>>

\* Logs!LogsAreFound of every pair of messages.
LogsAreFound == Logs!LogsAreFound
=============================================================================
