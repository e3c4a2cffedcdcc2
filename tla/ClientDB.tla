------------------------------ MODULE ClientDB ------------------------------
(***************************************************************************)
(* Which server a client belongs to, according to every server             *)
(* (db/clientdb.go, message/here_i_am.go, message/new_foreign_client.go,   *)
(* message/client_connection.go) and to the client itself (Registration).  *)
(*                                                                         *)
(* Messages are delivered within a tick, except where a handler is slow    *)
(* (it waits for LDAP); that, the delay of a verification and the time     *)
(* that a server is down have bounds.  Messages from a server to another   *)
(* keep their order, all others have connections of their own.             *)
(***************************************************************************)
EXTENDS Registration, SequencesExt

CONSTANTS
  Overtakes,     \* "deregistered" may arrive before an earlier "registered"
  FaultSets,     \* bound: kinds of faults that occur in one behaviour
  MaxFaults      \* bound: how many

VARIABLES
  down,          \* down[s]: 0 if s runs, otherwise ticks until it must
  source,        \* source[s]: the server of the client in the clientDB of s
  here_i_am,     \* here_i_am[s]: how many are on their way to s
  handlers,      \* handlers[s][n]: here_i_am handlers that answer within n ticks
  nfc,           \* nfc[s][t]: new_foreign_client messages queued for a peer
  verify,        \* verify[s][n]: goroutines of ClientUpdate that sleep for up to
                 \* n ticks more
  mail,          \* on its way to the client, in the order it was sent
  kinds, faults, \* the faults of this behaviour, how many there were
  unheard        \* servers whose "deregistered" was lost: they have given the client
                 \* up, and it has not turned to them since
netVars == <<down, source, here_i_am, handlers, nfc, verify, mail, kinds, faults,
             unheard>>
clientsVars == <<handlerVars, netVars>>

up == {s \in Server : down[s] = 0}
Ticks == 0..ConfirmTicks
Nobody == [n \in Ticks |-> 0]
Later(count) == [n \in Ticks |-> IF n = ConfirmTicks THEN 0 ELSE count[n + 1]]

InitServers ==
  /\ down = [s \in Server |-> 0] /\ source = [s \in Server |-> NoServer]
  /\ here_i_am = [s \in Server |-> 0] /\ mail = <<>> /\ kinds \in FaultSets /\ faults = 0
  /\ unheard = {}
  /\ handlers = [s \in Server |-> Nobody] /\ verify = [s \in Server |-> Nobody]
  /\ nfc = [s \in Server |-> [t \in Server |-> <<>>]]

InitClients == InitHandler /\ InitServers

-----------------------------------------------------------------------------
(* The client.                                                             *)

HandlerStep == RegistrationHandler /\ UNCHANGED netVars

Send_here_i_am ==
  /\ sends # <<>> /\ sends' = Tail(sends)
  /\ here_i_am' = IF Head(sends) \in up THEN [here_i_am EXCEPT ![Head(sends)] = @ + 1]
                  ELSE here_i_am
  /\ UNCHANGED <<registrationState, currentServer, serverList, indexInList,
                 registrationQueue, timers, asleep, down, source, handlers, nfc,
                 verify, mail, kinds, faults, unheard>>

Receive(n) ==
  /\ n \in DOMAIN mail /\ (Overtakes \/ \A m \in 1..(n - 1) : mail[m] # Registered(mail[n].source))
  /\ mail' = RemoveAt(mail, n) /\ registrationQueue' = Append(registrationQueue, mail[n])
  /\ UNCHANGED <<registrationState, currentServer, serverList, indexInList, timers,
                 asleep, sends, down, source, here_i_am, handlers, nfc, verify, kinds,
                 faults, unheard>>

Ripe(kind) == timers[kind][0] > 0

Fire(kind) ==
  /\ Ripe(kind) /\ timers' = [timers EXCEPT ![kind][0] = @ - 1]
  /\ registrationQueue' = Append(registrationQueue, Queued(kind))
  /\ UNCHANGED <<registrationState, currentServer, serverList, indexInList, asleep,
                 sends, netVars>>

-----------------------------------------------------------------------------
(* The servers.                                                            *)

\* Seeded bug: what a peer says of a client of ours is believed.
TrustingUpdate(s, from) ==
  source' = [source EXCEPT ![s] = from] /\ UNCHANGED verify

\* A client of ours that is taken away is asked, after a delay.
ClientUpdate(s, from) ==
  /\ source' = [source EXCEPT ![s] = from]
  /\ verify' = IF from # s /\ source[s] = s
               THEN [verify EXCEPT ![s][ConfirmTicks] = @ + 1] ELSE verify

HandleHereIAm(s) ==
  /\ here_i_am[s] > 0 /\ here_i_am' = [here_i_am EXCEPT ![s] = @ - 1]
  /\ IF s \in up THEN ClientUpdate(s, s) /\ handlers' = [handlers EXCEPT ![s][0] = @ + 1]
                      /\ unheard' = unheard \ {s}
                 ELSE UNCHANGED <<source, verify, handlers, unheard>>
  /\ UNCHANGED <<handlerVars, down, nfc, mail, kinds, faults>>

Broadcast(s) ==
  nfc' = [nfc EXCEPT ![s] = [t \in Server |-> IF t = s THEN @[t] ELSE Append(@[t], s)]]

\* All peers are told, and then the client is, if it still belongs to this server:
\* message forwarding is not yet implemented.
Answer(s, n) ==
  /\ handlers[s][n] > 0 /\ handlers' = [handlers EXCEPT ![s][n] = @ - 1]
  /\ Broadcast(s)
  /\ mail' = IF source[s] = s THEN Append(mail, Registered(s)) ELSE mail
  /\ UNCHANGED <<handlerVars, down, source, here_i_am, verify, kinds, faults, unheard>>

new_foreign_client(s, t) ==
  /\ t \in up /\ nfc[s][t] # <<>>
  /\ nfc' = [nfc EXCEPT ![s][t] = Tail(@)]
  /\ ClientUpdate(t, Head(nfc[s][t]))
  /\ UNCHANGED <<handlerVars, down, here_i_am, handlers, mail, kinds, faults, unheard>>

\* The goroutine wakes up.
Verify(s, n) ==
  /\ verify[s][n] > 0 /\ verify' = [verify EXCEPT ![s][n] = @ - 1]
  /\ mail' = IF source[s] = s THEN mail ELSE Append(mail, Deregistered(s))
  /\ UNCHANGED <<handlerVars, down, source, here_i_am, handlers, nfc, kinds, faults,
                 unheard>>

-----------------------------------------------------------------------------
(* Faults.                                                                 *)

Fault(kind) ==
  kind \in kinds /\ faults < MaxFaults /\ faults' = faults + 1 /\ UNCHANGED kinds

\* LDAP takes long, or fails and the handler gives up.
SlowLDAP(s) ==
  /\ Fault("ldap") /\ handlers[s][0] > 0
  /\ \/ handlers' = [handlers EXCEPT ![s][0] = @ - 1, ![s][ConfirmTicks] = @ + 1]
     \/ handlers' = [handlers EXCEPT ![s][0] = @ - 1]
  /\ UNCHANGED <<handlerVars, down, source, here_i_am, nfc, verify, mail, unheard>>

\* Attempts to send "registered" end with its TTL; here_i_am and "deregistered" are
\* sent once.  Nobody looks at whether that worked.
LoseMail ==
  /\ Fault("lose")
  /\ \/ \E s \in Server : here_i_am[s] > 0 /\ here_i_am' = [here_i_am EXCEPT ![s] = @ - 1]
        /\ UNCHANGED <<mail, unheard>>
     \/ \E n \in DOMAIN mail :
        LET s == mail[n].source
        IN  /\ mail' = RemoveAt(mail, n)
            /\ unheard' = IF mail[n] = Deregistered(s) /\ source[s] # s
                          THEN unheard \cup {s} ELSE unheard
        /\ UNCHANGED here_i_am
  /\ UNCHANGED <<handlerVars, down, source, handlers, nfc, verify>>

\* A key does not fit, for instance (tryToReestablishCommunicationWith).
ConfirmRegistration ==
  /\ Fault("confirm")
  /\ registrationQueue' = Append(registrationQueue, Queued("confirm"))
  /\ UNCHANGED <<registrationState, currentServer, serverList, indexInList, timers,
                 asleep, sends, down, source, here_i_am, handlers, nfc, verify, mail,
                 unheard>>

Stop(s) ==
  /\ Fault("restart") /\ s \in up /\ down' = [down EXCEPT ![s] = ConfirmTicks + 2]
  /\ handlers' = [handlers EXCEPT ![s] = Nobody] /\ verify' = [verify EXCEPT ![s] = Nobody]
  /\ nfc' = [nfc EXCEPT ![s] = [t \in Server |-> <<>>]]
  /\ UNCHANGED <<handlerVars, source, here_i_am, mail, unheard>>

\* ClientsInit forgets the server's own clients, CheckPossibleClients asks them, and
\* after new_server the peers send theirs (SyncAll).
Start(s) ==
  /\ s \notin up /\ down' = [down EXCEPT ![s] = 0]
  /\ source' = [source EXCEPT ![s] = IF @ = s THEN NoServer ELSE @]
  /\ mail' = IF source[s] = s THEN Append(mail, Deregistered(s)) ELSE mail
  /\ nfc' = [t \in Server |->
               IF t \in up /\ source[t] = t THEN [nfc[t] EXCEPT ![s] = Append(@, t)]
               ELSE nfc[t]]
  /\ UNCHANGED <<handlerVars, here_i_am, handlers, verify, kinds, faults, unheard>>

-----------------------------------------------------------------------------
(* Time.  What is prompt happens within a tick.                            *)

Prompt ==
  /\ mail = <<>> /\ \A kind \in DOMAIN timers : ~Ripe(kind)
  /\ \A s \in Server : here_i_am[s] = 0 /\ handlers[s][0] = 0 /\ verify[s][0] = 0
                       /\ down[s] # 1
  /\ \A s \in Server, t \in up : nfc[s][t] = <<>>

Calm == /\ asleep = 0 /\ up = Server /\ \A kind \in DOMAIN timers : timers[kind] = Nobody
        /\ \A s \in Server : handlers[s] = Nobody /\ verify[s] = Nobody

ClientsTick ==
  /\ Prompt /\ ~Calm
  /\ timers' = [kind \in DOMAIN timers |-> Later(timers[kind])]
  /\ handlers' = [s \in Server |-> Later(handlers[s])]
  /\ verify' = [s \in Server |-> Later(verify[s])]
  /\ down' = [s \in Server |-> IF s \in up THEN 0 ELSE down[s] - 1]
  /\ asleep' = IF asleep > 0 THEN asleep - 1 ELSE 0
  /\ registrationQueue' = IF asleep = 1 THEN WakeUp ELSE registrationQueue
  /\ UNCHANGED <<registrationState, currentServer, serverList, indexInList, sends,
                 source, here_i_am, nfc, mail, kinds, faults, unheard>>

-----------------------------------------------------------------------------
Client == HandlerStep \/ Send_here_i_am

\* The client's own steps are done before anything else happens: they commute with
\* all others.
Pending == (asleep = 0 /\ registrationQueue # <<>>) \/ sends # <<>>

ServerStep(s) ==
  \/ HandleHereIAm(s) \/ Start(s) \/ \E n \in Ticks : Answer(s, n) \/ Verify(s, n)
  \/ \E t \in Server : new_foreign_client(s, t)
Elsewhere ==
  \/ \E kind \in DOMAIN timers : Fire(kind)
  \/ \E n \in DOMAIN mail : Receive(n)
  \/ \E s \in Server : ServerStep(s)
  \/ ClientsTick
Progress == Client \/ (~Pending /\ Elsewhere)
Faults == LoseMail \/ ConfirmRegistration \/ \E s \in Server : Stop(s) \/ SlowLDAP(s)

ClientsNext == Progress \/ (~Pending /\ Faults)

ClientsSpec == InitClients /\ [][ClientsNext]_clientsVars

\* Goroutines are scheduled, and all that is slow has a bound.
FairClients == ClientsSpec /\ WF_clientsVars(Progress)

-----------------------------------------------------------------------------
\* Where the client and all servers know where it is.
Agreed == registrationState = 2 /\ \A s \in Server : source[s] = currentServer

\* The client believes in a server that has given it up, and that has said so: the
\* message was lost.
GivenUp == registrationState = 2 /\ currentServer \in unheard

\* A client whose server does not know it is about to be asked, or to tell, unless
\* the one message that asks it was lost.
Home == currentServer
Repaired ==
  registrationState = 2 /\ source[Home] # Home =>
    \/ GivenUp \/ verify[Home] # Nobody \/ Home \notin up
    \/ here_i_am[Home] > 0 \/ Home \in Range(sends)
    \/ \E item \in Range(mail) \cup Range(registrationQueue) :
         item = Deregistered(Home) \/ (item.kind = "registered" /\ item.source # Home)
         \/ item.kind = "confirm"

\* What a server says of a client is what the client believes, or will when the
\* server's answer arrives.
Trusts(s) ==
  \/ registrationState = 2 /\ Home = s
  \/ Registered(s) \in Range(registrationQueue) \cup Range(mail)

\* No server ends between losing a client that trusts it and asking that client.
Survive ==
  \A s \in Server : Stop(s) => verify[s] = Nobody \/ source[s] = s \/ ~Trusts(s)
VerificationsSurvive == [][Survive]_clientsVars
=============================================================================
