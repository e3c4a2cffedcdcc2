---------------------------- MODULE Registration ----------------------------
(***************************************************************************)
(* message/registered.go: how a go-susi without a server of its own finds  *)
(* a server to register at, and stays registered there.  Server is what    *)
(* it may find; ClientDB has the servers, the network and the time.        *)
(*                                                                         *)
(* Time passes in ticks.  A candidate is given one or two of them (10 to   *)
(* 20 seconds), a confirmation ConfirmTicks (60 seconds).                  *)
(***************************************************************************)
EXTENDS Naturals, Sequences

CONSTANTS
  Server,
  PeerServers,    \* config.PreferredServer and the others, in this order
  ConfirmTicks

NoServer == "none"

VARIABLES
  registrationState,  \* 0: not registered, 1: verifying, 2: registered
  currentServer,
  serverList, indexInList,
  registrationQueue,
  timers,             \* timers[kind][n]: goroutines that push kind after n ticks
  asleep,             \* ticks the handler itself still sleeps
  sends               \* here_i_am messages to send
handlerVars == <<registrationState, currentServer, serverList, indexInList,
                 registrationQueue, timers, asleep, sends>>

Queued(kind) == [kind |-> kind, source |-> NoServer]
Registered(s) == [kind |-> "registered", source |-> s]
Deregistered(s) == [kind |-> "deregistered", source |-> s]

\* What becomes of timers when a goroutine goes to sleep.
Sleeps(kind, ticks) == [timers EXCEPT ![kind][ticks] = @ + 1]

InitHandler ==
  /\ registrationState = 0 /\ currentServer = NoServer
  /\ serverList = <<>> /\ indexInList = 0
  /\ registrationQueue = <<Queued("register")>>
  /\ timers = [kind \in {"timeout", "confirm_timeout"} |-> [n \in 0..ConfirmTicks |-> 0]]
  /\ asleep = 0 /\ sends = <<>>

serversToTry == <<currentServer>> \o PeerServers

Takes(kind) ==
  /\ asleep = 0 /\ registrationQueue # <<>> /\ Head(registrationQueue).kind = kind
From == Head(registrationQueue).source
Rest == Tail(registrationQueue)

Register ==
  /\ Takes("register")
  /\ IF registrationState = 0
     THEN /\ serverList' = serversToTry /\ indexInList' = 0
          /\ currentServer' = NoServer
          /\ registrationQueue' = Append(Rest, Queued("timeout"))
     ELSE registrationQueue' = Rest /\ UNCHANGED <<serverList, indexInList, currentServer>>
  /\ UNCHANGED <<registrationState, timers, asleep, sends>>

\* The candidates that are still to be tried.
Candidates == {i \in DOMAIN serverList : i > indexInList /\ serverList[i] # NoServer}

\* A candidate did not answer in time: the next one is tried, and after the last
\* the handler sleeps for a minute.
TryNext ==
  /\ Takes("timeout") /\ registrationState = 0 /\ Candidates # {}
  /\ LET next == CHOOSE i \in Candidates : \A j \in Candidates : i <= j
     IN  /\ indexInList' = next /\ currentServer' = serverList[next]
         /\ sends' = Append(sends, serverList[next])
  /\ \E ticks \in {1, 2} : timers' = Sleeps("timeout", ticks)
  /\ registrationQueue' = Rest
  /\ UNCHANGED <<registrationState, serverList, asleep>>

NoneLeft ==
  /\ Takes("timeout") /\ registrationState = 0 /\ Candidates = {}
  /\ registrationQueue' = Rest /\ asleep' = ConfirmTicks
  /\ indexInList' = Len(serverList)
  /\ UNCHANGED <<registrationState, currentServer, serverList, timers, sends>>

\* Seeded bug: after its sleep the handler only goes on with what came meanwhile.
WakeUpOnly == registrationQueue

\* After its sleep the handler puts "register" before all that came meanwhile.
WakeUp == <<Queued("register")>> \o registrationQueue

\* A server that doubts the registration while it is verified, or before, is not
\* heard either.
Ignore ==
  /\ \/ Takes("timeout") /\ registrationState # 0
     \/ Takes("confirm_timeout") /\ registrationState # 1
     \/ Takes("confirm") /\ registrationState # 2
     \/ Takes("deregistered") /\ (From # currentServer \/ registrationState # 2)
  /\ registrationQueue' = Rest
  /\ UNCHANGED <<registrationState, currentServer, serverList, indexInList, timers,
                 asleep, sends>>

\* Not confirmed in time.
StartAgain ==
  /\ Takes("confirm_timeout") /\ registrationState = 1
  /\ registrationState' = 0 /\ registrationQueue' = Append(Rest, Queued("register"))
  /\ UNCHANGED <<currentServer, serverList, indexInList, timers, asleep, sends>>

HandleRegistered ==
  /\ Takes("registered") /\ From = currentServer
  /\ registrationState' = 2 /\ registrationQueue' = Rest
  /\ UNCHANGED <<currentServer, serverList, indexInList, timers, asleep, sends>>

\* Registered by somebody else.
Doubt ==
  /\ Takes("registered") /\ From # currentServer
  /\ registrationQueue' = Append(Rest, Queued("confirm"))
  /\ UNCHANGED <<registrationState, currentServer, serverList, indexInList, timers,
                 asleep, sends>>

Confirm ==
  /\ registrationState = 2
  /\ Takes("confirm") \/ (Takes("deregistered") /\ From = currentServer)
  /\ registrationState' = 1 /\ registrationQueue' = Rest
  /\ sends' = Append(sends, currentServer)
  /\ timers' = Sleeps("confirm_timeout", ConfirmTicks)
  /\ UNCHANGED <<currentServer, serverList, indexInList, asleep>>

RegistrationHandler ==
  \/ Register \/ TryNext \/ NoneLeft \/ Ignore \/ StartAgain
  \/ HandleRegistered \/ Doubt \/ Confirm
=============================================================================
