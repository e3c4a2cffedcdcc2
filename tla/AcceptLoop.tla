----------------------------- MODULE AcceptLoop -----------------------------
(***************************************************************************)
(* main/go-susi.go: acceptConnections, the main loop and the goroutine     *)
(* that handles a connection, as far as they count connections and stop at *)
(* a shutdown.  Requests says what is read from a connection.              *)
(*                                                                         *)
(* A connection id stands for a client that connects again after its last  *)
(* connection has ended.                                                   *)
(***************************************************************************)
EXTENDS ConnectionLimits, FiniteSets, Sequences

CONSTANTS
  Conn,             \* clients
  Address,          \* the IP address of each
  Certificate,      \* the limits in the certificate of each
  MaxConnections,   \* config.MaxConnections
  ChannelSize,      \* capacity of tcp_connections
  MaxOpened,        \* bound: connections opened
  MaxErrors         \* bound: failures of AcceptTCP

VARIABLES
  conn,               \* conn[c]: how far the connection of c has come
  ActiveConnections,
  accepting,          \* "wait", "accept", "send", "stopped"
  tcp_connections,    \* the channel
  limiters,           \* limiters[ip]
  main,               \* "loop", "stopping", "closed" (the listener), "exited"
  opened, errors
loop == <<conn, ActiveConnections, accepting, tcp_connections, limiters, main, opened, errors>>

Addresses == {Address[c] : c \in Conn}
Shutdown == main # "loop"

\* The clock stands still here: ConnectionRate is about time.
Now == 0

LoopInit ==
  /\ conn = [c \in Conn |-> "none"]
  /\ ActiveConnections = 0 /\ accepting = "wait" /\ tcp_connections = <<>>
  /\ limiters = [ip \in Addresses |-> Unknown]
  /\ main = "loop" /\ opened = 0 /\ errors = 0

Goto(c, s) == conn' = [conn EXCEPT ![c] = s]
Limit(c, lim) == limiters' = [limiters EXCEPT ![Address[c]] = lim]

-----------------------------------------------------------------------------
\* The kernel completes a connection and queues it.
Connect(c) ==
  /\ conn[c] = "none" /\ opened < MaxOpened /\ main # "exited"
  /\ Goto(c, "backlog") /\ opened' = opened + 1
  /\ UNCHANGED <<ActiveConnections, accepting, tcp_connections, limiters, main, errors>>

\* acceptConnections: a slot is taken before a connection is accepted.  While
\* there is none the loop tries again every 100 ms.
TakeSlot ==
  /\ accepting = "wait" /\ main # "exited"
  /\ ActiveConnections + 1 <= MaxConnections
  /\ ActiveConnections' = ActiveConnections + 1 /\ accepting' = "accept"
  /\ UNCHANGED <<conn, tcp_connections, limiters, main, opened, errors>>

Accept(c) ==
  LET result == Register(limiters[Address[c]], Now) IN
  /\ accepting = "accept" /\ conn[c] = "backlog" /\ main \in {"loop", "stopping"}
  /\ Limit(c, result.limits)
  /\ IF result.ok THEN Goto(c, "accepted") /\ accepting' = "send"
                  ELSE Goto(c, "none") /\ accepting' = "wait"
  /\ UNCHANGED <<ActiveConnections, tcp_connections, main, opened, errors>>

\* The channel may be full.
Send(c) ==
  /\ conn[c] = "accepted" /\ Len(tcp_connections) < ChannelSize /\ main # "exited"
  /\ Goto(c, "channel") /\ accepting' = "wait"
  /\ tcp_connections' = Append(tcp_connections, c)
  /\ UNCHANGED <<ActiveConnections, limiters, main, opened, errors>>

\* AcceptTCP fails: there are no more file descriptors, say, or the listener has
\* been closed.
AcceptError ==
  /\ accepting = "accept" /\ main # "exited"
  /\ IF Shutdown THEN accepting' = "stopped" /\ UNCHANGED errors
     ELSE errors < MaxErrors /\ accepting' = "wait" /\ errors' = errors + 1
  /\ UNCHANGED <<conn, ActiveConnections, tcp_connections, limiters, main, opened>>

-----------------------------------------------------------------------------
\* The main loop: connections and signals.  It never returns to its select after
\* the signal to stop.
Dispatch ==
  /\ main = "loop" /\ tcp_connections # <<>>
  /\ Goto(Head(tcp_connections), "starttls")
  /\ tcp_connections' = Tail(tcp_connections)
  /\ UNCHANGED <<ActiveConnections, accepting, limiters, main, opened, errors>>

Signal ==
  /\ main = "loop" /\ main' = "stopping"
  /\ UNCHANGED <<conn, ActiveConnections, accepting, tcp_connections, limiters, opened, errors>>

\* The listener is closed, and then the databases are saved.
Exit ==
  /\ \/ main = "stopping" /\ main' = "closed"
     \/ main = "closed" /\ main' = "exited"
  /\ UNCHANGED <<conn, ActiveConnections, accepting, tcp_connections, limiters, opened, errors>>

-----------------------------------------------------------------------------
\* handle_request.  Without STARTTLS where it is required, in time or at all, or
\* with a certificate that gives no context, the connection ends at once.
Handshake(c) ==
  /\ conn[c] = "starttls" /\ main # "exited"
  /\ \/ Goto(c, "serving") /\ Limit(c, Update(limiters[Address[c]], Certificate[c]))
     \/ Goto(c, "ending") /\ UNCHANGED limiters
  /\ UNCHANGED <<ActiveConnections, accepting, tcp_connections, main, opened, errors>>

\* The client closes it, an error or a limit ends it, or a shutdown does.
Finish(c) ==
  /\ conn[c] = "serving" /\ main # "exited" /\ Goto(c, "ending")
  /\ UNCHANGED <<ActiveConnections, accepting, tcp_connections, limiters, main, opened, errors>>

\* The deferred calls, also after a panic: the last one is made first.
Uncount(c) ==
  /\ conn[c] = "ending" /\ main # "exited" /\ Goto(c, "uncounted")
  /\ ActiveConnections' = ActiveConnections - 1
  /\ UNCHANGED <<accepting, tcp_connections, limiters, main, opened, errors>>

CloseConn(c) ==
  /\ conn[c] = "uncounted" /\ main # "exited" /\ Goto(c, "closed")
  /\ UNCHANGED <<ActiveConnections, accepting, tcp_connections, limiters, main, opened, errors>>

Leave(c) ==
  /\ conn[c] = "closed" /\ main # "exited"
  /\ Goto(c, "none") /\ Limit(c, Deregister(limiters[Address[c]]))
  /\ UNCHANGED <<ActiveConnections, accepting, tcp_connections, main, opened, errors>>

LoopNext ==
  \/ TakeSlot \/ AcceptError \/ Dispatch \/ Signal \/ Exit
  \/ \E c \in Conn : \/ Connect(c) \/ Accept(c) \/ Send(c) \/ Handshake(c)
                     \/ Finish(c) \/ Uncount(c) \/ CloseConn(c) \/ Leave(c)

LoopSpec == LoopInit /\ [][LoopNext]_loop

-----------------------------------------------------------------------------
Registered == {"accepted", "channel", "starttls", "serving", "ending", "uncounted", "closed"}
Counted == Registered \ {"uncounted", "closed"}
In(states) == {c \in Conn : conn[c] \in states}
Waiting == IF accepting \in {"accept", "stopped"} THEN 1 ELSE 0

\* Every connection that is served has a slot and is counted for its address, and
\* the address counts no other: what one goroutine takes before a connection is
\* known, two more pass on and a third gives back in three steps.
ConnectionsAccounted ==
  /\ \A ip \in Addresses :
       limiters[ip].active = Cardinality({c \in In(Registered) : Address[c] = ip})
  /\ Cardinality(In(Counted)) + Waiting <= ActiveConnections
  /\ ActiveConnections <= MaxConnections

\* "counts the number of active connections" (main/go-susi.go:60), the one that is
\* being waited for included.  Not so: a connection that is turned away, or cannot
\* be accepted, keeps its slot.
CountsActiveConnections ==
  ActiveConnections = Cardinality(In(Counted)) + Waiting
=============================================================================
