--------------------------- MODULE PeerConnection ---------------------------
(***************************************************************************)
(* message/peer_connection.go: the permanent connection to one peer, over  *)
(* which Tell() sends its messages in order, and what its handler does     *)
(* while the peer does not answer: it tries again and again, and after     *)
(* MaxPeerDowntime removes the peer's jobs, its entry in the serverdb      *)
(* (db/serverdb.go) and itself.                                            *)
(***************************************************************************)
EXTENDS Naturals, Sequences

CONSTANTS
  MaxPeerDowntime,   \* in ticks
  OftenUntil,        \* the downtime up to which the delays are short
  TLSModes,          \* whether we and the peer use TLS
  MaxQueue,          \* bound: no new message or fault while this many are queued
  MaxMonitors        \* bound: no new fault while this many pings are outstanding

ASSUME PeerAssumption ==
  /\ MaxPeerDowntime \in Nat \ {0} /\ OftenUntil \in Nat /\ TLSModes \subseteq BOOLEAN
  /\ MaxQueue \in Nat /\ MaxMonitors \in Nat

None == "none"
Never == MaxPeerDowntime + 1

VARIABLES
  useTLS,        \* the peer's key is ""
  reachable,  \* the peer listens
  known,      \* the peer has an entry in the serverdb
  handler,    \* where handleConnection is, or None
  queue, message,
  tcpConn,    \* "nil", "open", "broken" (nobody noticed yet) or "closed"
  monitored,  \* monitorConnection runs for tcpConn
  pings,      \* monitors and pingers that are about to push a ping
  whendown,   \* Never, or for how long the peer has been down
  pinger,     \* Never, or how long the pinger still sleeps
  lost,       \* a message did not arrive, and no new_server was sent after it
  silent      \* ticks since the peer was last connected to, up to MaxPeerDowntime
vars == <<useTLS, reachable, known, handler, queue, message, tcpConn, monitored, pings,
          whendown, pinger, lost, silent>>
link == <<tcpConn, monitored>>

Ping == "ping"
Job == "foreign_job_updates"
New == "new_server"

Init ==
  /\ useTLS \in TLSModes /\ reachable \in BOOLEAN /\ known = TRUE
  /\ handler = None /\ queue = <<>> /\ message = None
  /\ tcpConn = "nil" /\ monitored = FALSE /\ pings = 0
  /\ whendown = Never /\ pinger = Never /\ lost = FALSE /\ silent = 0

\* Bound: there is room for another fault.
Bounded == pings < MaxMonitors /\ Len(queue) < MaxQueue

-----------------------------------------------------------------------------
(* Peer(addr).Tell(msg, key): Peer() starts a handler where there is none. *)

Push(q, msg) == IF known THEN Append(q, msg) ELSE q

Started == IF handler = None THEN "waiting" ELSE handler

Tell(msg) ==
  /\ Len(queue) < MaxQueue
  /\ queue' = Push(queue, msg) /\ handler' = Started
  /\ lost' = (lost \/ ~known)
  /\ UNCHANGED <<useTLS, reachable, known, message, link, pings, whendown, pinger, silent>>

\* new_server(): the peer, which has started, gets a confirmation.
new_server ==
  /\ reachable /\ Len(queue) < MaxQueue
  /\ known' = TRUE /\ queue' = Append(queue, New) /\ handler' = Started
  /\ UNCHANGED <<useTLS, reachable, message, link, pings, whendown, pinger, lost, silent>>

-----------------------------------------------------------------------------
(* handleConnection.                                                       *)

Next_message ==
  /\ handler = "waiting" /\ queue # <<>>
  /\ message' = Head(queue) /\ queue' = Tail(queue) /\ handler' = "send"
  /\ UNCHANGED <<useTLS, reachable, known, link, pings, whendown, pinger, lost, silent>>

\* What becomes of the message in hand.
Arrived == lost' = IF message = New THEN FALSE ELSE lost
Lost == lost' = (lost \/ message # Ping)

Closed(c) == IF c \in {"open", "broken"} THEN "closed" ELSE c

\* Seeded bug: the monitor of a connection that was closed just ends.
NotNotified == pings

\* It ends with a ping.
Notified == pings + IF monitored THEN 1 ELSE 0
Close == tcpConn' = Closed(tcpConn) /\ monitored' = FALSE /\ pings' = Notified

SendLn ==
  /\ handler = "send" /\ tcpConn \in {"open", "broken"} /\ handler' = "waiting"
  /\ IF tcpConn = "open" THEN Arrived ELSE Lost
  /\ UNCHANGED <<useTLS, reachable, known, queue, message, link, pings, whendown, pinger,
                 silent>>

SendLnFails ==
  /\ handler = "send" /\ (tcpConn = "open" => Bounded)
  /\ handler' = "dial" /\ Close
  /\ UNCHANGED <<useTLS, reachable, known, queue, message, whendown, pinger, lost, silent>>

DialFails ==
  /\ handler = "dial" /\ ~reachable
  /\ tcpConn' = "nil" /\ handler' = "failed" /\ Lost
  /\ UNCHANGED <<useTLS, reachable, known, queue, message, monitored, pings, whendown, pinger,
                 silent>>

\* With TLS err is still the error of the message that could not be sent.
DialTLS ==
  /\ handler = "dial" /\ reachable /\ useTLS
  /\ tcpConn' = "open" /\ silent' = 0 /\ handler' = "failed" /\ Lost
  /\ UNCHANGED <<useTLS, reachable, known, queue, message, monitored, pings, whendown, pinger>>

\* Seeded bug: that the peer is up again is not noted.
DialQuietly ==
  /\ handler = "dial" /\ reachable /\ ~useTLS
  /\ tcpConn' = "open" /\ monitored' = TRUE /\ silent' = 0 /\ handler' = "resend"
  /\ UNCHANGED <<useTLS, reachable, known, queue, message, pings, whendown, pinger, lost>>

Dial ==
  /\ handler = "dial" /\ reachable /\ ~useTLS
  /\ tcpConn' = "open" /\ monitored' = TRUE /\ silent' = 0 /\ handler' = "resend"
  /\ whendown' = Never
  /\ UNCHANGED <<useTLS, reachable, known, queue, message, pings, pinger, lost>>

\* Seeded bug: only messages of others are worth a synchronisation.
FullSyncAfterMessage(q) == IF message # Ping THEN Push(q, New) ELSE q

\* What was lost in between is made up for by the exchange that new_server begins.
FullSync(q) == Push(q, New)

Resend ==
  /\ handler = "resend" /\ tcpConn \in {"open", "broken"} /\ handler' = "waiting"
  /\ IF tcpConn = "open" THEN Arrived ELSE Lost
  /\ queue' = FullSync(queue)
  /\ UNCHANGED <<useTLS, reachable, known, message, link, pings, whendown, pinger, silent>>

ResendFails ==
  /\ handler = "resend" /\ (tcpConn = "open" => Bounded)
  /\ handler' = "failed" /\ Lost /\ Close
  /\ UNCHANGED <<useTLS, reachable, known, queue, message, whendown, pinger, silent>>

Downtime == IF whendown = Never THEN 0 ELSE whendown
maxdelay == MaxPeerDowntime - Downtime
Smaller(m, n) == IF m < n THEN m ELSE n
Delay == Smaller(maxdelay, IF Downtime < OftenUntil THEN 1 ELSE 2)

\* A pinger runs already, or one is started, or there is no more hope.
Failed ==
  /\ handler = "failed" /\ whendown' = Downtime
  /\ IF pinger # Never THEN handler' = "waiting" /\ UNCHANGED pinger
     ELSE IF Downtime < MaxPeerDowntime THEN handler' = "waiting" /\ pinger' = Delay
     ELSE handler' = "JobsRemoveForeign" /\ UNCHANGED pinger
  /\ UNCHANGED <<useTLS, reachable, known, queue, message, link, pings, lost, silent>>

\* The peer's jobs go, then its entry in the serverdb, then the connection: what is
\* queued is never sent.
JobsRemoveForeign ==
  /\ handler = "JobsRemoveForeign" /\ handler' = "ServerRemove"
  /\ UNCHANGED <<useTLS, reachable, known, queue, message, link, pings, whendown, pinger,
                 lost, silent>>
ServerRemove ==
  /\ handler = "ServerRemove" /\ handler' = "delete" /\ known' = FALSE
  /\ UNCHANGED <<useTLS, reachable, queue, message, link, pings, whendown, pinger, lost,
                 silent>>
DeleteConnection ==
  /\ handler = "delete" /\ handler' = None /\ queue' = <<>> /\ whendown' = Never
  /\ tcpConn' = "nil" /\ monitored' = FALSE /\ pings' = 0 /\ lost' = TRUE
  /\ UNCHANGED <<useTLS, reachable, known, message, pinger, silent>>

-----------------------------------------------------------------------------
(* The other goroutines of the connection, the peer and the time.          *)

\* pingerRunning is reset before the ping is pushed.
Pinger ==
  /\ pinger = 0 /\ pinger' = Never /\ pings' = pings + 1
  /\ UNCHANGED <<useTLS, reachable, known, handler, queue, message, link, whendown, lost,
                 silent>>

PushPing ==
  /\ pings > 0 /\ pings' = pings - 1 /\ queue' = Append(queue, Ping)
  /\ UNCHANGED <<useTLS, reachable, known, handler, message, link, whendown, pinger, lost,
                 silent>>

monitorConnection ==
  /\ monitored /\ tcpConn = "broken" /\ Close
  /\ UNCHANGED <<useTLS, reachable, known, handler, queue, message, whendown, pinger, lost,
                 silent>>

\* Ask() closes the connection when its own does not work.
AskFails ==
  /\ Bounded /\ tcpConn \in {"open", "broken"} /\ Close
  /\ UNCHANGED <<useTLS, reachable, known, handler, queue, message, whendown, pinger, lost,
                 silent>>

PeerStops ==
  /\ Bounded /\ reachable /\ reachable' = FALSE
  /\ tcpConn' = IF tcpConn = "open" THEN "broken" ELSE tcpConn
  /\ UNCHANGED <<useTLS, known, handler, queue, message, monitored, pings, whendown, pinger,
                 lost, silent>>
PeerStarts ==
  /\ ~reachable /\ reachable' = TRUE
  /\ UNCHANGED <<useTLS, known, handler, queue, message, link, pings, whendown, pinger, lost,
                 silent>>

Older(age) == IF age < MaxPeerDowntime THEN age + 1 ELSE age

Tick ==
  /\ pings = 0 /\ pinger # 0
  /\ pinger' = IF pinger = Never THEN Never ELSE pinger - 1
  /\ whendown' = IF whendown = Never THEN Never ELSE Older(whendown)
  /\ silent' = IF tcpConn = "open" THEN 0 ELSE Older(silent)
  /\ UNCHANGED <<useTLS, reachable, known, handler, queue, message, link, pings, lost>>

Next ==
  \/ Tell(Job) \/ new_server
  \/ Next_message \/ SendLn \/ SendLnFails \/ DialFails \/ DialTLS \/ Dial
  \/ Resend \/ ResendFails \/ Failed
  \/ JobsRemoveForeign \/ ServerRemove \/ DeleteConnection
  \/ Pinger \/ PushPing \/ monitorConnection
  \/ AskFails \/ PeerStops \/ PeerStarts \/ Tick

Spec == Init /\ [][Next]_vars

-----------------------------------------------------------------------------
\* The jobs of a peer are only removed after it could not be connected to for
\* MaxPeerDowntime, whatever broke and recovered meanwhile (without TLS).
NeverGivenUpEarly ==
  handler = "JobsRemoveForeign" /\ ~useTLS => silent = MaxPeerDowntime

\* A connection that does not work is never forgotten: while the handler waits,
\* somebody will wake it (without TLS).
KeepsTrying ==
  handler = "waiting" /\ queue = <<>> /\ ~useTLS =>
    \/ tcpConn \in {"open", "broken"} /\ monitored
    \/ pinger # Never \/ pings > 0
    \/ tcpConn = "nil" /\ whendown = Never

\* "if the peer comes online again, we will do a full sync to make up for any lost
\* foreign_job_updates messages": on a connection that works and is idle, new_server
\* is the last that was sent after a loss (without TLS).
LossesAreSynced ==
  lost /\ known /\ handler = "waiting" /\ tcpConn = "open" /\ ~useTLS =>
    New \in {queue[n] : n \in DOMAIN queue}

\* whendown: "0 if it's up".  With TLS it is never reset.
UpIsNotDown ==
  handler = "waiting" /\ tcpConn = "open" => whendown = Never
=============================================================================
