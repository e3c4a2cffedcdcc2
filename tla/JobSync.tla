------------------------------ MODULE JobSync ------------------------------
(***************************************************************************)
(* How the servers keep copies of each other's jobs (db/jobdb.go,          *)
(* message/foreign_job_updates.go, peer_connection.go, new_server.go).     *)
(*                                                                         *)
(* The comment of handleJobDBRequests has the idea: the goroutine that     *)
(* edits the database also queues a foreign_job_updates for every edit,    *)
(* one goroutine hands these to the PeerConnections, each of which sends   *)
(* them over one TCP connection, so that a peer that applies them in order *)
(* has the same jobs.  When a connection breaks, messages are lost; the    *)
(* exchange of new_server and confirm_new_server that follows leads to a   *)
(* complete copy, a message with sync=all.                                 *)
(*                                                                         *)
(* All servers are go-susi, are known to be, and know each other's keys;   *)
(* no peer is down for longer than MaxPeerDowntime; no job is an install,  *)
(* so none cancels another (JobDB has that).  A request to the database    *)
(* takes effect when it is put into jobDBRequests: everybody uses that     *)
(* channel, so nobody can see the difference.  JobsSyncAll is the one      *)
(* request that waits here, because its caller is a goroutine of its own.  *)
(***************************************************************************)
EXTENDS Naturals, Functions, SequencesExt

CONSTANTS
  Server,
  Owner,      \* servers that have jobs of their own in this instance
  What,       \* machine and headertag of a job: not among updatableFields
  Time,       \* timestamps
  Updates,    \* the changes of jobs made in this instance
  FaultSets,  \* bound: kinds of faults that occur in one behaviour
  Overlap,    \* a server may still be working on what came over an old TCP
              \* connection when its peer opens a new one
  MaxID,      \* bound: ids handed out by nextID
  MaxEvents   \* bound: edits of jobs, requests for them, and faults

ASSUME JobSyncConstants ==
  /\ Owner \subseteq Server
  /\ Updates \subseteq [status : {"waiting", "processing"}] \cup [timestamp : Time]
  /\ FaultSets \subseteq SUBSET {"break", "refuse", "restart"}
  /\ Overlap \in BOOLEAN
  /\ MaxID \in Nat \ {0} /\ MaxEvents \in Nat

VARIABLES
  db,       \* db[s][t]: the jobs of t in the database of s, by their id at t
  disk,     \* the server's own jobs as a restart finds them: those of Init,
            \* because Persist() may be that far behind (XmlDB has it)
  nextID,
  updates,  \* the channel ForeignJobUpdates
  syncs,    \* JobsSyncAll requests on their way to the handler
  greets,   \* goroutines started by Broadcast_new_server
  confirms, \* goroutines started by new_server, for each link a number
  queue,    \* PeerConnection.queue
  tcp,      \* the PeerConnection and its TCP connection
  pinger,   \* a goroutine sleeps before it pings the queue
  readers,  \* the receiver's goroutines, one for each TCP connection
  faults,   \* kinds of faults that occur
  events    \* how many more may happen

dbVars == <<db, disk, nextID>>
chanVars == <<updates, syncs, greets, confirms>>
connVars == <<queue, tcp, pinger, readers>>
bounds == <<faults, events>>
vars == <<dbVars, chanVars, connVars, bounds>>

\* The PeerConnection from a server to another.
Link == {l \in Server \X Server : l[1] # l[2]}
Back(l) == <<l[2], l[1]>>

-----------------------------------------------------------------------------
(* Jobs.  A table maps the ids of jobs to the jobs.                        *)

Status == {"waiting", "processing"}
Job == [what : What, status : Status, timestamp : Time]

\* The job in a message about its removal.
Done == [status |-> "done"]

None == [i \in {} |-> Done]
One(i, job) == [x \in {i} |-> job]

Apply(job, update) ==
  [job EXCEPT
     !.status    = IF "status" \in DOMAIN update THEN update.status ELSE @,
     !.timestamp = IF "timestamp" \in DOMAIN update THEN update.timestamp ELSE @]

\* JobsAddOrModifyForeign for each of the jobs: a job that is done is removed,
\* an unknown one is added, of a known one the updatableFields are replaced.
Merge(table, jobs) ==
  [i \in (DOMAIN table \cup DOMAIN jobs) \ {j \in DOMAIN jobs : jobs[j] = Done} |->
     IF i \notin DOMAIN jobs THEN table[i]
     ELSE IF i \notin DOMAIN table THEN jobs[i]
     ELSE [jobs[i] EXCEPT !.what = table[i].what]]

-----------------------------------------------------------------------------
(* Messages.  The field asked of a request is history: the fields that the *)
(* server that sends it was asked to change.                               *)

NewServer == [kind |-> "new_server"]
Confirm   == [kind |-> "confirm_new_server"]
Ping      == [kind |-> ""]
Fju(sync, jobs) == [kind |-> "foreign_job_updates", sync |-> sync, jobs |-> jobs]
Request(i, job, asked) == [kind |-> "request", id |-> i, job |-> job, asked |-> asked]

\* An entry of ForeignJobUpdates, an empty target stands for all peers.
To(target, message) == [target |-> target, message |-> message]

-----------------------------------------------------------------------------
(* The handler.  Every edit of local jobs is broadcast.                    *)

Edit(s, jobs) ==
  LET table == Merge(db[s][s], jobs)
      fju == Fju("ordered", [i \in DOMAIN jobs |->
                               IF i \in DOMAIN table THEN table[i] ELSE Done])
  IN  /\ db' = [db EXCEPT ![s][s] = table]
      /\ updates' = [updates EXCEPT ![s] = Append(@, To({}, fju))]

Happens(n) == events >= n /\ events' = events - n /\ UNCHANGED faults

JobAddLocal(s) ==
  /\ Happens(1)
  /\ s \in Owner /\ nextID[s] <= MaxID
  /\ nextID' = [nextID EXCEPT ![s] = @ + 1]
  /\ \E what \in What, t \in Time :
       Edit(s, One(nextID[s], [what |-> what, status |-> "waiting", timestamp |-> t]))
  /\ UNCHANGED <<disk, syncs, greets, confirms, connVars>>

JobsModifyLocal(s) ==
  /\ Happens(1)
  /\ \E i \in DOMAIN db[s][s], update \in Updates :
       Edit(s, One(i, Apply(db[s][s][i], update)))
  /\ UNCHANGED <<disk, nextID, syncs, greets, confirms, connVars>>

JobsRemoveLocal(s) ==
  /\ Happens(1)
  /\ \E ids \in SUBSET DOMAIN db[s][s] \ {{}} : Edit(s, [i \in ids |-> Done])
  /\ UNCHANGED <<disk, nextID, syncs, greets, confirms, connVars>>

\* JobsForwardModifyRequest: the owner of the job is asked to make a change.
\* What is sent is the whole job as this server knows it, with the change.
Forward(l) ==
  /\ Happens(1)
  /\ \E i \in DOMAIN db[l[1]][l[2]], update \in Updates \cup {Done} :
       LET job == IF update = Done THEN Done ELSE Apply(db[l[1]][l[2]][i], update)
       IN  updates' = [updates EXCEPT ![l[1]] = Append(@,
                         To({l[2]}, Request(i, job, DOMAIN update)))]
  /\ UNCHANGED <<db, disk, nextID, syncs, greets, confirms, connVars>>

\* Seeded bug: nothing is sent if there are no jobs.
SyncIfAny(l) ==
  /\ syncs[l] > 0
  /\ syncs' = [syncs EXCEPT ![l] = @ - 1]
  /\ updates' = IF db[l[1]][l[1]] = None THEN updates
                ELSE [updates EXCEPT ![l[1]] = Append(@,
                        To({l[2]}, Fju("all", db[l[1]][l[1]])))]
  /\ UNCHANGED <<dbVars, greets, confirms, connVars, bounds>>

\* JobsSyncAll: a copy of all local jobs, even if there are none.
SyncAll(l) ==
  /\ syncs[l] > 0
  /\ syncs' = [syncs EXCEPT ![l] = @ - 1]
  /\ updates' = [updates EXCEPT ![l[1]] = Append(@,
                   To({l[2]}, Fju("all", db[l[1]][l[1]])))]
  /\ UNCHANGED <<dbVars, greets, confirms, connVars, bounds>>

-----------------------------------------------------------------------------
(* The sender.  tcp is "absent" when nobody has called Peer() yet, "down"  *)
(* when there is no TCP connection or a closed one, "up", or "dead" when   *)
(* the connection is broken and the sender has not noticed.                *)

\* Peer() creates the PeerConnection.
Known(link) == [tcp EXCEPT ![link] = IF @ = "absent" THEN "down" ELSE @]

DistributeForeignJobUpdates(s) ==
  /\ updates[s] # <<>>
  /\ updates' = [updates EXCEPT ![s] = Tail(@)]
  /\ LET u == Head(updates[s])
         reached == {l \in Link : l[1] = s /\ IF u.target = {} THEN tcp[l] # "absent"
                                                ELSE l[2] \in u.target}
     IN  /\ queue' = [l \in Link |-> IF l \in reached THEN Append(queue[l], u.message)
                                     ELSE queue[l]]
         /\ tcp' = [l \in Link |-> IF l \in reached /\ tcp[l] = "absent" THEN "down"
                                   ELSE tcp[l]]
  /\ UNCHANGED <<dbVars, syncs, greets, confirms, pinger, readers, bounds>>

\* After the start every known server is sent a new_server.
BroadcastNewServer(l) ==
  /\ l \in greets
  /\ greets' = greets \ {l}
  /\ tcp' = Known(l)
  /\ queue' = [queue EXCEPT ![l] = Append(@, NewServer)]
  /\ UNCHANGED <<dbVars, updates, syncs, confirms, pinger, readers, bounds>>

\* What reaches the wire: the line sent for a ping is empty.
Line(message) == IF message = Ping THEN <<>> ELSE <<message>>

Fresh == [wire |-> <<>>, clear |-> FALSE, jobs |-> None]
Working(r) == r.clear \/ r.jobs # None
Busy(r) == Working(r) \/ r.wire # <<>>

\* The goroutines of earlier connections that still have something to do; mostly
\* there are none.
Unfinished(rs) == IF \E n \in DOMAIN rs : Busy(rs[n]) THEN SelectSeq(rs, Busy) ELSE <<>>

\* handleConnection: SendLn() succeeds, which means nothing if the connection
\* is dead.
Transmit(l) ==
  /\ queue[l] # <<>> /\ tcp[l] \in {"up", "dead"}
  /\ queue' = [queue EXCEPT ![l] = Tail(@)]
  /\ readers' = IF tcp[l] = "dead" THEN readers
                ELSE [readers EXCEPT ![l][Len(readers[l])].wire =
                        @ \o Line(Head(queue[l]))]
  /\ UNCHANGED <<dbVars, chanVars, tcp, pinger, bounds>>

\* Seeded bug: the message is sent again and that is all.
ConnectOnly(l) ==
  /\ queue[l] # <<>> /\ tcp[l] \in {"dead", "down"}
  /\ Overlap \/ \A n \in DOMAIN readers[l] : ~Busy(readers[l][n])
  /\ tcp' = [tcp EXCEPT ![l] = "up"]
  /\ queue' = [queue EXCEPT ![l] = Tail(@)]
  /\ readers' = [readers EXCEPT ![l] = Append(Unfinished(@),
                   [Fresh EXCEPT !.wire = Line(Head(queue[l]))])]
  /\ UNCHANGED <<dbVars, chanVars, pinger, bounds>>

\* SendLn() fails, but the message can be sent over a new TCP connection.  (The
\* monitor of the old one, if it still runs, pings once more: an empty line over
\* the new one, left out here.)
Connect(l) ==
  /\ queue[l] # <<>> /\ tcp[l] \in {"dead", "down"}
  /\ Overlap \/ \A n \in DOMAIN readers[l] : ~Busy(readers[l][n])
  /\ tcp' = [tcp EXCEPT ![l] = "up"]
  /\ queue' = [queue EXCEPT ![l] = Append(Tail(@), NewServer)]
  /\ readers' = [readers EXCEPT ![l] = Append(Unfinished(@),
                   [Fresh EXCEPT !.wire = Line(Head(queue[l]))])]
  /\ UNCHANGED <<dbVars, chanVars, pinger, bounds>>

\* It cannot: the message is lost.
ConnectFails(l) ==
  /\ "refuse" \in faults /\ Happens(1)
  /\ queue[l] # <<>> /\ tcp[l] \in {"dead", "down"}
  /\ tcp' = [tcp EXCEPT ![l] = "down"]
  /\ queue' = [queue EXCEPT ![l] = Tail(@)]
  /\ pinger' = [pinger EXCEPT ![l] = TRUE]
  /\ UNCHANGED <<dbVars, chanVars, readers>>

PingQueue(l) ==
  /\ pinger[l]
  /\ pinger' = [pinger EXCEPT ![l] = FALSE]
  /\ queue' = [queue EXCEPT ![l] = Append(@, Ping)]
  /\ UNCHANGED <<dbVars, chanVars, tcp, readers, bounds>>

\* monitorConnection notices that the connection is broken.
MonitorConnection(l) ==
  /\ tcp[l] = "dead"
  /\ tcp' = [tcp EXCEPT ![l] = "down"]
  /\ queue' = [queue EXCEPT ![l] = Append(@, Ping)]
  /\ UNCHANGED <<dbVars, chanVars, pinger, readers, bounds>>

-----------------------------------------------------------------------------
(* The receiver.  The goroutine that reads from a TCP connection works on  *)
(* one message at a time: clear says that the sender's jobs have yet to be *)
(* removed, jobs holds those that have yet to be merged.                   *)

Reads(l, n) ==
  /\ n \in DOMAIN readers[l] /\ ~Working(readers[l][n])
  /\ readers[l][n].wire # <<>>

Received(l, n) == Head(readers[l][n].wire)

\* foreign_job_updates about jobs of the sender.
ReadUpdates(l, n) ==
  /\ Reads(l, n)
  /\ Received(l, n).kind = "foreign_job_updates"
  /\ readers' = [readers EXCEPT ![l][n] =
                   [wire |-> Tail(@.wire), clear |-> Received(l, n).sync = "all",
                    jobs |-> Received(l, n).jobs]]
  /\ UNCHANGED <<dbVars, chanVars, queue, tcp, pinger, bounds>>

\* JobsRemoveForeign, before the jobs of a complete copy are added.
RemoveForeign(l, n) ==
  /\ n \in DOMAIN readers[l] /\ readers[l][n].clear
  /\ readers' = [readers EXCEPT ![l][n].clear = FALSE]
  /\ db' = [db EXCEPT ![l[2]][l[1]] = None]
  /\ UNCHANGED <<disk, nextID, chanVars, queue, tcp, pinger, bounds>>

AddOrModifyForeign(l, n) ==
  /\ n \in DOMAIN readers[l] /\ ~readers[l][n].clear
  /\ \E i \in DOMAIN readers[l][n].jobs :
       /\ db' = [db EXCEPT ![l[2]][l[1]] = Merge(@, One(i, readers[l][n].jobs[i]))]
       /\ readers' = [readers EXCEPT ![l][n].jobs = Restrict(@, DOMAIN @ \ {i})]
  /\ UNCHANGED <<disk, nextID, chanVars, queue, tcp, pinger, bounds>>

Consume(l, n) == readers' = [readers EXCEPT ![l][n].wire = Tail(@)]

\* foreign_job_updates about a job of the receiver: a request to change it.
ReadRequest(l, n) ==
  /\ Reads(l, n)
  /\ LET m == Received(l, n) IN
       /\ m.kind = "request"
       /\ IF m.id \in DOMAIN db[l[2]][l[2]] THEN Edit(l[2], One(m.id, m.job))
                                            ELSE UNCHANGED <<db, updates>>
  /\ Consume(l, n)
  /\ tcp' = Known(Back(l))
  /\ UNCHANGED <<disk, nextID, syncs, greets, confirms, queue, pinger, bounds>>

\* new_server leaves the answer to a goroutine.
ReadNewServer(l, n) ==
  /\ Reads(l, n) /\ Received(l, n) = NewServer
  /\ Consume(l, n)
  /\ tcp' = Known(Back(l))
  /\ confirms' = [confirms EXCEPT ![Back(l)] = @ + 1]
  /\ UNCHANGED <<dbVars, updates, syncs, greets, queue, pinger, bounds>>

\* That goroutine confirms, and asks for a complete copy to be sent.
ConfirmNewServer(l) ==
  /\ confirms[l] > 0
  /\ confirms' = [confirms EXCEPT ![l] = @ - 1]
  /\ tcp' = Known(l)
  /\ queue' = [queue EXCEPT ![l] = Append(@, Confirm)]
  /\ syncs' = [syncs EXCEPT ![l] = @ + 1]
  /\ UNCHANGED <<dbVars, updates, greets, pinger, readers, bounds>>

\* confirm_new_server asks for it, too.
ReadConfirmation(l, n) ==
  /\ Reads(l, n) /\ Received(l, n) = Confirm
  /\ Consume(l, n)
  /\ tcp' = Known(Back(l))
  /\ syncs' = [syncs EXCEPT ![Back(l)] = @ + 1]
  /\ UNCHANGED <<dbVars, updates, greets, confirms, queue, pinger, bounds>>

-----------------------------------------------------------------------------
(* Faults.                                                                 *)

Break(l) ==
  /\ "break" \in faults /\ Happens(1)
  /\ tcp[l] = "up"
  /\ tcp' = [tcp EXCEPT ![l] = "dead"]
  /\ UNCHANGED <<dbVars, chanVars, queue, pinger, readers>>

\* What a broken connection has not delivered may never be.
Lose(l) ==
  /\ \E n \in DOMAIN readers[l] :
       /\ n = Len(readers[l]) => tcp[l] # "up"
       /\ readers[l][n].wire # <<>>
       /\ readers' = [readers EXCEPT ![l][n].wire = Front(@)]
  /\ UNCHANGED <<dbVars, chanVars, queue, tcp, pinger, bounds>>

FirstFreeId(table) ==
  1 + CHOOSE i \in DOMAIN table \cup {0} : \A j \in DOMAIN table : j <= i

\* The server ends and starts again, JobsInit drops the jobs of the others.
\* A bound: nothing is edited and nothing else fails afterwards.
Restart(s) ==
  /\ "restart" \in faults /\ Happens(events) /\ events > 1
  /\ db' = [db EXCEPT ![s] = [t \in Server |-> IF t = s THEN disk[s] ELSE None]]
  /\ nextID' = [nextID EXCEPT ![s] = FirstFreeId(disk[s])]
  /\ updates' = [updates EXCEPT ![s] = <<>>]
  /\ syncs' = [l \in Link |-> IF l[1] = s THEN 0 ELSE syncs[l]]
  /\ confirms' = [l \in Link |-> IF l[1] = s THEN 0 ELSE confirms[l]]
  /\ greets' = greets \cup {l \in Link : l[1] = s}
  /\ queue' = [l \in Link |-> IF l[1] = s THEN <<>> ELSE queue[l]]
  /\ pinger' = [l \in Link |-> l[1] # s /\ pinger[l]]
  /\ tcp' = [l \in Link |-> IF l[1] = s THEN "absent"
                            ELSE IF l[2] = s /\ tcp[l] = "up" THEN "dead" ELSE tcp[l]]
  /\ readers' = [l \in Link |-> IF l[2] = s THEN <<>> ELSE readers[l]]
  /\ UNCHANGED disk

-----------------------------------------------------------------------------
\* The servers have greeted each other, an owner has one job.
Init ==
  /\ \E job \in [Owner -> {j \in Job : j.status = "waiting"}] :
       LET jobs == [s \in Server |-> IF s \in Owner THEN One(1, job[s]) ELSE None]
       IN  /\ db = [s \in Server |-> jobs]
           /\ disk = jobs
           /\ nextID = [s \in Server |-> FirstFreeId(jobs[s])]
  /\ updates = [s \in Server |-> <<>>]
  /\ syncs = [l \in Link |-> 0]
  /\ greets = {} /\ confirms = [l \in Link |-> 0]
  /\ queue = [l \in Link |-> <<>>]
  /\ tcp = [l \in Link |-> "up"]
  /\ pinger = [l \in Link |-> FALSE]
  /\ readers = [l \in Link |-> <<Fresh>>]
  /\ faults \in FaultSets /\ events = MaxEvents

Send(l) == Transmit(l) \/ Connect(l)

Process(l, n) ==
  \/ ReadUpdates(l, n) \/ RemoveForeign(l, n) \/ AddOrModifyForeign(l, n)
  \/ ReadRequest(l, n) \/ ReadNewServer(l, n) \/ ReadConfirmation(l, n)

Receive(l) == \E n \in DOMAIN readers[l] : Process(l, n)

Next ==
  \/ \E s \in Server : \/ JobAddLocal(s) \/ JobsModifyLocal(s) \/ JobsRemoveLocal(s)
                       \/ DistributeForeignJobUpdates(s)
                       \/ Restart(s)
  \/ \E l \in Link : \/ Forward(l) \/ SyncAll(l)
                     \/ BroadcastNewServer(l) \/ ConfirmNewServer(l)
                     \/ Send(l) \/ ConnectFails(l)
                     \/ PingQueue(l) \/ MonitorConnection(l)
                     \/ Receive(l)
                     \/ Break(l) \/ Lose(l)

Spec == Init /\ [][Next]_vars

\* The goroutines of all servers run, broken connections are noticed and
\* sleeping pingers wake; edits and faults need not happen.
Fairness ==
  /\ \A s \in Server : WF_vars(DistributeForeignJobUpdates(s))
  /\ \A l \in Link : /\ WF_vars(SyncAll(l)) /\ WF_vars(BroadcastNewServer(l))
                     /\ WF_vars(ConfirmNewServer(l))
                     /\ WF_vars(Send(l)) /\ WF_vars(PingQueue(l))
                     /\ WF_vars(MonitorConnection(l)) /\ WF_vars(Receive(l))

FairSpec == Spec /\ Fairness

-----------------------------------------------------------------------------
(* Properties.                                                             *)

Field == {"status", "timestamp"}
Table == UNION {[ids -> Job] : ids \in SUBSET (1..MaxID)}
Changes == UNION {[ids -> Job \cup {Done}] : ids \in SUBSET (1..MaxID)}
Message ==
  {NewServer, Confirm, Ping}
    \cup [kind : {"foreign_job_updates"}, sync : {"ordered", "all"}, jobs : Changes]
    \cup [kind : {"request"}, id : 1..MaxID, job : Job \cup {Done}, asked : SUBSET Field]
Entry == [target : {{}} \cup {{t} : t \in Server}, message : Message]
Reader == [wire : Seq(Message \ {Ping}), clear : BOOLEAN, jobs : Changes]

\* Every variable has its type, copies never hold a job that is done, and no
\* ping reaches a wire.
TypeOK ==
  /\ db \in [Server -> [Server -> Table]] /\ disk \in [Server -> Table]
  /\ nextID \in [Server -> 1..(MaxID + 1)]
  /\ updates \in [Server -> Seq(Entry)]
  /\ syncs \in [Link -> Nat] /\ confirms \in [Link -> Nat] /\ greets \subseteq Link
  /\ queue \in [Link -> Seq(Message)]
  /\ tcp \in [Link -> {"absent", "down", "up", "dead"}]
  /\ pinger \in [Link -> BOOLEAN]
  /\ readers \in [Link -> Seq(Reader)]
  /\ \A l \in Link : tcp[l] = "up" => readers[l] # <<>>
  /\ faults \in FaultSets /\ events \in 0..MaxEvents

InOrder(table, m) ==
  IF m.kind # "foreign_job_updates" THEN table
  ELSE Merge(IF m.sync = "all" THEN None ELSE table, m.jobs)

\* What becomes of a copy when the messages have been processed in this order.
After(table, messages) ==
  LET after[n \in 0..Len(messages)] ==
        IF n = 0 THEN table ELSE InOrder(after[n - 1], messages[n])
  IN  after[Len(messages)]

\* The rest of the message that a goroutine works on, as a message.
Ongoing(r) == Fju(IF r.clear THEN "all" ELSE "ordered", r.jobs)
Unread(r) == <<Ongoing(r)>> \o r.wire

\* What an entry of ForeignJobUpdates means for l: that of another peer does nothing.
Along(l, u) == IF u.target \in {{}, {l[2]}} THEN u.message ELSE Ping

\* The messages on their way along l, the first to arrive first.
Pipeline(l) ==
  FlattenSeq([n \in DOMAIN readers[l] |-> Unread(readers[l][n])])
    \o queue[l] \o [n \in DOMAIN updates[l[1]] |-> Along(l, updates[l[1]][n])]

\* What the receiver will have when all of them have been processed.
Outcome(l) == After(db[l[2]][l[1]], Pipeline(l))

\* The sender will open a new TCP connection: handleConnection has something to
\* send over the broken one, or will be pinged.
WillConnect(l) ==
  \/ l \in greets
  \/ tcp[l] = "dead"
  \/ tcp[l] = "down" /\ (queue[l] # <<>> \/ pinger[l])

\* A greeting is on its way along l, or will be.
WillGreet(l, m) == Contains(Pipeline(l), m) \/ WillConnect(l)

\* Something has been set in motion that ends in a complete copy.
RepairBegun(l) ==
  \/ syncs[l] > 0 \/ confirms[l] > 0 \/ confirms[Back(l)] > 0
  \/ WillGreet(l, NewServer)
  \/ \E m \in {NewServer, Confirm} : WillGreet(Back(l), m)

\* "each peer receives foreign_job_updates messages in exactly the same order
\* in which the corresponding edits are made", and "if the peer comes online
\* again, we will do a full sync to make up for any lost foreign_job_updates
\* messages" (jobdb.go, peer_connection.go): at every moment either the
\* messages on their way turn the receiver's copy into the owner's jobs, or
\* something has already been set in motion that ends in a complete copy.
LossIsRepaired ==
  \A l \in Link : Outcome(l) = db[l[1]][l[1]] \/ RepairBegun(l)

\* When nobody edits jobs any more and the connections hold, all servers end up
\* with the same jobs.
Converges == <>[](\A l \in Link : db[l[2]][l[1]] = db[l[1]][l[1]])

\* "Fields not present in update are left unchanged" (JobsForwardModifyRequest):
\* a request changes no other field of the job than those it was made for.
OnlyWhatWasAsked ==
  [][\A l \in Link : \A n \in DOMAIN readers[l] :
       (ReadRequest(l, n) /\ Received(l, n).id \in DOMAIN db[l[2]][l[2]]
                          /\ Received(l, n).id \in DOMAIN db'[l[2]][l[2]]) =>
         LET old == db[l[2]][l[2]][Received(l, n).id]
             new == db'[l[2]][l[2]][Received(l, n).id]
         IN  \A f \in DOMAIN old : old[f] # new[f] => f \in Received(l, n).asked]_vars
=============================================================================
