------------------------------- MODULE JobDB -------------------------------
(***************************************************************************)
(* The job pipeline of one go-susi server.                                 *)
(*                                                                         *)
(* Every Jobs* function of db/jobdb.go only puts a request into the        *)
(* channel jobDBRequests; one goroutine, handleJobDBRequests, takes the    *)
(* requests out one at a time, evaluates their filters against jobDB and   *)
(* hands launched and removed jobs to the queue PendingActions.  The loop  *)
(* in action/process_act.go starts a goroutine for each of those, which    *)
(* performs the action or reacts to the removal, and in doing so sends     *)
(* further requests.  Message handlers, the groomer and the goroutines     *)
(* that ping processPendingActions when a job's time comes run beside      *)
(* them.  A message handler sends its requests one by one, so the requests *)
(* of several goroutines interleave.                                       *)
(*                                                                         *)
(* Jobs of other servers are the subject of JobSync: all filters here      *)
(* include siserver = this server.  LDAP is reduced to the faiState        *)
(* attribute of each machine.                                              *)
(***************************************************************************)
EXTENDS Jobs, Sequences

CONSTANTS
  Slot,        \* goroutines that may run at once beside the two loops
  QueueCap,    \* capacity of the channel jobDBRequests (16384 in the code)
  Messages,    \* kinds of events that reach the server in this instance
  MaxMessages, \* bound: how many such events arrive
  MaxID,       \* bound: ids handed out by nextID
  MaxTime,     \* bound: last tick of the clock
  NewTags,     \* the <headertag> values of new jobs
  Periods,     \* the <periodic> values of new jobs, 0 for none
  TMinuses     \* the <tminus> values of new jobs, 0 for none

MessageKind == {"add", "delete", "pause", "resume", "reschedule", "progress",
                "hia", "fju", "groom", "forward", "ldap", "restart"}

ASSUME ConstantsOK ==
  /\ InstallTags \subseteq HeaderTag /\ "" \notin HeaderTag
  /\ QueueCap \in Nat \ {0}
  /\ Messages \subseteq MessageKind
  /\ MaxMessages \in Nat /\ MaxID \in Nat /\ MaxTime \in Nat
  /\ NewTags \subseteq HeaderTag
  /\ Periods \subseteq Nat /\ TMinuses \subseteq Nat

VARIABLES
  jobDB,          \* the set of jobs in the database
  disk,           \* the copy of it in the file config.JobDBPath
  nextID,         \* the number the counter channel nextID delivers next
  jobDBRequests,  \* the channel of requests, oldest first
  own,            \* requests handleJobDBRequests itself is about to send
  batch,          \* jobs the running launch request has yet to launch
  clearing,       \* the job of batch whose competitors are being removed
  timers,         \* times at which a goroutine pings processPendingActions
  clock,
  PendingActions, \* jobs handed to the action loop and not yet taken
  thread,         \* state of the goroutines
  faistate,       \* LDAP attribute faiState of each machine
  arrivals,       \* how many more messages may arrive
  launches,       \* history: how often each job has been launched
  cancelled       \* history: periodic series ended by stop_periodic

vars == <<jobDB, disk, nextID, jobDBRequests, own, batch, clearing, timers,
          clock, PendingActions, thread, faistate, arrivals, launches,
          cancelled>>
dbVars == <<jobDB, timers, PendingActions, launches, cancelled>>
handlerVars == <<own, batch, clearing>>
envVars == <<disk, clock, arrivals>>

FAIState == {"localboot", "install", "softupdate"}

-----------------------------------------------------------------------------
(* Requests.  The field keep is history: it marks the removals whose       *)
(* comment says "to prevent faistate => localboot".                        *)

AddReq(job)             == [op |-> "add", job |-> job]
ModifyReq(f, update)    == [op |-> "modify", filter |-> f, update |-> update]
RemoveReq(f, stop, keep) == [op |-> "remove", filter |-> f, stop |-> stop,
                            keep |-> keep]
QueryReq(f, s)          == [op |-> "query", filter |-> f, slot |-> s]

\* Seeded bug: the marker is not written first.
RemoveUnmarked(f, marker, stop) == <<RemoveReq(f, stop, TRUE)>>

\* Seeded bug: stop_periodic is always false.
RemoveKeepingSeries(f, marker, stop) ==
  <<ModifyReq(f, [progress |-> marker]), RemoveReq(f, FALSE, TRUE)>>

\* The pair of calls that takes a job out without touching the machine.
RemoveQuietly(f, marker, stop) ==
  <<ModifyReq(f, [progress |-> marker]), RemoveReq(f, stop, TRUE)>>

-----------------------------------------------------------------------------
(* Goroutines.  pc is the point where one stands; while there are requests *)
(* in todo it sends them and then continues at next, after the reply has   *)
(* come if the last one was a query.                                       *)

Blank == [id |-> 0, root |-> 0, headertag |-> "", macaddress |-> "",
          status |-> "done", progress |-> "none",
          timestamp |-> 0, periodic |-> 0, tminus |-> 0]

Idle == [pc |-> "idle", next |-> "idle", job |-> Blank, keep |-> FALSE,
         todo |-> <<>>, reply |-> {}]

Goto(s, requests, next, job, reply) ==
  thread' = [thread EXCEPT ![s] =
    IF requests = <<>> /\ next = "idle" THEN Idle
    ELSE [@ EXCEPT !.pc = IF requests = <<>> THEN next ELSE "send",
                   !.next = next, !.todo = requests, !.job = job,
                   !.reply = reply]]

Go(s, requests, next, job) == Goto(s, requests, next, job, {})

Free(s) == thread[s].pc = "idle"

\* Sends one request; the channel blocks its senders while it is full.
Send(s) ==
  LET t == thread[s] IN
  /\ t.pc = "send"
  /\ Len(jobDBRequests) < QueueCap
  /\ jobDBRequests' = Append(jobDBRequests, Head(t.todo))
  /\ thread' = [thread EXCEPT ![s] =
       IF Len(t.todo) > 1 THEN [t EXCEPT !.todo = Tail(@)]
       ELSE IF t.next = "idle" THEN Idle
       ELSE [t EXCEPT !.todo = <<>>,
               !.pc = IF Head(t.todo).op = "query" THEN "await" ELSE t.next]]
  /\ UNCHANGED <<dbVars, handlerVars, envVars, nextID, faistate>>

\* JobAddLocal takes the id in the calling goroutine, before the request is
\* sent: job is the job without an id, a new series starts with its own id.
WithNewId(job) ==
  [job EXCEPT !.id = nextID, !.root = IF @ = 0 THEN nextID ELSE @]

TakeId ==
  /\ nextID <= MaxID
  /\ nextID' = nextID + 1

-----------------------------------------------------------------------------
(* handleJobDBRequests.                                                    *)

HandlerReady == own = <<>> /\ batch = {} /\ clearing = Blank

\* addjob: the clone enters the database and its pings are scheduled.
AddJob(r) ==
  /\ jobDB' = jobDB \cup {r.job}
  /\ timers' = timers \cup PingTimes(r.job)
  /\ UNCHANGED <<PendingActions, launches, cancelled, batch, thread>>

\* deljob: every removed job goes to PendingActions as done.
RemoveLocal(r) ==
  LET gone == Query(jobDB, r.filter) IN
  /\ jobDB' = jobDB \ gone
  /\ PendingActions' = PendingActions \cup
       {[job |-> Done(j, r.stop), keep |-> r.keep, nth |-> 0] : j \in gone}
  /\ cancelled' = IF r.stop THEN cancelled \cup {j.root : j \in gone}
                  ELSE cancelled
  /\ UNCHANGED <<timers, launches, batch, thread>>

\* modifylocaljobs without status=launch: the jobs are replaced at once.
Modify(r) ==
  LET old == Query(jobDB, r.filter)
      new == {Apply(j, r.update) : j \in old}
  IN
  /\ jobDB' = (jobDB \ old) \cup new
  /\ timers' = timers \cup
       (IF "timestamp" \in DOMAIN r.update
          THEN UNION {PingTimes(j) : j \in new} ELSE {})
  /\ PendingActions' = PendingActions \cup
       (IF "status" \in DOMAIN r.update /\ r.update.status = "wakeup"
          THEN {[job |-> j, keep |-> FALSE, nth |-> 0] : j \in new} ELSE {})
  /\ UNCHANGED <<launches, cancelled, batch, thread>>

IsLaunch(r) == "status" \in DOMAIN r.update /\ r.update.status = "launch"

\* modifylocaljobs with status=launch: the jobs are queried now and launched
\* one after the other by the steps below.
BeginLaunch(r) ==
  /\ batch' = Query(jobDB, r.filter)
  /\ UNCHANGED <<dbVars, thread>>

\* JobsQuery: the caller waits for the reply.
AnswerQuery(r) ==
  /\ thread' = [thread EXCEPT ![r.slot].pc = thread[r.slot].next,
                              ![r.slot].reply = Query(jobDB, r.filter)]
  /\ UNCHANGED <<dbVars, batch>>

HandleRequest ==
  /\ HandlerReady
  /\ jobDBRequests # <<>>
  /\ jobDBRequests' = Tail(jobDBRequests)
  /\ LET r == Head(jobDBRequests) IN
       \/ r.op = "add" /\ AddJob(r)
       \/ r.op = "remove" /\ RemoveLocal(r)
       \/ r.op = "modify" /\ ~IsLaunch(r) /\ Modify(r)
       \/ r.op = "modify" /\ IsLaunch(r) /\ BeginLaunch(r)
       \/ r.op = "query" /\ AnswerQuery(r)
  /\ UNCHANGED <<own, clearing, envVars, nextID, faistate>>

\* Seeded bug: the clone is handed on unchanged.
KeepStatus(job) == job

\* status=launch stands for processing.
Launched(job) == [job EXCEPT !.status = "processing"]

\* The job is replaced and goes to PendingActions.
LaunchJob(job) ==
  LET running == Launched(job) IN
  /\ jobDB' = {j \in jobDB : j.id # job.id} \cup {running}
  /\ launches' = [launches EXCEPT ![job.id] = @ + 1]
  /\ PendingActions' = PendingActions \cup
       {[job |-> running, keep |-> FALSE, nth |-> launches[job.id] + 1]}
  /\ batch' = batch \ {job}
  /\ UNCHANGED <<timers, cancelled>>

\* Seeded bug: the competitors of an install job are left alone.
LaunchBesideOthers(job) ==
  /\ own = <<>> /\ clearing = Blank /\ job \in batch
  /\ LaunchJob(job)
  /\ UNCHANGED <<own, clearing, jobDBRequests, envVars, nextID, thread, faistate>>

\* The next job of the batch.  Only one install or update job can be in
\* status processing for a machine: the handler first asks for the removal
\* of the others, a request like any other that is executed later.
LaunchNext(job) ==
  /\ own = <<>> /\ clearing = Blank /\ job \in batch
  /\ IF IsInstall(job)
       THEN /\ own' = RemoveQuietly(Installing(job.macaddress, job.id),
                                    "groom", FALSE)
            /\ clearing' = job
            /\ UNCHANGED <<dbVars, batch>>
       ELSE /\ LaunchJob(job)
            /\ UNCHANGED <<own, clearing>>
  /\ UNCHANGED <<jobDBRequests, envVars, nextID, thread, faistate>>

LaunchCleared ==
  /\ own = <<>> /\ clearing # Blank
  /\ LaunchJob(clearing)
  /\ clearing' = Blank
  /\ UNCHANGED <<own, jobDBRequests, envVars, nextID, thread, faistate>>

\* The handler sends on the channel it alone reads from.
SendOwn ==
  /\ own # <<>>
  /\ Len(jobDBRequests) < QueueCap
  /\ jobDBRequests' = Append(jobDBRequests, Head(own))
  /\ own' = Tail(own)
  /\ UNCHANGED <<dbVars, batch, clearing, envVars, nextID, thread, faistate>>

\* A ping: launch what is due, wake machines whose window has opened.
ProcessPendingActions ==
  /\ HandlerReady
  /\ \E t \in timers : t <= clock /\ timers' = timers \ {t}
  /\ own' = <<ModifyReq(DueAt(clock), [status |-> "launch"]),
              ModifyReq(InWindow(clock, {j.tminus : j \in jobDB}),
                        [status |-> "wakeup"])>>
  /\ UNCHANGED <<jobDB, PendingActions, launches, cancelled, batch, clearing,
                 jobDBRequests, envVars, nextID, thread, faistate>>

-----------------------------------------------------------------------------
(* The action loop: every entry of PendingActions gets its own goroutine,  *)
(* so the order in which entries were pushed does not order the actions.   *)

TakePending(s) ==
  /\ Free(s)
  /\ \E p \in PendingActions :
       /\ PendingActions' = PendingActions \ {p}
       /\ thread' = [thread EXCEPT ![s] =
            [Idle EXCEPT !.pc = IF p.job.status = "done" THEN "done" ELSE "act",
                         !.job = p.job, !.keep = p.keep]]
  /\ UNCHANGED <<jobDB, timers, launches, cancelled, handlerVars,
                 jobDBRequests, envVars, nextID, faistate>>

\* The client is registered at a peer that is not down.  Which server a
\* client is registered at is outside this module.
MayForward(job) ==
  /\ "forward" \in Messages
  /\ job.progress # "forward-failed"
  /\ job.headertag \notin NeverForwarded

\* Forward(): the job leaves the database before it is sent to the peer.
ForwardJob(s) ==
  LET job == thread[s].job IN
  /\ thread[s].pc = "act"
  /\ MayForward(job)
  /\ Go(s, RemoveQuietly(ById({job.id}), "forward", TRUE), "forwarding", job)
  /\ UNCHANGED <<dbVars, handlerVars, jobDBRequests, envVars, nextID, faistate>>

ForwardDelivered(s) ==
  /\ thread[s].pc = "forwarding"
  /\ Go(s, <<>>, "idle", Blank)
  /\ UNCHANGED <<dbVars, handlerVars, jobDBRequests, envVars, nextID, faistate>>

\* The peer could not be reached: the job comes back under a new id.
ForwardFailed(s) ==
  LET again == [thread[s].job EXCEPT !.status = "waiting",
                                     !.progress = "forward-failed"] IN
  /\ thread[s].pc = "forwarding"
  /\ TakeId
  /\ Go(s, <<AddReq(WithNewId(again))>>, "idle", Blank)
  /\ UNCHANGED <<dbVars, handlerVars, jobDBRequests, envVars, faistate>>

\* Reinstall() and Update() set the state the machine will boot into.
TargetState(headertag) ==
  IF headertag = "trigger_action_reinstall" THEN "install" ELSE "softupdate"

\* The action itself.  Install and update jobs stay until the client reports
\* the end, a job woken early stays until its time, every other job is done.
Act(s) ==
  LET job == thread[s].job IN
  /\ thread[s].pc = "act"
  /\ IF job.status = "wakeup"
       THEN Go(s, <<>>, "idle", Blank) /\ UNCHANGED faistate
       ELSE IF IsInstall(job)
       THEN /\ faistate' = [faistate EXCEPT ![job.macaddress] =
                              TargetState(job.headertag)]
            /\ Go(s, <<>>, "idle", Blank)
       ELSE /\ Go(s, <<RemoveReq(ById({job.id}), FALSE, FALSE)>>, "idle", Blank)
            /\ UNCHANGED faistate
  /\ UNCHANGED <<dbVars, handlerVars, jobDBRequests, envVars, nextID>>

\* Reaction to a removal, first half: look at the state in LDAP.
ReadState(s) ==
  LET job == thread[s].job IN
  /\ thread[s].pc = "done"
  /\ Go(s, <<>>,
        IF /\ IsInstall(job)
           /\ faistate[job.macaddress] \in {"install", "softupdate"}
           /\ job.progress \notin {"forward", "groom"}
        THEN "setlocal" ELSE "followup", job)
  /\ UNCHANGED <<dbVars, handlerVars, jobDBRequests, envVars, nextID, faistate>>

\* Second half: write it.
SetLocalboot(s) ==
  LET job == thread[s].job IN
  /\ thread[s].pc = "setlocal"
  /\ faistate' = [faistate EXCEPT ![job.macaddress] = "localboot"]
  /\ Go(s, <<>>, "followup", job)
  /\ UNCHANGED <<dbVars, handlerVars, jobDBRequests, envVars, nextID>>

\* A periodic job is scheduled again under a new id.
FollowUp(s) ==
  LET job == thread[s].job IN
  /\ thread[s].pc = "followup"
  /\ IF job.periodic = 0
       THEN Go(s, <<>>, "idle", Blank) /\ UNCHANGED nextID
       ELSE /\ TakeId
            /\ Go(s, <<AddReq(NextInstance(job, nextID, clock))>>,
                  "idle", Blank)
  /\ UNCHANGED <<dbVars, handlerVars, jobDBRequests, envVars, faistate>>

-----------------------------------------------------------------------------
(* Messages.  Each arrives at a free goroutine and uses up one arrival.    *)

Arrives(kind, s) ==
  /\ kind \in Messages
  /\ arrivals > 0
  /\ arrivals' = arrivals - 1
  /\ Free(s)

\* job_trigger_action: a new job.
NewJob(headertag, mac, t, p, tm) ==
  [id |-> 0, root |-> 0, headertag |-> headertag, macaddress |-> mac,
   status |-> "waiting", progress |-> "none",
   timestamp |-> t, periodic |-> p, tminus |-> tm]

ReceiveAdd(s) ==
  /\ Arrives("add", s)
  /\ TakeId
  /\ \E tag \in NewTags, mac \in MAC, t \in clock..MaxTime,
        p \in Periods, tm \in TMinuses :
       Go(s, <<AddReq(WithNewId(NewJob(tag, mac, t, p, tm)))>>, "idle", Blank)
  /\ UNCHANGED <<dbVars, handlerVars, jobDBRequests, disk, clock, faistate>>

\* gosa_delete_jobdb_entry and gosa_update_status_jobdb_entry: GOsa acts on a
\* job whose status it has just displayed.  It deletes any job, pauses waiting
\* ones, resumes paused ones, and executes both by moving them to now.
GOsaUpdate(kind) ==
  CASE kind = "pause"      -> [status |-> "paused"]
    [] kind = "resume"     -> [status |-> "waiting"]
    [] kind = "reschedule" -> [status |-> "waiting", timestamp |-> clock]

GOsaOffers(kind, job) ==
  \/ kind = "pause" /\ job.status = "waiting"
  \/ kind = "resume" /\ job.status = "paused"
  \/ kind = "reschedule" /\ job.status \in {"waiting", "paused"}

ReceiveDelete(s) ==
  /\ Arrives("delete", s)
  /\ \E j \in jobDB :
       Go(s, <<RemoveReq(ById({j.id}), TRUE, FALSE)>>, "idle", Blank)
  /\ UNCHANGED <<dbVars, handlerVars, jobDBRequests, disk, clock, nextID,
                 faistate>>

ReceiveUpdate(s) ==
  \E kind \in {"pause", "resume", "reschedule"} :
    /\ Arrives(kind, s)
    /\ \E j \in jobDB :
         /\ GOsaOffers(kind, j)
         /\ Go(s, <<ModifyReq(ById({j.id}), GOsaUpdate(kind))>>, "idle", Blank)
    /\ UNCHANGED <<dbVars, handlerVars, jobDBRequests, disk, clock, nextID,
                   faistate>>

\* CLMSG_PROGRESS: 100 ends every processing job of the machine.
ReceiveProgress(s) ==
  /\ Arrives("progress", s)
  /\ \E mac \in MAC, p \in Percentages :
       Go(s, <<ModifyReq(BehindProgress(mac, p), [progress |-> p])>> \o
             (IF p = "100" THEN <<RemoveReq(Processing(mac), FALSE, FALSE)>>
                           ELSE <<>>), "idle", Blank)
  /\ UNCHANGED <<dbVars, handlerVars, jobDBRequests, disk, clock, nextID,
                 faistate>>

\* foreign_job_updates, case 2: a peer reports that it is installing the
\* machine, so the local jobs that do the same are dropped.
ReceiveForeign(s) ==
  /\ Arrives("fju", s)
  /\ \E mac \in MAC :
       Go(s, RemoveQuietly(Installing(mac, 0), "forward", TRUE), "idle", Blank)
  /\ UNCHANGED <<dbVars, handlerVars, jobDBRequests, disk, clock, nextID,
                 faistate>>

\* here_i_am, after the client has been registered: make the jobs agree with
\* the state in LDAP.
Subject(mac, headertag) ==
  [Blank EXCEPT !.headertag = headertag, !.macaddress = mac]

ReceiveHereIAm(s) ==
  /\ Arrives("hia", s)
  /\ \E mac \in MAC :
       LET wanted == IF faistate[mac] = "install" THEN "trigger_action_reinstall"
                                                  ELSE "trigger_action_update"
       IN  IF faistate[mac] = "localboot"
             THEN Go(s, RemoveQuietly(Installing(mac, 0), "groom", FALSE),
                     "window", Subject(mac, wanted))
             ELSE Go(s, <<QueryReq(ProcessingTag(mac, wanted), s)>>,
                     "ensure", Subject(mac, wanted))
  /\ UNCHANGED <<dbVars, handlerVars, jobDBRequests, disk, clock, nextID,
                 faistate>>

\* makeSureWeHaveAppropriateProcessingJob, after the reply: if there is no such
\* job the others are removed and one is added that is processing already.
EnsureJob(s) ==
  LET subject == thread[s].job
      running == [subject EXCEPT !.status = "processing", !.timestamp = clock]
  IN
  /\ thread[s].pc = "ensure"
  /\ IF thread[s].reply # {}
       THEN Go(s, <<>>, "window", subject) /\ UNCHANGED nextID
       ELSE /\ TakeId
            /\ Go(s, RemoveQuietly(Installing(subject.macaddress, 0), "groom",
                                   TRUE)
                     \o <<AddReq(WithNewId(running))>>, "window", subject)
  /\ UNCHANGED <<dbVars, handlerVars, jobDBRequests, envVars, faistate>>

\* The end of here_i_am: launch the jobs whose <tminus> window has opened.
QueryWindow(s) ==
  /\ thread[s].pc = "window"
  /\ Go(s, <<QueryReq(HasTminus(thread[s].job.macaddress), s)>>,
        "launch", thread[s].job)
  /\ UNCHANGED <<dbVars, handlerVars, jobDBRequests, envVars, nextID, faistate>>

\* Seeded bug: the duration is subtracted twice.
WindowTooWide(job) == clock >= job.timestamp - 2 * job.tminus

WindowOpen(job) == clock >= WindowStart(job)

LaunchWindow(s) ==
  LET open == {j.id : j \in {k \in thread[s].reply : WindowOpen(k)}} IN
  /\ thread[s].pc = "launch"
  /\ Go(s, IF open = {} THEN <<>>
           ELSE <<ModifyReq(ById(open), [status |-> "launch"])>>,
        "idle", Blank)
  /\ UNCHANGED <<dbVars, handlerVars, jobDBRequests, envVars, nextID, faistate>>

\* groomJobDB: jobs that should long have been launched or finished.
StartGroom(s) ==
  /\ Arrives("groom", s)
  /\ Go(s, <<QueryReq(OlderThan(clock), s)>>, "grooming", Blank)
  /\ UNCHANGED <<dbVars, handlerVars, jobDBRequests, disk, clock, nextID,
                 faistate>>

GroomRequests(job) ==
  IF IsInstall(job) /\ job.status = "processing"
    THEN IF faistate[job.macaddress] = TargetState(job.headertag)
           THEN <<>>
           ELSE RemoveQuietly(ById({job.id}), "groom", FALSE)
    ELSE <<ModifyReq(ById({job.id}), [status |-> "error"])>>

GroomJob(s) ==
  LET jobs == thread[s].reply IN
  /\ thread[s].pc = "grooming"
  /\ \/ jobs = {} /\ Go(s, <<>>, "idle", Blank)
     \/ \E j \in jobs :
          Goto(s, GroomRequests(j), "grooming", Blank, jobs \ {j})
  /\ UNCHANGED <<dbVars, handlerVars, jobDBRequests, envVars, nextID, faistate>>

\* Somebody else edits faiState: GOsa, the installer, an administrator.
EditLDAP ==
  /\ "ldap" \in Messages /\ arrivals > 0 /\ arrivals' = arrivals - 1
  /\ \E mac \in MAC, v \in FAIState :
       /\ v # faistate[mac]
       /\ faistate' = [faistate EXCEPT ![mac] = v]
  /\ UNCHANGED <<dbVars, handlerVars, jobDBRequests, disk, clock, nextID,
                 thread>>

-----------------------------------------------------------------------------
(* Time, persistence and restart.                                          *)

Tick ==
  /\ clock < MaxTime
  /\ clock' = clock + 1
  /\ UNCHANGED <<dbVars, handlerVars, jobDBRequests, disk, nextID, thread,
                 faistate, arrivals>>

\* A persist job of the database writes the file (module XmlDB has the
\* details); only a restart ever looks at it.
Persist ==
  /\ "restart" \in Messages
  /\ disk' = jobDB
  /\ UNCHANGED <<dbVars, handlerVars, jobDBRequests, clock, arrivals, nextID,
                 thread, faistate>>

\* Seeded bug: the counter continues with the greatest id itself.
GreatestId(db) ==
  CHOOSE n \in {j.id : j \in db} \cup {1} : \A j \in db : j.id <= n

FirstFreeId(db) ==
  1 + (CHOOSE n \in {j.id : j \in db} \cup {0} : \A j \in db : j.id <= n)

\* The process ends and JobsInit starts over from the file: the id counter
\* continues after the greatest id found there, every timestamp is scheduled.
Restart ==
  /\ "restart" \in Messages /\ arrivals > 0 /\ arrivals' = arrivals - 1
  /\ jobDB' = disk
  /\ nextID' = FirstFreeId(disk)
  /\ timers' = UNION {PingTimes(j) : j \in disk}
  /\ jobDBRequests' = <<>> /\ own' = <<>> /\ batch' = {} /\ clearing' = Blank
  /\ PendingActions' = {}
  /\ thread' = [s \in Slot |-> Idle]
  /\ launches' = [i \in 1..MaxID |-> 0]
  /\ cancelled' = {}
  /\ UNCHANGED <<disk, clock, faistate>>

-----------------------------------------------------------------------------
Init ==
  /\ jobDB = {} /\ disk = {}
  /\ nextID = 1
  /\ jobDBRequests = <<>> /\ own = <<>> /\ batch = {} /\ clearing = Blank
  /\ timers = {} /\ clock = 0
  /\ PendingActions = {}
  /\ thread = [s \in Slot |-> Idle]
  /\ faistate = [m \in MAC |-> "localboot"]
  /\ arrivals = MaxMessages
  /\ launches = [i \in 1..MaxID |-> 0]
  /\ cancelled = {}

Handler ==
  \/ HandleRequest
  \/ SendOwn
  \/ LaunchCleared
  \/ ProcessPendingActions
  \/ \E j \in batch : LaunchNext(j)

Goroutine(s) ==
  \/ Send(s)
  \/ TakePending(s)
  \/ ForwardJob(s) \/ ForwardDelivered(s) \/ ForwardFailed(s)
  \/ Act(s)
  \/ ReadState(s) \/ SetLocalboot(s) \/ FollowUp(s)
  \/ EnsureJob(s) \/ QueryWindow(s) \/ LaunchWindow(s)
  \/ GroomJob(s)

Receive(s) ==
  \/ ReceiveAdd(s) \/ ReceiveDelete(s) \/ ReceiveUpdate(s)
  \/ ReceiveProgress(s) \/ ReceiveForeign(s) \/ ReceiveHereIAm(s)
  \/ StartGroom(s)

Next ==
  \/ Handler
  \/ \E s \in Slot : Goroutine(s) \/ Receive(s)
  \/ EditLDAP \/ Tick \/ Persist \/ Restart

Spec == Init /\ [][Next]_vars

\* Goroutines that can run are run and time passes; messages need not come.
Fairness ==
  /\ WF_vars(Handler)
  /\ \A s \in Slot : WF_vars(Goroutine(s))
  /\ WF_vars(Tick)

FairSpec == Spec /\ Fairness

-----------------------------------------------------------------------------
(* Properties.                                                             *)

\* A job that has been given an id.
NumberedJob == {j \in Job : j.id \in 1..MaxID}

Request ==
       [op : {"add"}, job : NumberedJob]
  \cup [op : {"modify"}, filter : Filter, update : Update]
  \cup [op : {"remove"}, filter : Filter, stop : BOOLEAN, keep : BOOLEAN]
  \cup [op : {"query"}, filter : Filter, slot : Slot]

\* The points at which a goroutine holds no job, and those at which it does.
JobPC == {"done", "setlocal", "followup", "act", "forwarding", "ensure",
          "window"}
PC == JobPC \cup {"idle", "send", "await", "launch", "grooming"}

Thread == [pc : PC, next : PC \ {"send"}, job : Job \cup {Blank},
           keep : BOOLEAN, todo : Seq(Request), reply : SUBSET NumberedJob]

ThreadOK(t) ==
  /\ t.pc = "send" => t.todo # <<>>
  /\ (t.pc \in JobPC \/ t.next \in JobPC) => t.job \in Job

\* What an entry of PendingActions is: nth tells the launches of a job apart.
Pending == [job : Job, keep : BOOLEAN, nth : Nat]

\* Every variable has its type, and no goroutine is at a point where it needs a
\* job or a request it does not have.
TypeOK ==
  /\ jobDB \subseteq NumberedJob /\ disk \subseteq NumberedJob
  /\ nextID \in 1..(MaxID + 1)
  /\ jobDBRequests \in Seq(Request) /\ Len(jobDBRequests) <= QueueCap
  /\ own \in Seq(Request)
  /\ batch \subseteq NumberedJob /\ clearing \in batch \cup {Blank}
  /\ timers \subseteq Int /\ clock \in 0..MaxTime
  /\ PendingActions \subseteq Pending
  /\ thread \in [Slot -> Thread]
  /\ \A s \in Slot : ThreadOK(thread[s])
  /\ faistate \in [MAC -> FAIState]
  /\ arrivals \in 0..MaxMessages
  /\ launches \in [1..MaxID -> Nat]
  /\ cancelled \subseteq Nat

ThreadsAt(pcs) == {thread[s] : s \in {x \in Slot : thread[x].pc \in pcs}}

\* Removed jobs on their way through the done branch of process_act.go.
DoneEntries ==
  {p \in PendingActions : p.job.status = "done"}
    \cup ThreadsAt({"done", "setlocal", "followup"})

\* Jobs that have been given an id and are not in the database yet.
Adds(requests) ==
  {requests[i].job : i \in {n \in DOMAIN requests : requests[n].op = "add"}}
Arriving == Adds(jobDBRequests) \cup UNION {Adds(thread[s].todo) : s \in Slot}

\* Everything has been processed, nothing is on its way.
AtRest ==
  /\ HandlerReady /\ jobDBRequests = <<>> /\ PendingActions = {}
  /\ \A s \in Slot : Free(s)

\* An id names one job for its whole life: it occurs once in the database, a
\* job that is still to be added has an id of its own, and a job of which the
\* action loop is told "done" is in the database no more and will not return
\* (JobAddLocal, JobsRemoveLocal).
IdsNameOneJob ==
  /\ \A j, k \in jobDB : j.id = k.id => j = k
  /\ \A a \in Arriving : \A j \in jobDB : a.id # j.id
  /\ \A p \in DoneEntries :
       p.job.id \notin {j.id : j \in jobDB \cup Arriving}

\* The instances of a periodic series: in the database, on the way into it, or
\* removed with the follow-up still to be scheduled.
Instances(root) ==
       {<<"db", j.id>> : j \in {k \in jobDB : k.root = root}}
  \cup {<<"add", j.id>> : j \in {k \in Arriving : k.root = root}}
  \cup {<<"done", p.job.id>> : p \in {q \in DoneEntries :
                           q.job.root = root /\ q.job.periodic # 0}}

\* However removals, follow-ups and failed forwards interleave, the database
\* never holds two instances of a periodic job (FollowUp, Forward).
AtMostOneInstance == \A j, k \in jobDB : j.root = k.root => j = k

\* A series ends only when somebody stops it: unless the server is restarted
\* from an older file, the last instance disappears only if it is not periodic
\* or was removed with stop_periodic=true.
SeriesGoesOn ==
  [][Restart \/ \A root \in 1..MaxID :
       (Instances(root) # {} /\ Instances(root)' = {}) =>
          \/ root \in cancelled'
          \/ \E j \in jobDB : j.root = root /\ j.periodic = 0]_vars

\* A job is launched when its time has come or its <tminus> window is open,
\* never before, whichever of a ping and a here_i_am launches it.
LaunchedInWindow ==
  [][\A i \in 1..MaxID : launches'[i] > launches[i] =>
       \E j \in jobDB : j.id = i /\ WindowStart(j) <= clock]_vars

\* "do_not_run_progress_backwards" (clmsg_progress.go): no interleaving of
\* progress messages, each handled in a goroutine of its own, takes a job from
\* one percentage to a smaller one; only a restart returns to an older file.
ProgressNeverBackwards ==
  [][Restart \/ \A j \in jobDB, k \in jobDB' :
       (j.id = k.id /\ {j.progress, k.progress} \subseteq Percentages) =>
          Percent[j.progress] <= Percent[k.progress]]_vars

\* A job is launched at most once between two restarts, no matter how many pings
\* find it due (JobsModifyLocal), unless a here_i_am launches it in its <tminus>
\* window or GOsa makes it wait again.
LaunchedOnce == \A i \in DOMAIN launches : launches[i] <= 1

\* "Only one install or update job can be in status processing for the same
\* machine at the same time" (jobdb.go, JobsModifyLocal).  The removal is a
\* request of its own, so this can only be asked once nothing is on its way.
OneInstallAtRest ==
  AtRest => \A j, k \in jobDB :
    (/\ j.status = "processing" /\ k.status = "processing"
     /\ IsInstall(j) /\ IsInstall(k) /\ j.macaddress = k.macaddress) => j = k

\* A removal that is preceded by progress=groom or progress=forward "to prevent
\* faistate => localboot" never sets the machine to localboot.
QuietRemovalsStayQuiet ==
  \A s \in Slot : thread[s].pc = "setlocal" => ~thread[s].keep

Overdue(i) == \E j \in jobDB : /\ j.id = i /\ j.status \in {"waiting", "wakeup"}
                               /\ j.timestamp <= clock

\* "Whenever the time of a local job with status waiting has come it is put
\* into this queue" (jobdb.go, PendingActions).
DueJobsLaunch == \A i \in 1..MaxID : Overdue(i) ~> ~Overdue(i)
=============================================================================
