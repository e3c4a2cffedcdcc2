---------------------------- MODULE JobDB_proofs ----------------------------
(***************************************************************************)
(* Type correctness of JobDB and the uniqueness of job ids, for every set  *)
(* of machines, every number of goroutines and every channel capacity.     *)
(***************************************************************************)
EXTENDS JobDB, TLAPS, SequenceTheorems, WellFoundedInduction

-----------------------------------------------------------------------------
(* The operators of Jobs return what they should.                          *)

\* Applying an update, removing a job and launching it keep its id.
LEMMA JobOperators ==
  ASSUME NEW j \in Job, NEW u \in Update, NEW b \in BOOLEAN
  PROVE  /\ ("status" \in DOMAIN u => u.status # "launch") =>
              Apply(j, u) \in Job /\ Apply(j, u).id = j.id
         /\ Done(j, b) \in Job /\ Done(j, b).id = j.id
         /\ Done(j, b).status = "done"
         /\ Launched(j) \in Job /\ Launched(j).id = j.id
         /\ Launched(j).status = "processing"
         /\ PingTimes(j) \subseteq Int
<1>1. ("status" \in DOMAIN u => u.status # "launch") =>
        Apply(j, u) \in Job /\ Apply(j, u).id = j.id
  <2>1. CASE u \in [progress : Progress]
    BY <2>1 DEF Apply, Job
  <2>2. CASE u \in [status : Status \cup {"launch"}]
    BY <2>2 DEF Apply, Job
  <2>3. CASE u \in [status : Status, timestamp : Nat]
    BY <2>3 DEF Apply, Job
  <2> QED BY <2>1, <2>2, <2>3 DEF Update
<1>2. /\ Done(j, b) \in Job /\ Done(j, b).id = j.id
      /\ Done(j, b).status = "done"
  BY DEF Done, Job, Status
<1>3. /\ Launched(j) \in Job /\ Launched(j).id = j.id
      /\ Launched(j).status = "processing"
  BY DEF Launched, Job, Status
<1>4. PingTimes(j) \subseteq Int
  BY DEF PingTimes, WindowStart, Job
<1> QED BY <1>1, <1>2, <1>3, <1>4

\* The follow-up of a periodic job is a job again.
LEMMA NextInstanceType ==
  ASSUME NEW j \in Job, j.periodic # 0, NEW i \in Nat, NEW now \in Nat
  PROVE  NextInstance(j, i, now) \in Job /\ NextInstance(j, i, now).id = i
<1> DEFINE late == now - j.timestamp
           k == IF late <= j.periodic THEN 1
                ELSE (late + j.periodic - 1) \div j.periodic
<1>1. j.timestamp \in Nat /\ j.periodic \in Nat \ {0} /\ late \in Int
  BY DEF Job
<1>2. k \in Nat
  <2>1. CASE late <= j.periodic
    BY <2>1
  <2>2. CASE ~(late <= j.periodic)
    <3>1. late + j.periodic - 1 \in Nat
      BY <1>1, <2>2
    <3> HIDE DEF late
    <3>2. (late + j.periodic - 1) \div j.periodic \in Nat
      BY <1>1, <3>1
    <3> QED BY <2>2, <3>2
  <2> QED BY <2>1, <2>2
<1>3. k * j.periodic \in Nat
  <2> HIDE DEF k
  <2> QED BY <1>1, <1>2
<1>4. NextStart(j, now) = j.timestamp + k * j.periodic
  BY DEF NextStart
<1>5. NextStart(j, now) \in Nat
  <2> HIDE DEF k
  <2> QED BY <1>1, <1>3, <1>4
<1> QED BY <1>5 DEF NextInstance, Job, Status, Progress, Markers

\* The filters the code builds are filters.
LEMMA FilterTypes ==
  ASSUME NEW mac \in MAC, NEW tag \in HeaderTag, NEW n \in Nat,
         NEW ids \in SUBSET Nat, NEW p \in Percentages
  PROVE  /\ ById(ids) \in Filter /\ DueAt(n) \in Filter
         /\ InWindow(n, ids) \in Filter /\ OlderThan(n) \in Filter
         /\ Processing(mac) \in Filter /\ ProcessingTag(mac, tag) \in Filter
         /\ Installing(mac, n) \in Filter /\ BehindProgress(mac, p) \in Filter
         /\ HasTminus(mac) \in Filter
BY DEF Filter, ById, DueAt, InWindow, OlderThan, Processing, ProcessingTag,
       Installing, BehindProgress, HasTminus

\* A filter selects jobs of the database.
LEMMA QuerySubset == \A db, f : Query(db, f) \subseteq db
BY DEF Query

LEMMA RequestTypes ==
  ASSUME NEW f \in Filter, NEW u \in Update, NEW j \in NumberedJob,
         NEW b \in BOOLEAN, NEW c \in BOOLEAN, NEW s \in Slot
  PROVE  /\ AddReq(j) \in Request /\ ModifyReq(f, u) \in Request
         /\ RemoveReq(f, b, c) \in Request /\ QueryReq(f, s) \in Request
BY DEF AddReq, ModifyReq, RemoveReq, QueryReq, Request

\* What the fields of a request are, by its operation.
LEMMA RequestFields ==
  ASSUME NEW r \in Request
  PROVE  /\ r.op = "add" => r.job \in NumberedJob
         /\ r.op = "modify" => r.filter \in Filter /\ r.update \in Update
         /\ r.op = "remove" => /\ r.filter \in Filter /\ r.stop \in BOOLEAN
                               /\ r.keep \in BOOLEAN
         /\ r.op = "query" => r.filter \in Filter /\ r.slot \in Slot
BY DEF Request

LEMMA OneRequest == \A r \in Request : <<r>> \in Seq(Request)
OBVIOUS

LEMMA TwoRequests == \A r, q \in Request : <<r, q>> \in Seq(Request)
OBVIOUS

LEMMA RemoveQuietlyType ==
  ASSUME NEW f \in Filter, NEW marker \in Markers, NEW stop \in BOOLEAN
  PROVE  RemoveQuietly(f, marker, stop) \in Seq(Request)
<1>1. [progress |-> marker] \in Update
  BY DEF Update, Progress
<1> QED BY <1>1, RequestTypes DEF RemoveQuietly, ModifyReq, RemoveReq, Request

-----------------------------------------------------------------------------
(* Type correctness of the goroutines.                                     *)

ThreadsOK == /\ thread \in [Slot -> Thread]
             /\ \A s \in Slot : ThreadOK(thread[s])

LEMMA IdleType == Idle \in Thread /\ ThreadOK(Idle)
<1>1. <<>> \in Seq(Request)
  OBVIOUS
<1>2. {} \in SUBSET NumberedJob
  OBVIOUS
<1> QED BY <1>1, <1>2 DEF Idle, Thread, ThreadOK, PC, JobPC

\* A goroutine's record keeps its type when its fields get values of theirs.
LEMMA ThreadUpdate ==
  ASSUME NEW P, NEW N, NEW J, NEW K, NEW T, NEW R,
         NEW t \in [pc : P, next : N, job : J, keep : K, todo : T, reply : R],
         NEW pc \in P, NEW next \in N, NEW job \in J, NEW todo \in T,
         NEW reply \in R
  PROVE  LET u == [t EXCEPT !.pc = pc, !.next = next, !.todo = todo,
                            !.job = job, !.reply = reply]
         IN  /\ u \in [pc : P, next : N, job : J, keep : K, todo : T, reply : R]
             /\ u.pc = pc /\ u.next = next /\ u.job = job /\ u.todo = todo
OBVIOUS

LEMMA ThreadStart ==
  ASSUME NEW P, NEW N, NEW J, NEW K, NEW T, NEW R,
         NEW t \in [pc : P, next : N, job : J, keep : K, todo : T, reply : R],
         NEW pc \in P, NEW job \in J, NEW keep \in K
  PROVE  LET u == [t EXCEPT !.pc = pc, !.job = job, !.keep = keep]
         IN  /\ u \in [pc : P, next : N, job : J, keep : K, todo : T, reply : R]
             /\ u.pc = pc /\ u.next = t.next /\ u.job = job
OBVIOUS

\* A goroutine that continues where it has what it needs is well typed.
LEMMA GotoType ==
  ASSUME ThreadsOK, NEW s \in Slot, NEW requests \in Seq(Request),
         NEW next \in PC \ {"send"}, NEW job \in Job \cup {Blank},
         NEW reply \in SUBSET NumberedJob, next \in JobPC => job \in Job,
         Goto(s, requests, next, job, reply)
  PROVE  ThreadsOK'
<1> DEFINE t == thread[s]
           new == [t EXCEPT !.pc = IF requests = <<>> THEN next ELSE "send",
                            !.next = next, !.todo = requests, !.job = job,
                            !.reply = reply]
<1>1. t \in Thread
  BY DEF ThreadsOK
<1>2. new \in Thread /\ ThreadOK(new)
  <2>1. (IF requests = <<>> THEN next ELSE "send") \in PC
    BY DEF PC
  <2>2. new \in Thread /\ new.pc = IF requests = <<>> THEN next ELSE "send"
    BY <1>1, <2>1, ThreadUpdate DEF Thread
  <2>3. new.next = next /\ new.job = job /\ new.todo = requests
    BY <1>1, <2>1, ThreadUpdate DEF Thread
  <2>4. ThreadOK(new)
    BY <2>2, <2>3 DEF ThreadOK, JobPC
  <2> QED BY <2>2, <2>4
<1>3. thread' = [thread EXCEPT ![s] =
                   IF requests = <<>> /\ next = "idle" THEN Idle ELSE new]
  BY DEF Goto
<1>4. \A x \in Slot : \/ thread'[x] = thread[x]
                       \/ thread'[x] = Idle \/ thread'[x] = new
  BY <1>3 DEF ThreadsOK
<1>5. thread' = [x \in Slot |-> thread'[x]]
  BY <1>3 DEF ThreadsOK
<1> HIDE DEF new, t
<1> QED BY <1>2, <1>4, <1>5, IdleType DEF ThreadsOK

LEMMA GoType ==
  ASSUME ThreadsOK, NEW s \in Slot, NEW requests \in Seq(Request),
         NEW next \in PC \ {"send"}, NEW job \in Job \cup {Blank},
         next \in JobPC => job \in Job,
         Go(s, requests, next, job)
  PROVE  ThreadsOK'
<1>1. {} \in SUBSET NumberedJob
  OBVIOUS
<1>2. Goto(s, requests, next, job, {})
  BY DEF Go
<1> QED BY <1>1, <1>2, GotoType

LEMMA BlankType == Blank \notin Job /\ Blank.periodic = 0 /\ Blank.id = 0
BY ConstantsOK DEF Blank, Job

LEMMA MaxIDNat == MaxID \in Nat /\ MaxTime \in Nat /\ MaxMessages \in Nat
BY ConstantsOK

\* The id taken by JobAddLocal is a valid one.
LEMMA TakeIdType ==
  ASSUME TypeOK, TakeId
  PROVE  /\ nextID \in 1..MaxID /\ nextID' \in 1..(MaxID + 1)
         /\ \A j \in Job : WithNewId(j) \in NumberedJob
<1>1. MaxID \in Nat /\ nextID \in 1..(MaxID + 1)
  BY ConstantsOK DEF TypeOK
<1>2. nextID \in 1..MaxID /\ nextID' \in 1..(MaxID + 1)
  BY <1>1 DEF TakeId
<1>3. ASSUME NEW j \in Job
      PROVE  WithNewId(j) \in NumberedJob
  <2>1. nextID \in Nat /\ j.root \in Nat
    BY <1>2, MaxIDNat DEF Job
  <2>2. (IF j.root = 0 THEN nextID ELSE j.root) \in Nat
    BY <2>1
  <2>3. WithNewId(j) \in Job /\ WithNewId(j).id = nextID
    BY <2>1, <2>2 DEF WithNewId, Job
  <2> QED BY <1>2, <2>3 DEF NumberedJob
<1> QED BY <1>2, <1>3

-----------------------------------------------------------------------------
(* Each action preserves the types.                                        *)

LEMMA SendType == ASSUME TypeOK, NEW s \in Slot, Send(s) PROVE TypeOK'
<1> DEFINE t == thread[s]
           rest == [t EXCEPT !.todo = Tail(@)]
           last == [t EXCEPT !.todo = <<>>,
                      !.pc = IF Head(t.todo).op = "query" THEN "await" ELSE t.next]
<1>1. t \in Thread /\ ThreadOK(t) /\ t.pc = "send"
  BY DEF TypeOK, Send
<1>2. t.todo \in Seq(Request) /\ t.todo # <<>>
  BY <1>1 DEF Thread, ThreadOK
<1>3. Head(t.todo) \in Request /\ Tail(t.todo) \in Seq(Request)
  BY <1>2
<1>4. /\ jobDBRequests' \in Seq(Request)
      /\ Len(jobDBRequests') <= QueueCap
  <2> DEFINE q == Head(t.todo)
  <2>1. /\ jobDBRequests \in Seq(Request) /\ Len(jobDBRequests) < QueueCap
        /\ jobDBRequests' = Append(jobDBRequests, q) /\ q \in Request
        /\ QueueCap \in Nat
    BY <1>3, ConstantsOK DEF TypeOK, Send
  <2> HIDE DEF q
  <2> QED BY <2>1, AppendProperties, LenProperties
<1>5. CASE Len(t.todo) > 1
  <2>1. Tail(t.todo) # <<>>
    BY <1>2, <1>5
  <2>2. rest \in Thread /\ ThreadOK(rest)
    BY <1>1, <1>3, <2>1 DEF Thread, ThreadOK
  <2>3. thread' = [thread EXCEPT ![s] = rest]
    BY <1>5 DEF Send
  <2> HIDE DEF rest
  <2>4. ThreadsOK'
    BY <2>2, <2>3 DEF TypeOK, ThreadsOK
  <2> QED BY <2>4, <1>4
         DEF TypeOK, ThreadsOK, Send, dbVars, handlerVars, envVars
<1>6. CASE ~(Len(t.todo) > 1)
  <2> DEFINE pc == IF Head(t.todo).op = "query" THEN "await" ELSE t.next
  <2>0. pc \in PC \ {"send"} /\ (pc \in JobPC => t.next \in JobPC)
    BY <1>1 DEF Thread, PC, JobPC
  <2> HIDE DEF pc
  <2>1. last \in Thread /\ ThreadOK(last)
    <3>1. last = [t EXCEPT !.todo = <<>>, !.pc = pc]
      BY DEF pc
    <3>2. <<>> \in Seq(Request)
      OBVIOUS
    <3> QED BY <1>1, <2>0, <3>1, <3>2 DEF Thread, ThreadOK
  <2>2. thread' = [thread EXCEPT ![s] = IF t.next = "idle" THEN Idle ELSE last]
    BY <1>6 DEF Send
  <2> HIDE DEF last
  <2>3. ThreadsOK'
    BY <2>1, <2>2, IdleType DEF TypeOK, ThreadsOK
  <2> QED BY <2>3, <1>4
         DEF TypeOK, ThreadsOK, Send, dbVars, handlerVars, envVars
<1> QED BY <1>5, <1>6

\* One step of handleJobDBRequests, by the kind of the request.
LEMMA HandleRequestType == ASSUME TypeOK, HandleRequest PROVE TypeOK'
<1> DEFINE r == Head(jobDBRequests)
<1>1. r \in Request /\ jobDBRequests' \in Seq(Request)
  BY DEF TypeOK, HandleRequest
<1>2. Len(jobDBRequests') <= QueueCap
  <2>1. /\ jobDBRequests \in Seq(Request) /\ jobDBRequests # <<>>
        /\ Len(jobDBRequests) <= QueueCap /\ jobDBRequests' = Tail(jobDBRequests)
    BY DEF TypeOK, HandleRequest
  <2>2. QueueCap \in Nat
    BY ConstantsOK
  <2> QED BY <2>1, <2>2, HeadTailProperties, LenProperties
<1>3. /\ own = <<>> /\ batch = {} /\ clearing = Blank
      /\ UNCHANGED <<own, clearing, disk, clock, arrivals, nextID, faistate>>
  BY DEF HandleRequest, HandlerReady, envVars
<1> USE DEF NumberedJob
<1>4. CASE r.op = "add" /\ AddJob(r)
  <2>1. r.job \in NumberedJob
    BY <1>1, <1>4, RequestFields
  <2>2. PingTimes(r.job) \subseteq Int
    BY <2>1 DEF PingTimes, WindowStart, Job
  <2> QED BY <1>1, <1>2, <1>3, <1>4, <2>1, <2>2 DEF TypeOK, AddJob
<1>5. CASE r.op = "remove" /\ RemoveLocal(r)
  <2> DEFINE gone == Query(jobDB, r.filter)
  <2>1. r.stop \in BOOLEAN /\ r.keep \in BOOLEAN
    BY <1>1, <1>5, RequestFields
  <2>2. gone \subseteq NumberedJob
    BY QuerySubset DEF TypeOK
  <2>3. \A j \in gone : Done(j, r.stop) \in Job /\ j.root \in Nat
    BY <2>1, <2>2 DEF Done, Job, Status
  <2>4. {[job |-> Done(j, r.stop), keep |-> r.keep, nth |-> 0] : j \in gone}
          \subseteq Pending
    BY <2>1, <2>3 DEF Pending
  <2> HIDE DEF gone
  <2>5. jobDB' \subseteq NumberedJob /\ PendingActions' \subseteq Pending
    BY <1>5, <2>4 DEF TypeOK, RemoveLocal, gone
  <2>6. cancelled' \subseteq Nat
    BY <1>5, <2>3 DEF TypeOK, RemoveLocal, gone
  <2> QED BY <1>1, <1>2, <1>3, <1>5, <2>5, <2>6 DEF TypeOK, RemoveLocal
<1>6. CASE r.op = "modify" /\ ~IsLaunch(r) /\ Modify(r)
  <2> DEFINE old == Query(jobDB, r.filter)
             new == {Apply(j, r.update) : j \in old}
  <2>1. r.update \in Update
    BY <1>1, <1>6, RequestFields
  <2>2. "status" \in DOMAIN r.update => r.update.status # "launch"
    BY <1>6 DEF IsLaunch
  <2>3. old \subseteq NumberedJob
    BY QuerySubset DEF TypeOK
  <2>4. \A j \in old : Apply(j, r.update) \in NumberedJob
    BY <2>1, <2>2, <2>3, JobOperators
  <2>5. new \subseteq NumberedJob
    BY <2>4
  <2>6. \A j \in new : PingTimes(j) \subseteq Int
    BY <2>5 DEF PingTimes, WindowStart, Job
  <2> HIDE DEF old, new
  <2>7. {[job |-> j, keep |-> FALSE, nth |-> 0] : j \in new} \subseteq Pending
    <3>1. ASSUME NEW j \in new
          PROVE  [job |-> j, keep |-> FALSE, nth |-> 0] \in Pending
      <4>1. j \in Job
        BY <2>5
      <4> QED BY <4>1 DEF Pending
    <3> QED BY <3>1
  <2>8. jobDB' \subseteq NumberedJob /\ PendingActions' \subseteq Pending
    BY <1>6, <2>5, <2>7 DEF TypeOK, Modify, old, new
  <2>9. timers' \subseteq Int
    BY <1>6, <2>6 DEF TypeOK, Modify, old, new
  <2> QED BY <1>1, <1>2, <1>3, <1>6, <2>8, <2>9 DEF TypeOK, Modify
<1>7. CASE r.op = "modify" /\ IsLaunch(r) /\ BeginLaunch(r)
  <2>1. batch' \subseteq NumberedJob
    BY <1>7, QuerySubset DEF TypeOK, BeginLaunch
  <2> QED BY <1>1, <1>2, <1>3, <1>7, <2>1 DEF TypeOK, BeginLaunch, dbVars
<1>8. CASE r.op = "query" /\ AnswerQuery(r)
  <2>1. r.slot \in Slot
    BY <1>1, <1>8, RequestFields
  <2> DEFINE t == thread[r.slot]
             found == Query(jobDB, r.filter)
             new == [[t EXCEPT !.pc = t.next] EXCEPT !.reply = found]
  <2>2. found \in SUBSET NumberedJob
    BY QuerySubset DEF TypeOK
  <2> HIDE DEF found
  <2>3. t \in Thread /\ ThreadOK(t)
    BY <2>1 DEF TypeOK
  <2>4. new \in Thread /\ ThreadOK(new)
    BY <2>2, <2>3 DEF Thread, ThreadOK
  <2>5. thread' = [thread EXCEPT ![r.slot] = new]
    BY <1>8, <2>1, <2>3 DEF AnswerQuery, TypeOK, Thread, found
  <2> HIDE DEF new
  <2>6. ThreadsOK'
    BY <2>1, <2>4, <2>5 DEF TypeOK, ThreadsOK
  <2> QED BY <1>1, <1>2, <1>3, <1>8, <2>6
         DEF TypeOK, ThreadsOK, AnswerQuery, dbVars
<1> QED BY <1>4, <1>5, <1>6, <1>7, <1>8 DEF HandleRequest

\* Launching a job of the batch counts the launch and hands the job on.
LEMMA LaunchJobType ==
  ASSUME TypeOK, NEW job \in batch, LaunchJob(job)
  PROVE  /\ jobDB' \subseteq NumberedJob /\ launches' \in [1..MaxID -> Nat]
         /\ PendingActions' \subseteq Pending
         /\ batch' = batch \ {job} /\ UNCHANGED <<timers, cancelled>>
<1>1. job \in Job /\ job.id \in 1..MaxID
  BY DEF TypeOK, NumberedJob
<1>2. Launched(job) \in Job /\ Launched(job).id = job.id
  BY <1>1 DEF Launched, Job, Status
<1>3. launches[job.id] + 1 \in Nat
  BY <1>1 DEF TypeOK
<1> DEFINE entry == [job |-> Launched(job), keep |-> FALSE,
                     nth |-> launches[job.id] + 1]
<1>4. entry \in Pending
  BY <1>2, <1>3 DEF Pending
<1> HIDE DEF entry
<1>5. PendingActions' \subseteq Pending
  BY <1>4 DEF TypeOK, LaunchJob, entry
<1>6. jobDB' \subseteq NumberedJob
  BY <1>1, <1>2 DEF TypeOK, LaunchJob, NumberedJob
<1>7. launches' \in [1..MaxID -> Nat]
  BY <1>1, <1>3 DEF TypeOK, LaunchJob
<1> QED BY <1>5, <1>6, <1>7 DEF LaunchJob

LEMMA LaunchNextType ==
  ASSUME TypeOK, NEW job \in batch, LaunchNext(job) PROVE TypeOK'
<1>1. own = <<>> /\ clearing = Blank
  BY DEF LaunchNext
<1>2. CASE IsInstall(job)
  <2>1. job \in Job /\ job.id \in Nat /\ job.macaddress \in MAC
    BY DEF TypeOK, NumberedJob, Job
  <2>2. Installing(job.macaddress, job.id) \in Filter
    BY <2>1 DEF Installing, Filter
  <2>3. own' \in Seq(Request)
    BY <1>2, <2>2, RemoveQuietlyType DEF LaunchNext, Markers
  <2>4. batch' = batch /\ clearing' = job
    BY <1>2 DEF LaunchNext
  <2> QED BY <1>2, <2>3, <2>4 DEF LaunchNext, TypeOK, dbVars, envVars
<1>3. CASE ~IsInstall(job)
  <2>1. LaunchJob(job)
    BY <1>3 DEF LaunchNext
  <2>2. batch' \subseteq NumberedJob /\ clearing' \in batch' \cup {Blank}
    BY <1>1, <1>3, <2>1, LaunchJobType DEF LaunchNext, TypeOK
  <2> QED BY <1>3, <2>1, <2>2, LaunchJobType DEF LaunchNext, TypeOK, envVars
<1> QED BY <1>2, <1>3

LEMMA LaunchClearedType == ASSUME TypeOK, LaunchCleared PROVE TypeOK'
<1>1. clearing \in batch /\ LaunchJob(clearing) /\ clearing' = Blank
  BY DEF LaunchCleared, TypeOK
<1>2. batch' \subseteq NumberedJob
  BY <1>1, LaunchJobType DEF TypeOK
<1> QED BY <1>1, <1>2, LaunchJobType DEF LaunchCleared, TypeOK, envVars

LEMMA SendOwnType == ASSUME TypeOK, SendOwn PROVE TypeOK'
<1> DEFINE q == Head(own)
<1>1. q \in Request /\ own' \in Seq(Request)
  BY DEF SendOwn, TypeOK
<1>2. /\ jobDBRequests \in Seq(Request) /\ Len(jobDBRequests) < QueueCap
      /\ jobDBRequests' = Append(jobDBRequests, q) /\ QueueCap \in Nat
  BY ConstantsOK DEF SendOwn, TypeOK
<1> HIDE DEF q
<1>3. jobDBRequests' \in Seq(Request) /\ Len(jobDBRequests') <= QueueCap
  BY <1>1, <1>2, AppendProperties, LenProperties
<1> QED BY <1>1, <1>3 DEF SendOwn, TypeOK, dbVars, envVars

LEMMA ProcessPendingActionsType ==
  ASSUME TypeOK, ProcessPendingActions PROVE TypeOK'
<1> DEFINE window == {j.tminus : j \in jobDB}
<1>1. clock \in Nat /\ window \in SUBSET Nat
  BY MaxIDNat DEF TypeOK, NumberedJob, Job
<1> HIDE DEF window
<1>2. /\ [status |-> "launch"] \in Update /\ [status |-> "wakeup"] \in Update
      /\ DueAt(clock) \in Filter /\ InWindow(clock, window) \in Filter
  BY <1>1 DEF Update, Status, DueAt, InWindow, Filter
<1>3. own' \in Seq(Request)
  <2>1. /\ ModifyReq(DueAt(clock), [status |-> "launch"]) \in Request
        /\ ModifyReq(InWindow(clock, window), [status |-> "wakeup"]) \in Request
    BY <1>2 DEF ModifyReq, Request
  <2>2. own' = <<ModifyReq(DueAt(clock), [status |-> "launch"]),
                 ModifyReq(InWindow(clock, window), [status |-> "wakeup"])>>
    BY DEF ProcessPendingActions, window
  <2> QED BY <2>1, <2>2, TwoRequests
<1>4. timers' \subseteq Int
  BY DEF ProcessPendingActions, TypeOK
<1> QED BY <1>3, <1>4 DEF ProcessPendingActions, TypeOK, envVars

LEMMA TakePendingType ==
  ASSUME TypeOK, NEW s \in Slot, TakePending(s) PROVE TypeOK'
<1>1. PICK p \in PendingActions :
        /\ PendingActions' = PendingActions \ {p}
        /\ thread' = [thread EXCEPT ![s] =
             [Idle EXCEPT !.pc = IF p.job.status = "done" THEN "done" ELSE "act",
                          !.job = p.job, !.keep = p.keep]]
  BY DEF TakePending
<1>2. p.job \in Job /\ p.keep \in BOOLEAN
  BY DEF TypeOK, Pending
<1> DEFINE new == [Idle EXCEPT !.pc = IF p.job.status = "done" THEN "done" ELSE "act",
                               !.job = p.job, !.keep = p.keep]
<1>3. new \in Thread /\ ThreadOK(new)
  <2> DEFINE pc == IF p.job.status = "done" THEN "done" ELSE "act"
  <2>1. pc \in PC /\ pc # "send"
    BY DEF PC, JobPC
  <2>2. Idle \in Thread /\ Idle.next = "idle"
    BY IdleType DEF Idle
  <2> HIDE DEF pc
  <2>3. /\ new \in Thread
        /\ new.pc = pc /\ new.next = Idle.next /\ new.job = p.job
    BY <1>2, <2>1, <2>2, ThreadStart DEF pc, Thread
  <2>4. ThreadOK(new)
    BY <1>2, <2>1, <2>2, <2>3 DEF ThreadOK
  <2> QED BY <2>3, <2>4
<1>4. thread' = [thread EXCEPT ![s] = new]
  BY <1>1
<1> HIDE DEF new
<1>5. ThreadsOK'
  BY <1>3, <1>4 DEF TypeOK, ThreadsOK
<1>6. PendingActions' \subseteq Pending
  BY <1>1 DEF TypeOK
<1> QED BY <1>5, <1>6
       DEF TakePending, TypeOK, ThreadsOK, handlerVars, envVars

-----------------------------------------------------------------------------
(* The goroutines: what a step of one of them may touch.                   *)

LEMMA GoroutineFrame ==
  ASSUME TypeOK, ThreadsOK',
         UNCHANGED <<dbVars, handlerVars, jobDBRequests, disk, clock>>,
         nextID' \in 1..(MaxID + 1), faistate' \in [MAC -> FAIState],
         arrivals' \in 0..MaxMessages
  PROVE  TypeOK'
BY DEF TypeOK, ThreadsOK, dbVars, handlerVars

LEMMA Continues ==
  ASSUME NEW next \in {"idle", "send", "done", "setlocal", "followup", "act",
                       "forwarding", "ensure", "window", "launch", "grooming"},
         next # "send"
  PROVE  next \in PC \ {"send"}
BY DEF PC, JobPC

\* A goroutine at a point that needs a job holds one.
LEMMA HoldsJob ==
  ASSUME TypeOK, NEW s \in Slot, thread[s].pc \in JobPC
  PROVE  /\ thread[s].job \in Job
         /\ thread[s].job.macaddress \in MAC /\ thread[s].job.id \in Nat
         /\ ThreadsOK
BY DEF TypeOK, ThreadOK, ThreadsOK, Job

LEMMA ForwardJobType ==
  ASSUME TypeOK, NEW s \in Slot, ForwardJob(s) PROVE TypeOK'
<1> DEFINE job == thread[s].job
<1>1. job \in Job /\ job.id \in Nat /\ ThreadsOK
  BY HoldsJob DEF ForwardJob, JobPC
<1>2. ById({job.id}) \in Filter
  BY <1>1 DEF ById, Filter
<1>3. RemoveQuietly(ById({job.id}), "forward", TRUE) \in Seq(Request)
  BY <1>2, RemoveQuietlyType DEF Markers
<1>4. Go(s, RemoveQuietly(ById({job.id}), "forward", TRUE), "forwarding", job)
  BY DEF ForwardJob
<1>5. ThreadsOK'
  BY <1>1, <1>3, <1>4, GoType, Continues
<1> QED BY <1>5, GoroutineFrame DEF ForwardJob, TypeOK, envVars

LEMMA ForwardDeliveredType ==
  ASSUME TypeOK, NEW s \in Slot, ForwardDelivered(s) PROVE TypeOK'
<1>1. Go(s, <<>>, "idle", Blank) /\ ThreadsOK
  BY HoldsJob DEF ForwardDelivered, JobPC
<1>2. ThreadsOK'
  BY <1>1, GoType, Continues, EmptySeq DEF JobPC
<1> QED BY <1>2, GoroutineFrame DEF ForwardDelivered, TypeOK, envVars

LEMMA ForwardFailedType ==
  ASSUME TypeOK, NEW s \in Slot, ForwardFailed(s) PROVE TypeOK'
<1> DEFINE again == [thread[s].job EXCEPT !.status = "waiting",
                                          !.progress = "forward-failed"]
<1>1. thread[s].job \in Job /\ ThreadsOK /\ TakeId
  BY HoldsJob DEF ForwardFailed, JobPC
<1>2. again \in Job
  BY <1>1 DEF Job, Status, Progress, Markers
<1>3. Go(s, <<AddReq(WithNewId(again))>>, "idle", Blank)
  BY DEF ForwardFailed
<1> HIDE DEF again
<1>4. AddReq(WithNewId(again)) \in Request
  BY <1>1, <1>2, TakeIdType DEF AddReq, Request
<1>5. <<AddReq(WithNewId(again))>> \in Seq(Request)
  BY <1>4
<1>6. ThreadsOK'
  BY <1>1, <1>3, <1>5, GoType, Continues DEF JobPC
<1> QED BY <1>1, <1>6, GoroutineFrame, TakeIdType
       DEF ForwardFailed, TypeOK, envVars

LEMMA ActType == ASSUME TypeOK, NEW s \in Slot, Act(s) PROVE TypeOK'
<1> DEFINE job == thread[s].job
<1>1. job \in Job /\ job.id \in Nat /\ ThreadsOK
  BY HoldsJob DEF Act, JobPC
<1>2. RemoveReq(ById({job.id}), FALSE, FALSE) \in Request
  BY <1>1 DEF ById, Filter, RemoveReq, Request
<1>3. <<RemoveReq(ById({job.id}), FALSE, FALSE)>> \in Seq(Request)
  BY <1>2, OneRequest
<1>4. \/ Go(s, <<>>, "idle", Blank)
      \/ Go(s, <<RemoveReq(ById({job.id}), FALSE, FALSE)>>, "idle", Blank)
  BY DEF Act
<1>5. ThreadsOK'
  BY <1>1, <1>3, <1>4, GoType, Continues, EmptySeq DEF JobPC
<1>6. faistate' \in [MAC -> FAIState]
  BY DEF Act, TypeOK, TargetState, FAIState
<1> QED BY <1>5, <1>6, GoroutineFrame DEF Act, TypeOK, envVars

LEMMA DoneBranchType ==
  ASSUME TypeOK, NEW s \in Slot, ReadState(s) \/ SetLocalboot(s) PROVE TypeOK'
<1> DEFINE job == thread[s].job
<1>1. job \in Job /\ ThreadsOK
  BY HoldsJob DEF ReadState, SetLocalboot, JobPC
<1>2. Go(s, <<>>, "setlocal", job) \/ Go(s, <<>>, "followup", job)
  BY DEF ReadState, SetLocalboot
<1>3. ThreadsOK'
  BY <1>1, <1>2, GoType, Continues, EmptySeq
<1>4. faistate' \in [MAC -> FAIState]
  BY DEF ReadState, SetLocalboot, TypeOK, FAIState
<1> QED BY <1>3, <1>4, GoroutineFrame
       DEF ReadState, SetLocalboot, TypeOK, envVars

LEMMA FollowUpType == ASSUME TypeOK, NEW s \in Slot, FollowUp(s) PROVE TypeOK'
<1> DEFINE job == thread[s].job
<1>1. job \in Job /\ ThreadsOK /\ clock \in Nat
  BY HoldsJob, MaxIDNat DEF FollowUp, JobPC, TypeOK
<1>2. CASE job.periodic = 0
  <2>1. Go(s, <<>>, "idle", Blank) /\ nextID' = nextID
    BY <1>2 DEF FollowUp
  <2>2. ThreadsOK'
    BY <1>1, <2>1, GoType, Continues, EmptySeq DEF JobPC
  <2> QED BY <2>1, <2>2, GoroutineFrame DEF FollowUp, TypeOK, envVars
<1>3. CASE job.periodic # 0
  <2> DEFINE next == NextInstance(job, nextID, clock)
  <2>1. TakeId /\ Go(s, <<AddReq(next)>>, "idle", Blank)
    BY <1>3 DEF FollowUp
  <2>2. nextID \in 1..MaxID /\ nextID \in Nat
    BY <2>1, TakeIdType, MaxIDNat
  <2>3. next \in NumberedJob
    BY <1>1, <1>3, <2>2, NextInstanceType DEF NumberedJob
  <2> HIDE DEF next
  <2>4. AddReq(next) \in Request
    BY <2>3 DEF AddReq, Request
  <2>5. <<AddReq(next)>> \in Seq(Request)
    BY <2>4
  <2>6. ThreadsOK'
    BY <1>1, <2>1, <2>5, GoType, Continues DEF JobPC
  <2> QED BY <2>1, <2>6, GoroutineFrame, TakeIdType
         DEF FollowUp, TypeOK, envVars
<1> QED BY <1>2, <1>3

LEMMA EnsureJobType == ASSUME TypeOK, NEW s \in Slot, EnsureJob(s) PROVE TypeOK'
<1> DEFINE subject == thread[s].job
           running == [subject EXCEPT !.status = "processing",
                                      !.timestamp = clock]
           quietly == RemoveQuietly(Installing(subject.macaddress, 0), "groom",
                                    TRUE)
<1>1. /\ subject \in Job /\ subject.macaddress \in MAC /\ ThreadsOK
      /\ clock \in Nat
  BY HoldsJob, MaxIDNat DEF EnsureJob, JobPC, TypeOK
<1>2. CASE thread[s].reply # {}
  <2>1. Go(s, <<>>, "window", subject) /\ nextID' = nextID
    BY <1>2 DEF EnsureJob
  <2>2. ThreadsOK'
    BY <1>1, <2>1, GoType, Continues, EmptySeq
  <2> QED BY <2>1, <2>2, GoroutineFrame DEF EnsureJob, TypeOK, envVars
<1>3. CASE thread[s].reply = {}
  <2>1. /\ TakeId
        /\ Go(s, quietly \o <<AddReq(WithNewId(running))>>, "window", subject)
    BY <1>3 DEF EnsureJob
  <2>2. running \in Job
    BY <1>1 DEF Job, Status
  <2> HIDE DEF running
  <2>3. AddReq(WithNewId(running)) \in Request
    BY <2>1, <2>2, TakeIdType DEF AddReq, Request
  <2>4. <<AddReq(WithNewId(running))>> \in Seq(Request)
    BY <2>3, OneRequest
  <2>5. Installing(subject.macaddress, 0) \in Filter
    BY <1>1 DEF Installing, Filter
  <2>6. quietly \in Seq(Request)
    BY <2>5, RemoveQuietlyType DEF Markers
  <2> HIDE DEF quietly
  <2>7. quietly \o <<AddReq(WithNewId(running))>> \in Seq(Request)
    BY <2>4, <2>6, ConcatProperties
  <2>8. ThreadsOK'
    BY <1>1, <2>1, <2>7, GoType, Continues
  <2> QED BY <2>1, <2>8, GoroutineFrame, TakeIdType
         DEF EnsureJob, TypeOK, envVars
<1> QED BY <1>2, <1>3

LEMMA QueryWindowType ==
  ASSUME TypeOK, NEW s \in Slot, QueryWindow(s) PROVE TypeOK'
<1> DEFINE subject == thread[s].job
           request == QueryReq(HasTminus(subject.macaddress), s)
<1>1. subject \in Job /\ subject.macaddress \in MAC /\ ThreadsOK
  BY HoldsJob DEF QueryWindow, JobPC
<1>2. HasTminus(subject.macaddress) \in Filter
  BY <1>1 DEF HasTminus, Filter
<1>3. request \in Request
  BY <1>2 DEF QueryReq, Request
<1>4. Go(s, <<request>>, "launch", subject)
  BY DEF QueryWindow
<1> HIDE DEF request
<1>5. ThreadsOK'
  BY <1>1, <1>3, <1>4, OneRequest, GoType, Continues
<1> QED BY <1>5, GoroutineFrame DEF QueryWindow, TypeOK, envVars

LEMMA LaunchWindowType ==
  ASSUME TypeOK, NEW s \in Slot, LaunchWindow(s) PROVE TypeOK'
<1> DEFINE open == {j.id : j \in {k \in thread[s].reply : WindowOpen(k)}}
           request == ModifyReq(ById(open), [status |-> "launch"])
<1>1. thread[s] \in Thread /\ ThreadsOK
  BY DEF TypeOK, ThreadsOK
<1>2. open \in SUBSET Nat
  BY <1>1 DEF Thread, NumberedJob, Job
<1>3. Go(s, IF open = {} THEN <<>> ELSE <<request>>, "idle", Blank)
  BY DEF LaunchWindow
<1> HIDE DEF open
<1>4. ById(open) \in Filter /\ [status |-> "launch"] \in Update
  BY <1>2 DEF ById, Filter, Update
<1>5. request \in Request
  BY <1>4 DEF ModifyReq, Request
<1> HIDE DEF request
<1>6. (IF open = {} THEN <<>> ELSE <<request>>) \in Seq(Request)
  BY <1>5, OneRequest, EmptySeq
<1>7. ThreadsOK'
  BY <1>1, <1>3, <1>6, GoType, Continues DEF JobPC
<1> QED BY <1>7, GoroutineFrame DEF LaunchWindow, TypeOK, envVars

LEMMA GroomJobType == ASSUME TypeOK, NEW s \in Slot, GroomJob(s) PROVE TypeOK'
<1> DEFINE jobs == thread[s].reply
<1>1. jobs \in SUBSET NumberedJob /\ ThreadsOK
  BY DEF TypeOK, ThreadsOK, Thread
<1>2. ASSUME NEW j \in jobs
      PROVE  GroomRequests(j) \in Seq(Request)
  <2>1. j.id \in Nat
    BY <1>1, <1>2 DEF NumberedJob, Job
  <2>2. ById({j.id}) \in Filter /\ [status |-> "error"] \in Update
    BY <2>1 DEF ById, Filter, Update, Status
  <2>3. ModifyReq(ById({j.id}), [status |-> "error"]) \in Request
    BY <2>2 DEF ModifyReq, Request
  <2>4. <<ModifyReq(ById({j.id}), [status |-> "error"])>> \in Seq(Request)
    BY <2>3, OneRequest
  <2>5. RemoveQuietly(ById({j.id}), "groom", FALSE) \in Seq(Request)
    BY <2>2, RemoveQuietlyType DEF Markers
  <2> QED BY <2>4, <2>5, EmptySeq DEF GroomRequests
<1>3. ThreadsOK'
  <2>1. CASE Go(s, <<>>, "idle", Blank)
    BY <1>1, <2>1, GoType, Continues, EmptySeq DEF JobPC
  <2>2. ASSUME NEW j \in jobs,
               Goto(s, GroomRequests(j), "grooming", Blank, jobs \ {j})
        PROVE  ThreadsOK'
    <3>1. jobs \ {j} \in SUBSET NumberedJob
      BY <1>1
    <3> HIDE DEF jobs
    <3> QED BY <1>1, <1>2, <2>2, <3>1, GotoType, Continues DEF JobPC
  <2> QED BY <2>1, <2>2 DEF GroomJob
<1> QED BY <1>3, GoroutineFrame DEF GroomJob, TypeOK, envVars

-----------------------------------------------------------------------------
(* Messages, time and restart.                                             *)

LEMMA ArrivesType ==
  ASSUME TypeOK, NEW kind, NEW s \in Slot, Arrives(kind, s)
  PROVE  arrivals' \in 0..MaxMessages /\ ThreadsOK
BY MaxIDNat DEF Arrives, TypeOK, ThreadsOK

LEMMA NewJobType ==
  ASSUME NEW tag \in HeaderTag, NEW mac \in MAC, NEW t \in Nat, NEW p \in Nat,
         NEW tm \in Nat
  PROVE  NewJob(tag, mac, t, p, tm) \in Job
BY DEF NewJob, Job, Status, Progress, Markers

LEMMA ReceiveAddType ==
  ASSUME TypeOK, NEW s \in Slot, ReceiveAdd(s) PROVE TypeOK'
<1>1. TakeId /\ arrivals' \in 0..MaxMessages /\ ThreadsOK
  BY ArrivesType DEF ReceiveAdd
<1>2. PICK tag \in NewTags, mac \in MAC, t \in clock..MaxTime, p \in Periods,
           tm \in TMinuses :
        Go(s, <<AddReq(WithNewId(NewJob(tag, mac, t, p, tm)))>>, "idle", Blank)
  BY DEF ReceiveAdd
<1>3. tag \in HeaderTag /\ t \in Nat /\ p \in Nat /\ tm \in Nat
  <2>1. clock \in 0..MaxTime /\ MaxTime \in Nat
    BY MaxIDNat DEF TypeOK
  <2>2. t \in Nat
    BY <2>1
  <2> QED BY <2>2, ConstantsOK
<1> DEFINE job == WithNewId(NewJob(tag, mac, t, p, tm))
<1>4. job \in NumberedJob
  BY <1>1, <1>3, NewJobType, TakeIdType
<1> HIDE DEF job
<1>5. AddReq(job) \in Request
  BY <1>4 DEF AddReq, Request
<1>6. Go(s, <<AddReq(job)>>, "idle", Blank)
  BY <1>2 DEF job
<1>7. ThreadsOK'
  BY <1>1, <1>5, <1>6, OneRequest, GoType, Continues DEF JobPC
<1> QED BY <1>1, <1>7, GoroutineFrame, TakeIdType DEF ReceiveAdd, TypeOK

LEMMA ReceiveDeleteType ==
  ASSUME TypeOK, NEW s \in Slot, ReceiveDelete(s) PROVE TypeOK'
<1>1. arrivals' \in 0..MaxMessages /\ ThreadsOK
  BY ArrivesType DEF ReceiveDelete
<1>2. PICK j \in jobDB :
        Go(s, <<RemoveReq(ById({j.id}), TRUE, FALSE)>>, "idle", Blank)
  BY DEF ReceiveDelete
<1>3. j.id \in Nat
  BY DEF TypeOK, NumberedJob, Job
<1>4. RemoveReq(ById({j.id}), TRUE, FALSE) \in Request
  BY <1>3 DEF ById, Filter, RemoveReq, Request
<1>5. ThreadsOK'
  BY <1>1, <1>2, <1>4, OneRequest, GoType, Continues DEF JobPC
<1> QED BY <1>1, <1>5, GoroutineFrame DEF ReceiveDelete, TypeOK

LEMMA ReceiveUpdateType ==
  ASSUME TypeOK, NEW s \in Slot, ReceiveUpdate(s) PROVE TypeOK'
<1>1. PICK kind \in {"pause", "resume", "reschedule"}, j \in jobDB :
        /\ Arrives(kind, s)
        /\ Go(s, <<ModifyReq(ById({j.id}), GOsaUpdate(kind))>>, "idle", Blank)
  BY DEF ReceiveUpdate
<1>2. arrivals' \in 0..MaxMessages /\ ThreadsOK
  BY <1>1, ArrivesType
<1>3. j.id \in Nat /\ clock \in Nat
  BY MaxIDNat DEF TypeOK, NumberedJob, Job
<1>4. ById({j.id}) \in Filter
  BY <1>3 DEF ById, Filter
<1>5. GOsaUpdate(kind) \in Update
  BY <1>3 DEF GOsaUpdate, Update, Status
<1>6. ModifyReq(ById({j.id}), GOsaUpdate(kind)) \in Request
  BY <1>4, <1>5 DEF ModifyReq, Request
<1>7. ThreadsOK'
  BY <1>1, <1>2, <1>6, OneRequest, GoType, Continues DEF JobPC
<1> QED BY <1>2, <1>7, GoroutineFrame DEF ReceiveUpdate, TypeOK

LEMMA ReceiveProgressType ==
  ASSUME TypeOK, NEW s \in Slot, ReceiveProgress(s) PROVE TypeOK'
<1>1. arrivals' \in 0..MaxMessages /\ ThreadsOK
  BY ArrivesType DEF ReceiveProgress
<1> DEFINE mark(mac, p) ==
             <<ModifyReq(BehindProgress(mac, p), [progress |-> p])>>
           finish(mac, p) ==
             IF p = "100" THEN <<RemoveReq(Processing(mac), FALSE, FALSE)>>
                          ELSE <<>>
<1>2. PICK mac \in MAC, p \in Percentages :
        Go(s, mark(mac, p) \o finish(mac, p), "idle", Blank)
  BY DEF ReceiveProgress
<1>3. /\ BehindProgress(mac, p) \in Filter /\ Processing(mac) \in Filter
      /\ [progress |-> p] \in Update
  BY DEF BehindProgress, Processing, Filter, Update, Progress
<1>4. /\ ModifyReq(BehindProgress(mac, p), [progress |-> p]) \in Request
      /\ RemoveReq(Processing(mac), FALSE, FALSE) \in Request
  BY <1>3 DEF ModifyReq, RemoveReq, Request
<1>5. mark(mac, p) \in Seq(Request) /\ finish(mac, p) \in Seq(Request)
  BY <1>4, OneRequest, EmptySeq
<1> HIDE DEF mark, finish
<1>6. ThreadsOK'
  BY <1>1, <1>2, <1>5, ConcatProperties, GoType, Continues DEF JobPC
<1> QED BY <1>1, <1>6, GoroutineFrame DEF ReceiveProgress, TypeOK

LEMMA ReceiveForeignType ==
  ASSUME TypeOK, NEW s \in Slot, ReceiveForeign(s) PROVE TypeOK'
<1>1. arrivals' \in 0..MaxMessages /\ ThreadsOK
  BY ArrivesType DEF ReceiveForeign
<1>2. PICK mac \in MAC :
        Go(s, RemoveQuietly(Installing(mac, 0), "forward", TRUE), "idle", Blank)
  BY DEF ReceiveForeign
<1>3. Installing(mac, 0) \in Filter
  BY DEF Installing, Filter
<1>4. RemoveQuietly(Installing(mac, 0), "forward", TRUE) \in Seq(Request)
  BY <1>3, RemoveQuietlyType DEF Markers
<1>5. ThreadsOK'
  BY <1>1, <1>2, <1>4, GoType, Continues DEF JobPC
<1> QED BY <1>1, <1>5, GoroutineFrame DEF ReceiveForeign, TypeOK

LEMMA ReceiveHereIAmType ==
  ASSUME TypeOK, NEW s \in Slot, ReceiveHereIAm(s) PROVE TypeOK'
<1>1. arrivals' \in 0..MaxMessages /\ ThreadsOK
  BY ArrivesType DEF ReceiveHereIAm
<1>2. PICK mac \in MAC, wanted \in InstallTags :
        \/ Go(s, RemoveQuietly(Installing(mac, 0), "groom", FALSE), "window",
              Subject(mac, wanted))
        \/ Go(s, <<QueryReq(ProcessingTag(mac, wanted), s)>>, "ensure",
              Subject(mac, wanted))
  <2>1. "trigger_action_reinstall" \in InstallTags
        /\ "trigger_action_update" \in InstallTags
    BY DEF InstallTags
  <2> QED BY <2>1 DEF ReceiveHereIAm
<1>3. wanted \in HeaderTag
  BY ConstantsOK
<1>4. Subject(mac, wanted) \in Job
  BY <1>3 DEF Subject, Blank, Job, Status, Progress, Markers
<1>5. Installing(mac, 0) \in Filter /\ ProcessingTag(mac, wanted) \in Filter
  BY <1>3 DEF Installing, ProcessingTag, Filter
<1>6. RemoveQuietly(Installing(mac, 0), "groom", FALSE) \in Seq(Request)
  BY <1>5, RemoveQuietlyType DEF Markers
<1>7. QueryReq(ProcessingTag(mac, wanted), s) \in Request
  BY <1>5 DEF QueryReq, Request
<1>8. ThreadsOK'
  BY <1>1, <1>2, <1>4, <1>6, <1>7, OneRequest, GoType, Continues
<1> QED BY <1>1, <1>8, GoroutineFrame DEF ReceiveHereIAm, TypeOK

LEMMA StartGroomType ==
  ASSUME TypeOK, NEW s \in Slot, StartGroom(s) PROVE TypeOK'
<1>1. arrivals' \in 0..MaxMessages /\ ThreadsOK /\ clock \in Nat
  BY ArrivesType, MaxIDNat DEF StartGroom, TypeOK
<1>2. Go(s, <<QueryReq(OlderThan(clock), s)>>, "grooming", Blank)
  BY DEF StartGroom
<1>3. OlderThan(clock) \in Filter
  BY <1>1 DEF OlderThan, Filter
<1>4. QueryReq(OlderThan(clock), s) \in Request
  BY <1>3 DEF QueryReq, Request
<1>5. ThreadsOK'
  BY <1>1, <1>2, <1>4, OneRequest, GoType, Continues DEF JobPC
<1> QED BY <1>1, <1>5, GoroutineFrame DEF StartGroom, TypeOK

\* A bounded set of ids has a greatest one, so the counter starts after it.
LEMMA FirstFreeIdType ==
  ASSUME NEW db \in SUBSET NumberedJob
  PROVE  /\ FirstFreeId(db) \in 1..(MaxID + 1)
         /\ \A j \in db : j.id < FirstFreeId(db)
<1> DEFINE ids == {j.id : j \in db} \cup {0}
           gaps == {MaxID - i : i \in ids}
<1>1. ids \subseteq 0..MaxID /\ MaxID \in Nat
  BY MaxIDNat DEF NumberedJob
<1>2. gaps \subseteq Nat /\ gaps # {}
  BY <1>1
<1>3. PICK least \in gaps : \A g \in gaps : ~(<<g, least>> \in OpToRel(<, Nat))
  <2> HIDE DEF gaps
  <2> QED BY <1>2, NatLessThanWellFounded, WFMin
<1>4. \A g \in gaps : least <= g
  <2> SUFFICES ASSUME NEW g \in gaps PROVE least <= g
    OBVIOUS
  <2>1. g \in Nat /\ least \in Nat
    BY <1>2
  <2>2. ~(g < least)
    BY <1>3, <2>1 DEF OpToRel
  <2> QED BY <2>1, <2>2
<1>5. PICK n \in ids : least = MaxID - n
  OBVIOUS
<1>6. \A j \in db : j.id <= n
  <2> SUFFICES ASSUME NEW j \in db PROVE j.id <= n
    OBVIOUS
  <2>1. j.id \in ids
    OBVIOUS
  <2>2. MaxID - j.id \in gaps
    BY <2>1
  <2>3. MaxID - n <= MaxID - j.id
    BY <1>4, <1>5, <2>2
  <2>4. j.id \in Nat /\ n \in Nat
    BY <1>1, <2>1
  <2> QED BY <1>1, <2>3, <2>4
<1> DEFINE top == CHOOSE i \in ids : \A j \in db : j.id <= i
<1>7. top \in ids /\ \A j \in db : j.id <= top
  BY <1>6
<1>8. FirstFreeId(db) = 1 + top
  BY DEF FirstFreeId
<1> HIDE DEF top
<1>9. top \in 0..MaxID
  BY <1>1, <1>7
<1>10. \A j \in db : j.id \in Nat
  BY <1>1
<1> QED BY <1>1, <1>7, <1>8, <1>9, <1>10

LEMMA EnvironmentType ==
  ASSUME TypeOK, EditLDAP \/ Tick \/ Persist PROVE TypeOK'
<1>1. CASE EditLDAP
  <2>1. arrivals' \in 0..MaxMessages /\ faistate' \in [MAC -> FAIState]
    BY <1>1, MaxIDNat DEF EditLDAP, TypeOK
  <2>2. ThreadsOK'
    BY <1>1 DEF EditLDAP, TypeOK, ThreadsOK
  <2> QED BY <1>1, <2>1, <2>2, GoroutineFrame DEF EditLDAP, TypeOK
<1>2. CASE Tick
  <2>1. clock' \in 0..MaxTime
    BY <1>2, MaxIDNat DEF Tick, TypeOK
  <2> QED BY <1>2, <2>1 DEF Tick, TypeOK, dbVars, handlerVars
<1>3. CASE Persist
  BY <1>3 DEF Persist, TypeOK, dbVars, handlerVars
<1> QED BY <1>1, <1>2, <1>3

LEMMA EmptyChannel == <<>> \in Seq(Request) /\ Len(<<>>) <= QueueCap
<1>1. QueueCap \in Nat
  BY ConstantsOK
<1>2. Len(<<>>) = 0
  BY EmptySeq
<1> QED BY <1>1, <1>2, EmptySeq

LEMMA RestartType == ASSUME TypeOK, Restart PROVE TypeOK'
<1>1. disk \in SUBSET NumberedJob
  BY DEF TypeOK
<1>2. nextID' \in 1..(MaxID + 1)
  BY <1>1, FirstFreeIdType DEF Restart
<1>3. timers' \subseteq Int
  BY <1>1 DEF Restart, PingTimes, WindowStart, NumberedJob, Job
<1>4. ThreadsOK'
  BY IdleType DEF Restart, ThreadsOK
<1>5. jobDBRequests' \in Seq(Request) /\ Len(jobDBRequests') <= QueueCap
  BY EmptyChannel DEF Restart
<1>6. arrivals' \in 0..MaxMessages /\ launches' \in [1..MaxID -> Nat]
  BY MaxIDNat DEF Restart, TypeOK
<1>7. own' \in Seq(Request)
  BY EmptySeq DEF Restart
<1> QED BY <1>1, <1>2, <1>3, <1>4, <1>5, <1>6, <1>7
       DEF Restart, TypeOK, ThreadsOK

LEMMA StutterType == ASSUME TypeOK, UNCHANGED vars PROVE TypeOK'
BY DEF TypeOK, vars

LEMMA InitType == Init => TypeOK
<1> SUFFICES ASSUME Init PROVE TypeOK
  OBVIOUS
<1>1. /\ jobDBRequests \in Seq(Request) /\ Len(jobDBRequests) <= QueueCap
      /\ own \in Seq(Request)
  BY EmptyChannel DEF Init
<1>2. ThreadsOK
  BY IdleType DEF Init, ThreadsOK
<1>3. /\ nextID \in 1..(MaxID + 1) /\ clock \in 0..MaxTime
      /\ arrivals \in 0..MaxMessages /\ launches \in [1..MaxID -> Nat]
  BY MaxIDNat DEF Init
<1> QED BY <1>1, <1>2, <1>3 DEF Init, TypeOK, ThreadsOK, FAIState

LEMMA NextType == ASSUME TypeOK, [Next]_vars PROVE TypeOK'
<1>1. ASSUME Handler PROVE TypeOK'
  BY <1>1, HandleRequestType, SendOwnType, LaunchClearedType,
     ProcessPendingActionsType, LaunchNextType DEF Handler
<1>2. ASSUME NEW s \in Slot, Goroutine(s) PROVE TypeOK'
  BY <1>2, SendType, TakePendingType, ForwardJobType, ForwardDeliveredType,
     ForwardFailedType, ActType, DoneBranchType, FollowUpType, EnsureJobType,
     QueryWindowType, LaunchWindowType, GroomJobType DEF Goroutine
<1>3. ASSUME NEW s \in Slot, Receive(s) PROVE TypeOK'
  BY <1>3, ReceiveAddType, ReceiveDeleteType, ReceiveUpdateType,
     ReceiveProgressType, ReceiveForeignType, ReceiveHereIAmType,
     StartGroomType DEF Receive
<1> QED BY <1>1, <1>2, <1>3, EnvironmentType, RestartType, StutterType DEF Next

\* Every state of the job pipeline is well typed: no filter, update or job ever
\* has a field the code does not expect, and no goroutine reaches a point where
\* it needs a job or a request it does not have (handleJobDBRequests,
\* PendingActions loop, message handlers).
THEOREM TypeCorrect == Spec => []TypeOK
<1>1. Init => TypeOK
  BY InitType
<1>2. TypeOK /\ [Next]_vars => TypeOK'
  BY NextType
<1> QED BY <1>1, <1>2, PTL DEF Spec

-----------------------------------------------------------------------------
(* An id names one job.  IdsNameOneJob alone is not inductive: a request    *)
(* may be in the channel while another with the same id is still in a       *)
(* goroutine, or the id counter may be behind.  The strengthening follows   *)
(* an id from the goroutine that took it through the channel into the       *)
(* database and out again.                                                  *)

\* The id is taken and the database does not hold it.
Absent(i) == i < nextID /\ \A j \in jobDB : j.id # i

JobsDistinct ==
  /\ \A j, k \in jobDB : j.id = k.id => j = k
  /\ \A j, k \in disk : j.id = k.id => j = k
  /\ \A j \in jobDB \cup disk : j.id < nextID

HandlerHolds ==
  /\ batch \subseteq jobDB
  /\ \A n \in DOMAIN own : own[n].op # "add"

\* Two requests to add jobs do not carry the same id.
Distinct(r, q) == (r.op = "add" /\ q.op = "add") => r.job.id # q.job.id

ChannelDistinct ==
  \A n \in DOMAIN jobDBRequests :
    /\ jobDBRequests[n].op = "add" => Absent(jobDBRequests[n].job.id)
    /\ \A m \in DOMAIN jobDBRequests :
         m # n => Distinct(jobDBRequests[n], jobDBRequests[m])

TodoDistinct ==
  \A s \in Slot : \A n \in DOMAIN thread[s].todo :
    /\ thread[s].todo[n].op = "add" => Absent(thread[s].todo[n].job.id)
    /\ \A m \in DOMAIN jobDBRequests :
         Distinct(thread[s].todo[n], jobDBRequests[m])
    /\ \A t \in Slot : \A m \in DOMAIN thread[t].todo :
         (t # s \/ m # n) => Distinct(thread[s].todo[n], thread[t].todo[m])

DonePC == {"done", "setlocal", "followup"}
Finishing(t) == t.pc \in DonePC \/ t.next \in DonePC

\* The id is neither in the database nor on its way into it.
Gone(i) ==
  /\ Absent(i)
  /\ \A n \in DOMAIN jobDBRequests :
       jobDBRequests[n].op = "add" => jobDBRequests[n].job.id # i
  /\ \A s \in Slot : \A n \in DOMAIN thread[s].todo :
       thread[s].todo[n].op = "add" => thread[s].todo[n].job.id # i

RemovedGone ==
  /\ \A p \in PendingActions : p.job.status = "done" => Gone(p.job.id)
  /\ \A s \in Slot : Finishing(thread[s]) => Gone(thread[s].job.id)

IdInv ==
  /\ TypeOK /\ JobsDistinct /\ HandlerHolds
  /\ ChannelDistinct /\ TodoDistinct /\ RemovedGone

\* Every request of a thread is one.
LEMMA TodoType ==
  ASSUME TypeOK, NEW s \in Slot
  PROVE  thread[s].todo \in Seq(Request)
BY DEF TypeOK, Thread

LEMMA IdInvImplies == IdInv => IdsNameOneJob
<1> SUFFICES ASSUME IdInv PROVE IdsNameOneJob
  OBVIOUS
<1>1. \A a \in Arriving :
        \/ \E n \in DOMAIN jobDBRequests :
             jobDBRequests[n].op = "add" /\ a = jobDBRequests[n].job
        \/ \E s \in Slot : \E n \in DOMAIN thread[s].todo :
             thread[s].todo[n].op = "add" /\ a = thread[s].todo[n].job
  BY DEF Arriving, Adds
<1>2. \A a \in Arriving : \A j \in jobDB : a.id # j.id
  BY <1>1 DEF IdInv, ChannelDistinct, TodoDistinct, Absent
<1>3. ASSUME NEW p \in DoneEntries
      PROVE  p.job.id \notin {j.id : j \in jobDB \cup Arriving}
  <2>1. Gone(p.job.id)
    BY DEF DoneEntries, ThreadsAt, IdInv, RemovedGone, Finishing, DonePC
  <2>2. \A a \in Arriving : a.id # p.job.id
    BY <1>1, <2>1 DEF Gone
  <2>3. \A j \in jobDB : j.id # p.job.id
    BY <2>1 DEF Gone, Absent
  <2> QED BY <2>2, <2>3
<1> QED BY <1>2, <1>3 DEF IdsNameOneJob, IdInv, JobsDistinct

IdsAreNat ==
  /\ \A j \in jobDB \cup disk : j.id \in Nat
  /\ \A n \in DOMAIN jobDBRequests :
       jobDBRequests[n].op = "add" => jobDBRequests[n].job.id \in Nat
  /\ \A t \in Slot : \A n \in DOMAIN thread[t].todo :
       thread[t].todo[n].op = "add" => thread[t].todo[n].job.id \in Nat
  /\ \A p \in PendingActions : p.job.id \in Nat
  /\ \A t \in Slot : thread[t].job.id \in Nat

LEMMA IdsNat == TypeOK => IdsAreNat
<1> SUFFICES ASSUME TypeOK PROVE IdsAreNat
  OBVIOUS
<1>1. \A r \in Request : r.op = "add" => r.job.id \in Nat
  BY RequestFields DEF NumberedJob, Job
<1>2. \A n \in DOMAIN jobDBRequests : jobDBRequests[n] \in Request
  BY DEF TypeOK
<1>3. \A t \in Slot : \A n \in DOMAIN thread[t].todo :
        thread[t].todo[n] \in Request
  BY TodoType, ElementOfSeq, LenProperties
<1>4. \A t \in Slot : thread[t].job.id \in Nat
  BY BlankType DEF TypeOK, Thread, Job
<1> QED BY <1>1, <1>2, <1>3, <1>4
       DEF TypeOK, NumberedJob, Pending, Job, IdsAreNat

\* A goroutine goes on: of the requests it is to send at most one adds a job,
\* under the id just taken, and it only goes on finishing the job it was
\* finishing.
LEMMA GotoIds ==
  ASSUME IdInv, TypeOK', NEW s \in Slot, NEW requests \in Seq(Request),
         NEW next, NEW job, NEW reply,
         Goto(s, requests, next, job, reply),
         UNCHANGED <<jobDB, disk, PendingActions, jobDBRequests, own, batch>>,
         nextID' \in {nextID, nextID + 1},
         \A n, m \in DOMAIN requests :
            (requests[n].op = "add" /\ requests[m].op = "add") => n = m,
         \A n \in DOMAIN requests : requests[n].op = "add" =>
            requests[n].job.id = nextID /\ nextID' = nextID + 1,
         next \in DonePC => Finishing(thread[s]) /\ job = thread[s].job
  PROVE  IdInv'
<1> USE DEF IdInv, IdsAreNat
<1>1. /\ nextID \in Int /\ nextID <= nextID'
  BY MaxIDNat DEF TypeOK
<1>2. \A i \in Nat : i < nextID => i < nextID'
  BY <1>1
<1>3. IdsAreNat
  BY IdsNat
<1>4. \A i \in Nat : Absent(i) => Absent(i)'
  BY <1>2 DEF Absent
<1>5. JobsDistinct'
  BY <1>2, <1>3 DEF JobsDistinct
<1>6. HandlerHolds'
  BY DEF HandlerHolds
<1>7. ChannelDistinct'
  BY <1>3, <1>4 DEF ChannelDistinct, Distinct
<1>8. /\ \A t \in Slot \ {s} : thread'[t] = thread[t]
      /\ thread'[s].todo = requests \/ (requests = <<>> /\ thread'[s].todo = <<>>)
      /\ Finishing(thread'[s]) => next \in DonePC /\ thread'[s].job = job
  <2>1. thread[s] \in Thread /\ thread \in [Slot -> Thread]
    BY DEF TypeOK
  <2>2. CASE requests = <<>> /\ next = "idle"
    BY <2>1, <2>2 DEF Goto, Idle, Finishing, DonePC
  <2>3. CASE ~(requests = <<>> /\ next = "idle")
    BY <2>1, <2>3 DEF Goto, Finishing, DonePC, Thread
  <2> QED BY <2>2, <2>3
<1>9. thread'[s].todo = requests
  BY <1>8
<1>10. \A n \in DOMAIN requests : requests[n].op = "add" =>
         /\ requests[n].job.id = nextID /\ nextID < nextID'
         /\ \A i \in Nat : i = nextID => Absent(i)'
  <2>1. \A j \in jobDB : j.id # nextID
    BY <1>1, <1>3 DEF JobsDistinct
  <2> QED BY <1>1, <2>1 DEF Absent
<1>11. /\ \A m \in DOMAIN jobDBRequests :
             jobDBRequests[m].op = "add" => jobDBRequests[m].job.id # nextID
       /\ \A t \in Slot : \A m \in DOMAIN thread[t].todo :
             thread[t].todo[m].op = "add" => thread[t].todo[m].job.id # nextID
  BY <1>1, <1>3 DEF ChannelDistinct, TodoDistinct, Absent
<1>12. TodoDistinct'
  <2> SUFFICES ASSUME NEW x \in Slot, NEW n \in DOMAIN (thread'[x].todo)
               PROVE  /\ thread'[x].todo[n].op = "add" =>
                            Absent(thread[x].todo[n].job.id)'
                      /\ \A m \in DOMAIN jobDBRequests :
                           Distinct(thread'[x].todo[n], jobDBRequests[m])
                      /\ \A t \in Slot : \A m \in DOMAIN (thread'[t].todo) :
                           (t # x \/ m # n) =>
                             Distinct(thread'[x].todo[n], thread'[t].todo[m])
    BY DEF TodoDistinct, Distinct
  <2>1. CASE x = s
    <3>1. nextID \in Nat
      BY <1>1, MaxIDNat DEF TypeOK
    <3> QED BY <2>1, <1>8, <1>9, <1>10, <1>11, <3>1 DEF Distinct
  <2>2. CASE x # s
    BY <2>2, <1>3, <1>4, <1>8, <1>9, <1>10, <1>11 DEF Distinct, TodoDistinct
  <2> QED BY <2>1, <2>2
<1>13. ASSUME NEW i \in Nat, Gone(i)
       PROVE  Gone(i)'
  <2>1. i # nextID
    BY <1>1, <1>13 DEF Gone, Absent
  <2> QED BY <1>4, <1>8, <1>9, <1>10, <1>13, <2>1 DEF Gone
<1>14. RemovedGone'
  BY <1>3, <1>8, <1>13 DEF RemovedGone
<1> QED BY <1>5, <1>6, <1>7, <1>12, <1>14

\* A request moves from a goroutine to the end of the channel.
LEMMA SendIds == ASSUME IdInv, TypeOK', NEW s \in Slot, Send(s) PROVE IdInv'
<1> USE DEF IdInv
<1> DEFINE todo == thread[s].todo
           q == jobDBRequests
<1>1. /\ thread[s] \in Thread /\ thread \in [Slot -> Thread]
      /\ todo \in Seq(Request) /\ todo # <<>> /\ q \in Seq(Request)
  BY DEF TypeOK, Send, ThreadOK, Thread
<1>2. 1 \in DOMAIN todo /\ Head(todo) = todo[1] /\ todo[1] \in Request
  BY <1>1
<1>3. \A m \in DOMAIN q' :
        \/ m \in DOMAIN q /\ q'[m] = q[m]
        \/ m = Len(q) + 1 /\ q'[m] = todo[1]
  BY <1>1, <1>2 DEF Send
<1>4. \A m \in DOMAIN q : m # Len(q) + 1
  BY <1>1
<1>5. /\ \A t \in Slot \ {s} : thread'[t] = thread[t]
      /\ \A n \in DOMAIN (thread'[s].todo) :
           n \in Nat /\ n + 1 \in DOMAIN todo /\ n + 1 # 1
           /\ thread'[s].todo[n] = todo[n + 1]
      /\ Finishing(thread'[s]) =>
           Finishing(thread[s]) /\ thread'[s].job = thread[s].job
  <2>1. CASE Len(todo) > 1
    <3>1. thread' = [thread EXCEPT ![s] = [thread[s] EXCEPT !.todo = Tail(todo)]]
      BY <2>1 DEF Send
    <3>2. /\ thread'[s].todo = Tail(todo) /\ thread'[s].pc = thread[s].pc
          /\ thread'[s].next = thread[s].next /\ thread'[s].job = thread[s].job
      BY <1>1, <3>1 DEF Thread
    <3>3. \A n \in DOMAIN Tail(todo) :
            n \in Nat /\ n + 1 \in DOMAIN todo /\ n + 1 # 1
            /\ Tail(todo)[n] = todo[n + 1]
      BY <1>1
    <3> QED BY <1>1, <3>1, <3>2, <3>3 DEF Finishing
  <2>2. CASE ~(Len(todo) > 1)
    <3> DEFINE last == [thread[s] EXCEPT !.todo = <<>>,
                          !.pc = IF Head(todo).op = "query" THEN "await"
                                 ELSE thread[s].next]
    <3>1. thread' = [thread EXCEPT ![s] =
                       IF thread[s].next = "idle" THEN Idle ELSE last]
      BY <2>2 DEF Send
    <3>2. Finishing(last) => Finishing(thread[s])
      BY <1>1 DEF Thread, Finishing, DonePC
    <3>3. last.todo = <<>> /\ last.job = thread[s].job
      BY <1>1 DEF Thread
    <3>4. Idle.todo = <<>> /\ ~Finishing(Idle)
      BY DEF Idle, Finishing, DonePC
    <3> HIDE DEF last
    <3> QED BY <1>1, <3>1, <3>2, <3>3, <3>4
  <2> QED BY <2>1, <2>2
<1>6. UNCHANGED <<jobDB, disk, PendingActions, own, batch, nextID>>
  BY DEF Send, dbVars, handlerVars, envVars
<1>7. \A i : Absent(i) <=> Absent(i)'
  BY <1>6 DEF Absent
<1>8. ChannelDistinct'
  BY <1>2, <1>3, <1>4, <1>6, <1>7 DEF ChannelDistinct, TodoDistinct, Distinct, Absent
<1>9. TodoDistinct'
  <2> SUFFICES ASSUME NEW x \in Slot, NEW n \in DOMAIN (thread'[x].todo)
               PROVE  /\ thread'[x].todo[n].op = "add" =>
                            Absent(thread[x].todo[n].job.id)'
                      /\ \A m \in DOMAIN q' :
                           Distinct(thread'[x].todo[n], q'[m])
                      /\ \A t \in Slot : \A m \in DOMAIN (thread'[t].todo) :
                           (t # x \/ m # n) =>
                             Distinct(thread'[x].todo[n], thread'[t].todo[m])
    BY DEF TodoDistinct, Distinct
  <2>1. CASE x = s
    <3>1. /\ n \in Nat /\ n + 1 \in DOMAIN todo /\ n + 1 # 1
          /\ thread'[x].todo[n] = todo[n + 1]
      BY <2>1, <1>5
    <3>2. thread'[x].todo[n].op = "add" => Absent(thread[x].todo[n].job.id)'
      BY <2>1, <3>1, <1>6 DEF TodoDistinct, Absent
    <3>3. \A m \in DOMAIN q' : Distinct(thread'[x].todo[n], q'[m])
      BY <3>1, <1>2, <1>3 DEF TodoDistinct, Distinct
    <3>4. ASSUME NEW t \in Slot, NEW m \in DOMAIN (thread'[t].todo),
                 t # x \/ m # n
          PROVE  Distinct(thread'[x].todo[n], thread'[t].todo[m])
      <4>1. CASE t = s
        <5>1. /\ m \in Nat /\ m + 1 \in DOMAIN todo /\ m + 1 # n + 1
              /\ thread'[t].todo[m] = todo[m + 1]
          BY <2>1, <3>1, <3>4, <4>1, <1>5
        <5> QED BY <3>1, <5>1 DEF TodoDistinct, Distinct
      <4>2. CASE t # s
        BY <2>1, <3>1, <4>2, <1>5 DEF TodoDistinct, Distinct
      <4> QED BY <4>1, <4>2
    <3> QED BY <3>2, <3>3, <3>4
  <2>2. CASE x # s
    <3>1. n \in DOMAIN thread[x].todo /\ thread'[x].todo[n] = thread[x].todo[n]
      BY <2>2, <1>5
    <3>2. thread'[x].todo[n].op = "add" => Absent(thread[x].todo[n].job.id)'
      <4>1. thread[x].todo[n].op = "add" => Absent(thread[x].todo[n].job.id)
        BY <3>1 DEF TodoDistinct
      <4> QED BY <3>1, <4>1, <1>6 DEF Absent
    <3>3. ASSUME NEW m \in DOMAIN q' PROVE Distinct(thread'[x].todo[n], q'[m])
      <4>1. CASE m \in DOMAIN q /\ q'[m] = q[m]
        BY <3>1, <4>1 DEF TodoDistinct
      <4>2. CASE q'[m] = todo[1]
        <5>1. 1 \in DOMAIN todo
          BY <1>2
        <5> QED BY <2>2, <3>1, <4>2, <5>1 DEF TodoDistinct
      <4> QED BY <4>1, <4>2, <1>3
    <3>4. ASSUME NEW t \in Slot, NEW m \in DOMAIN (thread'[t].todo),
                 t # x \/ m # n
          PROVE  Distinct(thread'[x].todo[n], thread'[t].todo[m])
      <4>1. CASE t = s
        <5>1. m + 1 \in DOMAIN todo /\ thread'[t].todo[m] = todo[m + 1]
          BY <4>1, <1>5
        <5> QED BY <2>2, <3>1, <5>1 DEF TodoDistinct
      <4>2. CASE t # s
        <5>1. /\ m \in DOMAIN thread[t].todo
              /\ thread'[t].todo[m] = thread[t].todo[m]
          BY <4>2, <1>5
        <5> QED BY <3>1, <3>4, <5>1 DEF TodoDistinct
      <4> QED BY <4>1, <4>2
    <3> QED BY <3>2, <3>3, <3>4
  <2> QED BY <2>1, <2>2
<1>10. \A i : Gone(i) => Gone(i)'
  BY <1>2, <1>3, <1>5, <1>7 DEF Gone
<1>11. RemovedGone'
  BY <1>5, <1>6, <1>10 DEF RemovedGone
<1> QED BY <1>6, <1>8, <1>9, <1>11 DEF JobsDistinct, HandlerHolds

\* A step that brings no new job: requests to add jobs at most leave the front
\* of the channel, the ids in the database stay or go, and what becomes done is
\* a job that goes.
LEMMA NothingNewIds ==
  ASSUME IdInv, TypeOK', HandlerHolds', NEW d \in {0, 1},
         \A n \in DOMAIN (jobDBRequests') : jobDBRequests'[n].op = "add" =>
           /\ n + d \in DOMAIN jobDBRequests
           /\ jobDBRequests'[n] = jobDBRequests[n + d],
         \A j \in jobDB' : \E k \in jobDB : j.id = k.id,
         \A j, k \in jobDB' : j.id = k.id => j = k,
         disk' \in {disk, jobDB}, nextID' = nextID,
         \A s \in Slot : /\ thread'[s].todo \in {<<>>, thread[s].todo}
                         /\ Finishing(thread'[s]) =>
                              \/ Finishing(thread[s])
                                 /\ thread'[s].job = thread[s].job
                              \/ \E p \in PendingActions :
                                   p.job.status = "done" /\ p.job = thread'[s].job,
         \A p \in PendingActions' : p.job.status = "done" =>
            \/ p \in PendingActions
            \/ \E j \in jobDB : /\ j.id = p.job.id
                                /\ \A k \in jobDB' : k.id # j.id
  PROVE  IdInv'
<1> USE DEF IdInv
<1> DEFINE q == jobDBRequests
<1>1. q \in Seq(Request) /\ q' \in Seq(Request)
  BY DEF TypeOK
<1>2. \A n \in DOMAIN q' : n \in Nat
  BY <1>1
<1>3. \A i : Absent(i) => /\ \A j \in jobDB' : j.id # i
                          /\ i < nextID'
  BY DEF Absent
<1>4. JobsDistinct'
  BY DEF JobsDistinct
<1>5. ChannelDistinct'
  <2> SUFFICES ASSUME NEW n \in DOMAIN q', q'[n].op = "add"
               PROVE  /\ Absent(jobDBRequests[n].job.id)'
                      /\ \A m \in DOMAIN q' : m # n => Distinct(q'[n], q'[m])
    BY DEF ChannelDistinct, Distinct
  <2>1. n + d \in DOMAIN q /\ q'[n] = q[n + d] /\ n \in Nat
    BY <1>2
  <2>2. Absent(jobDBRequests[n].job.id)'
    BY <2>1, <1>3 DEF ChannelDistinct, Absent
  <2>3. ASSUME NEW m \in DOMAIN q', m # n, q'[m].op = "add"
        PROVE  q'[n].job.id # q'[m].job.id
    <3>1. m + d \in DOMAIN q /\ q'[m] = q[m + d] /\ m + d # n + d
      BY <2>1, <2>3, <1>2
    <3> QED BY <2>1, <2>3, <3>1 DEF ChannelDistinct, Distinct
  <2> QED BY <2>2, <2>3 DEF Distinct
<1>6. \A s \in Slot : \A n \in DOMAIN (thread'[s].todo) :
        n \in DOMAIN thread[s].todo /\ thread'[s].todo[n] = thread[s].todo[n]
  OBVIOUS
<1>7. TodoDistinct'
  <2> SUFFICES ASSUME NEW s \in Slot, NEW n \in DOMAIN (thread'[s].todo)
               PROVE  /\ thread'[s].todo[n].op = "add" =>
                            Absent(thread[s].todo[n].job.id)'
                      /\ \A m \in DOMAIN q' :
                           Distinct(thread'[s].todo[n], q'[m])
                      /\ \A t \in Slot : \A m \in DOMAIN (thread'[t].todo) :
                           (t # s \/ m # n) =>
                             Distinct(thread'[s].todo[n], thread'[t].todo[m])
    BY DEF TodoDistinct, Distinct
  <2>1. thread'[s].todo[n].op = "add" => Absent(thread[s].todo[n].job.id)'
    BY <1>3, <1>6 DEF TodoDistinct, Absent
  <2>2. \A m \in DOMAIN q' : Distinct(thread'[s].todo[n], q'[m])
    BY <1>6 DEF TodoDistinct, Distinct
  <2>3. ASSUME NEW t \in Slot, NEW m \in DOMAIN (thread'[t].todo),
               t # s \/ m # n
        PROVE  Distinct(thread'[s].todo[n], thread'[t].todo[m])
    <3>1. /\ n \in DOMAIN thread[s].todo
          /\ thread'[s].todo[n] = thread[s].todo[n]
      BY <1>6
    <3>2. /\ m \in DOMAIN thread[t].todo
          /\ thread'[t].todo[m] = thread[t].todo[m]
      BY <1>6
    <3> QED BY <2>3, <3>1, <3>2 DEF TodoDistinct
  <2> QED BY <2>1, <2>2, <2>3
<1>8. \A i : Gone(i) => Gone(i)'
  BY <1>3, <1>6 DEF Gone, Absent
<1>9. ASSUME NEW j \in jobDB, \A k \in jobDB' : k.id # j.id,
             NEW i, i = j.id
      PROVE  Gone(i)'
  <2>1. i < nextID
    BY <1>9 DEF JobsDistinct
  <2>2. Absent(i)'
    BY <1>9, <2>1 DEF Absent
  <2>3. \A n \in DOMAIN q : q[n].op = "add" => q[n].job.id # i
    BY <1>9 DEF ChannelDistinct, Absent
  <2>4. \A s \in Slot : \A n \in DOMAIN thread[s].todo :
          thread[s].todo[n].op = "add" => thread[s].todo[n].job.id # i
    BY <1>9 DEF TodoDistinct, Absent
  <2> QED BY <1>6, <2>2, <2>3, <2>4 DEF Gone
<1>10. RemovedGone'
  <2>1. ASSUME NEW p \in PendingActions', p.job.status = "done",
               NEW i, i = p.job.id
        PROVE  Gone(i)'
    <3>1. CASE p \in PendingActions
      BY <2>1, <3>1, <1>8 DEF RemovedGone
    <3>2. CASE \E j \in jobDB : /\ j.id = p.job.id
                                /\ \A k \in jobDB' : k.id # j.id
      BY <2>1, <3>2, <1>9
    <3> QED BY <2>1, <3>1, <3>2
  <2>2. ASSUME NEW s \in Slot, Finishing(thread'[s]), NEW i, i = thread'[s].job.id
        PROVE  Gone(i)'
    BY <2>2, <1>8 DEF RemovedGone
  <2> QED BY <2>1, <2>2 DEF RemovedGone
<1> QED BY <1>4, <1>5, <1>7, <1>10

\* One step of handleJobDBRequests.
LEMMA HandleRequestIds == ASSUME IdInv, TypeOK', HandleRequest PROVE IdInv'
<1> USE DEF IdInv
<1> DEFINE q == jobDBRequests
           r == Head(q)
<1>1. /\ q \in Seq(Request) /\ q # <<>> /\ q' = Tail(q)
      /\ own = <<>> /\ own' = <<>> /\ batch = {}
      /\ UNCHANGED <<disk, nextID>>
  BY DEF TypeOK, HandleRequest, HandlerReady, envVars
<1>2. /\ r = q[1] /\ 1 \in DOMAIN q /\ r \in Request
      /\ \A n \in DOMAIN q' : /\ n \in Nat /\ n + 1 \in DOMAIN q /\ n + 1 # 1
                              /\ q'[n] = q[n + 1]
  BY <1>1
<1>3. \A n \in DOMAIN own' : own'[n].op # "add"
  BY <1>1
<1> HIDE DEF r
<1>4. CASE r.op = "add" /\ AddJob(r)
  <2>1. /\ jobDB' = jobDB \cup {r.job} /\ UNCHANGED <<PendingActions, batch, thread>>
    BY <1>4 DEF AddJob
  <2>2. Absent(r.job.id)
    BY <1>2, <1>4 DEF ChannelDistinct
  <2>3. JobsDistinct'
    BY <1>1, <2>1, <2>2 DEF JobsDistinct, Absent
  <2>4. HandlerHolds'
    BY <1>1, <1>3, <2>1 DEF HandlerHolds
  <2>5. \A i : (Absent(i) /\ i # r.job.id) =>
                  i < nextID' /\ \A j \in jobDB' : j.id # i
    BY <1>1, <2>1 DEF Absent
  <2>6. \A n \in DOMAIN q' : q'[n].op = "add" => q'[n].job.id # r.job.id
    BY <1>2, <1>4 DEF ChannelDistinct, Distinct
  <2>7. \A s \in Slot : \A n \in DOMAIN thread[s].todo :
          thread[s].todo[n].op = "add" => thread[s].todo[n].job.id # r.job.id
    BY <1>2, <1>4 DEF TodoDistinct, Distinct
  <2>8. ChannelDistinct'
    <3> SUFFICES ASSUME NEW n \in DOMAIN q', q'[n].op = "add"
                 PROVE  /\ Absent(jobDBRequests[n].job.id)'
                        /\ \A m \in DOMAIN q' : m # n => Distinct(q'[n], q'[m])
      BY DEF ChannelDistinct, Distinct
    <3>1. Absent(jobDBRequests[n].job.id)'
      BY <1>2, <2>5, <2>6 DEF ChannelDistinct, Absent
    <3>2. ASSUME NEW m \in DOMAIN q', m # n
          PROVE  Distinct(q'[n], q'[m])
      <4>1. n + 1 # m + 1
        BY <1>2, <3>2
      <4> QED BY <1>2, <4>1 DEF ChannelDistinct, Distinct
    <3> QED BY <3>1, <3>2
  <2>9. TodoDistinct'
    <3> SUFFICES ASSUME NEW s \in Slot, NEW n \in DOMAIN thread[s].todo
                 PROVE  /\ thread[s].todo[n].op = "add" =>
                              Absent(thread[s].todo[n].job.id)'
                        /\ \A m \in DOMAIN q' :
                             Distinct(thread[s].todo[n], q'[m])
                        /\ \A t \in Slot : \A m \in DOMAIN thread[t].todo :
                             (t # s \/ m # n) =>
                               Distinct(thread[s].todo[n], thread[t].todo[m])
      BY <2>1 DEF TodoDistinct, Distinct
    <3> QED BY <1>2, <2>1, <2>5, <2>7 DEF TodoDistinct, Distinct, Absent
  <2>10. ASSUME NEW i, Gone(i) PROVE Gone(i)'
    <3>1. i # r.job.id
      BY <1>2, <1>4, <2>10 DEF Gone
    <3>2. Absent(i)'
      BY <2>5, <2>10, <3>1 DEF Gone, Absent
    <3> QED BY <1>2, <2>1, <2>10, <3>2 DEF Gone
  <2>11. RemovedGone'
    BY <2>1, <2>10 DEF RemovedGone
  <2> QED BY <2>3, <2>4, <2>8, <2>9, <2>11
<1>5. CASE r.op = "remove" /\ RemoveLocal(r)
  <2> DEFINE gone == Query(jobDB, r.filter)
  <2>1. gone \subseteq jobDB
    BY QuerySubset
  <2>2. jobDB' = jobDB \ gone /\ UNCHANGED <<batch, thread>>
    BY <1>5 DEF RemoveLocal
  <2>3. ASSUME NEW p \in PendingActions', p \notin PendingActions
        PROVE  \E j \in gone : j.id = p.job.id
    <3>1. PICK j \in gone : p = [job |-> Done(j, r.stop), keep |-> r.keep, nth |-> 0]
      BY <1>5, <2>3 DEF RemoveLocal
    <3>2. j \in Job
      BY <2>1 DEF TypeOK, NumberedJob
    <3> QED BY <3>1, <3>2 DEF Done, Job
  <2> HIDE DEF gone
  <2>4. \A j \in gone : \A k \in jobDB' : k.id # j.id
    BY <2>1, <2>2 DEF JobsDistinct
  <2>5. HandlerHolds'
    BY <1>1, <1>3, <2>2 DEF HandlerHolds
  <2>6. \A j, k \in jobDB' : j.id = k.id => j = k
    BY <2>2 DEF JobsDistinct
  <2> QED BY <1>1, <1>2, <2>1, <2>2, <2>3, <2>4, <2>5, <2>6, NothingNewIds
<1>6. CASE r.op = "modify" /\ ~IsLaunch(r) /\ Modify(r)
  <2> DEFINE old == Query(jobDB, r.filter)
             new == {Apply(j, r.update) : j \in old}
  <2>1. old \subseteq jobDB
    BY QuerySubset
  <2>2. \A j \in old : Apply(j, r.update).id = j.id
    <3> SUFFICES ASSUME NEW j \in old PROVE Apply(j, r.update).id = j.id
      OBVIOUS
    <3>1. j \in Job
      BY <2>1 DEF TypeOK, NumberedJob
    <3> QED BY <3>1 DEF Apply, Job
  <2>3. jobDB' = (jobDB \ old) \cup new /\ UNCHANGED <<batch, thread>>
    BY <1>6 DEF Modify
  <2>4. \A j \in jobDB' : \E k \in jobDB : j.id = k.id
    BY <2>1, <2>2, <2>3
  <2>5. ASSUME NEW j \in jobDB', NEW k \in jobDB', j.id = k.id
        PROVE  j = k
    BY <2>1, <2>2, <2>3, <2>5 DEF JobsDistinct
  <2>6. ASSUME NEW p \in PendingActions', p \notin PendingActions
        PROVE  p.job.status # "done"
    <3>1. /\ "status" \in DOMAIN r.update /\ r.update.status = "wakeup"
          /\ p \in {[job |-> j, keep |-> FALSE, nth |-> 0] : j \in new}
      BY <1>6, <2>6 DEF Modify
    <3>2. PICK j \in old : p.job = Apply(j, r.update)
      BY <3>1
    <3>3. j \in Job
      BY <2>1 DEF TypeOK, NumberedJob
    <3> QED BY <3>1, <3>2, <3>3 DEF Apply, Job
  <2> HIDE DEF old, new
  <2>7. HandlerHolds'
    BY <1>1, <1>3, <2>3 DEF HandlerHolds
  <2> QED BY <1>1, <1>2, <2>3, <2>4, <2>5, <2>6, <2>7, NothingNewIds
<1>7. CASE r.op = "modify" /\ IsLaunch(r) /\ BeginLaunch(r)
  <2>1. UNCHANGED <<jobDB, PendingActions, thread>> /\ batch' \subseteq jobDB'
    BY <1>7, QuerySubset DEF BeginLaunch, dbVars
  <2>2. HandlerHolds'
    BY <1>3, <2>1 DEF HandlerHolds
  <2> QED BY <1>1, <1>2, <2>1, <2>2, NothingNewIds DEF JobsDistinct
<1>8. CASE r.op = "query" /\ AnswerQuery(r)
  <2>1. UNCHANGED <<jobDB, PendingActions, batch>>
    BY <1>8 DEF AnswerQuery, dbVars
  <2>2. r.slot \in Slot /\ thread \in [Slot -> Thread]
    BY <1>2, <1>8, RequestFields DEF TypeOK
  <2>3. \A s \in Slot :
          /\ thread'[s].todo = thread[s].todo /\ thread'[s].job = thread[s].job
          /\ Finishing(thread'[s]) => Finishing(thread[s])
    BY <1>8, <2>2 DEF AnswerQuery, Thread, Finishing
  <2>4. HandlerHolds'
    BY <1>1, <1>3, <2>1 DEF HandlerHolds
  <2> QED BY <1>1, <1>2, <2>1, <2>3, <2>4, NothingNewIds DEF JobsDistinct
<1> QED BY <1>4, <1>5, <1>6, <1>7, <1>8 DEF HandleRequest, r

\* Launching replaces a job by one with the same id.
LEMMA LaunchJobIds ==
  ASSUME IdInv, NEW job \in batch, LaunchJob(job)
  PROVE  /\ \A j \in jobDB' : \E k \in jobDB : j.id = k.id
         /\ \A j, k \in jobDB' : j.id = k.id => j = k
         /\ batch' \subseteq jobDB'
         /\ \A p \in PendingActions' : p.job.status = "done" =>
              p \in PendingActions
<1> USE DEF IdInv
<1>1. job \in jobDB /\ job \in Job
  BY DEF HandlerHolds, TypeOK, NumberedJob
<1>2. Launched(job).id = job.id /\ Launched(job).status = "processing"
  BY <1>1 DEF Launched, Job
<1>3. /\ jobDB' = {j \in jobDB : j.id # job.id} \cup {Launched(job)}
      /\ batch' = batch \ {job}
  BY DEF LaunchJob
<1>4. batch' \subseteq jobDB'
  BY <1>1, <1>3 DEF HandlerHolds, JobsDistinct
<1>5. \A p \in PendingActions' : p \in PendingActions \/ p.job = Launched(job)
  BY DEF LaunchJob
<1> QED BY <1>1, <1>2, <1>3, <1>4, <1>5 DEF JobsDistinct

\* The requests that take a job out quietly add none.
LEMMA QuietAddsNone ==
  ASSUME NEW f, NEW marker, NEW stop
  PROVE  \A n \in DOMAIN RemoveQuietly(f, marker, stop) :
           RemoveQuietly(f, marker, stop)[n].op # "add"
<1> DEFINE a == ModifyReq(f, [progress |-> marker])
           b == RemoveReq(f, stop, TRUE)
<1>1. a.op # "add" /\ b.op # "add"
  BY DEF ModifyReq, RemoveReq
<1> HIDE DEF a, b
<1>2. \A n \in DOMAIN <<a, b>> : <<a, b>>[n] \in {a, b}
  OBVIOUS
<1> QED BY <1>1, <1>2 DEF RemoveQuietly, a, b

LEMMA LaunchNextIds ==
  ASSUME IdInv, TypeOK', NEW job \in batch, LaunchNext(job) PROVE IdInv'
<1>1. /\ own = <<>> /\ UNCHANGED <<jobDBRequests, disk, nextID, thread>>
      /\ jobDBRequests \in Seq(Request)
  BY DEF LaunchNext, envVars, IdInv, TypeOK
<1>2. \A n \in DOMAIN (jobDBRequests') : n + 0 = n
  BY <1>1
<1>3. CASE IsInstall(job)
  <2>1. UNCHANGED <<jobDB, PendingActions, batch>>
    BY <1>3 DEF LaunchNext, dbVars
  <2>2. \A n \in DOMAIN own' : own'[n].op # "add"
    BY <1>3, QuietAddsNone DEF LaunchNext
  <2>3. HandlerHolds'
    BY <2>1, <2>2 DEF HandlerHolds, IdInv
  <2> QED BY <1>1, <1>2, <2>1, <2>3, NothingNewIds DEF IdInv, JobsDistinct
<1>4. CASE ~IsInstall(job)
  <2>1. LaunchJob(job) /\ own' = own
    BY <1>4 DEF LaunchNext
  <2>2. HandlerHolds'
    BY <2>1, LaunchJobIds DEF HandlerHolds, IdInv
  <2> QED BY <1>1, <1>2, <2>1, <2>2, LaunchJobIds, NothingNewIds
<1> QED BY <1>3, <1>4

LEMMA LaunchClearedIds ==
  ASSUME IdInv, TypeOK', LaunchCleared PROVE IdInv'
<1>1. /\ own' = own /\ UNCHANGED <<jobDBRequests, disk, nextID, thread>>
      /\ jobDBRequests \in Seq(Request)
      /\ clearing \in batch /\ LaunchJob(clearing)
  BY DEF LaunchCleared, envVars, IdInv, TypeOK
<1>2. \A n \in DOMAIN (jobDBRequests') : n + 0 = n
  BY <1>1
<1>3. HandlerHolds'
  BY <1>1, LaunchJobIds DEF HandlerHolds, IdInv
<1> QED BY <1>1, <1>2, <1>3, LaunchJobIds, NothingNewIds

LEMMA SendOwnIds == ASSUME IdInv, TypeOK', SendOwn PROVE IdInv'
<1> DEFINE q == jobDBRequests
<1>1. /\ own \in Seq(Request) /\ own # <<>> /\ own' = Tail(own)
      /\ q \in Seq(Request) /\ q' = Append(q, Head(own))
      /\ UNCHANGED <<jobDB, disk, PendingActions, batch, nextID, thread>>
  BY DEF SendOwn, dbVars, envVars, IdInv, TypeOK
<1>2. Head(own) \in Request /\ Head(own).op # "add"
  BY <1>1 DEF IdInv, HandlerHolds
<1>3. \A n \in DOMAIN own' : own'[n].op # "add"
  BY <1>1 DEF IdInv, HandlerHolds
<1>4. \A n \in DOMAIN q' : q'[n].op = "add" => n + 0 \in DOMAIN q /\ q'[n] = q[n + 0]
  BY <1>1, <1>2
<1>5. HandlerHolds'
  BY <1>1, <1>3 DEF HandlerHolds, IdInv
<1> QED BY <1>1, <1>4, <1>5, NothingNewIds DEF IdInv, JobsDistinct

LEMMA ProcessPendingActionsIds ==
  ASSUME IdInv, TypeOK', ProcessPendingActions PROVE IdInv'
<1>1. /\ UNCHANGED <<jobDB, disk, PendingActions, batch, nextID, thread,
                     jobDBRequests>>
      /\ jobDBRequests \in Seq(Request)
  BY DEF ProcessPendingActions, envVars, IdInv, TypeOK
<1>2. \A n \in DOMAIN (jobDBRequests') : n + 0 = n
  BY <1>1
<1>3. \A n \in DOMAIN own' : own'[n].op # "add"
  <2> DEFINE a == ModifyReq(DueAt(clock), [status |-> "launch"])
             b == ModifyReq(InWindow(clock, {j.tminus : j \in jobDB}),
                            [status |-> "wakeup"])
  <2>1. a.op # "add" /\ b.op # "add"
    BY DEF ModifyReq
  <2>2. own' = <<a, b>>
    BY DEF ProcessPendingActions
  <2> HIDE DEF a, b
  <2> QED BY <2>1, <2>2
<1>4. HandlerHolds'
  BY <1>1, <1>3 DEF HandlerHolds, IdInv
<1> QED BY <1>1, <1>2, <1>4, NothingNewIds DEF IdInv, JobsDistinct

LEMMA TakePendingIds ==
  ASSUME IdInv, TypeOK', NEW s \in Slot, TakePending(s) PROVE IdInv'
<1>1. /\ UNCHANGED <<jobDB, disk, own, batch, nextID, jobDBRequests>>
      /\ jobDBRequests \in Seq(Request) /\ thread \in [Slot -> Thread]
  BY DEF TakePending, handlerVars, envVars, IdInv, TypeOK
<1>2. \A n \in DOMAIN (jobDBRequests') : n + 0 = n
  BY <1>1
<1>3. PICK p \in PendingActions :
        /\ PendingActions' = PendingActions \ {p}
        /\ thread' = [thread EXCEPT ![s] =
             [Idle EXCEPT !.pc = IF p.job.status = "done" THEN "done" ELSE "act",
                          !.job = p.job, !.keep = p.keep]]
  BY DEF TakePending
<1>4. /\ \A t \in Slot \ {s} : thread'[t] = thread[t]
      /\ thread'[s].todo = <<>> /\ thread'[s].job = p.job
      /\ Finishing(thread'[s]) => p.job.status = "done"
  BY <1>1, <1>3 DEF Idle, Finishing, DonePC
<1>5. HandlerHolds'
  BY <1>1 DEF HandlerHolds, IdInv
<1>6. \A t \in Slot :
        /\ thread'[t].todo \in {<<>>, thread[t].todo}
        /\ Finishing(thread'[t]) =>
             \/ Finishing(thread[t]) /\ thread'[t].job = thread[t].job
             \/ \E e \in PendingActions :
                  e.job.status = "done" /\ e.job = thread'[t].job
  BY <1>4
<1>7. \A e \in PendingActions' : e \in PendingActions
  BY <1>3
<1> QED BY <1>1, <1>2, <1>5, <1>6, <1>7, NothingNewIds DEF IdInv, JobsDistinct

LEMMA EnvironmentIds ==
  ASSUME IdInv, TypeOK', EditLDAP \/ Tick \/ Persist \/ UNCHANGED vars
  PROVE  IdInv'
<1>1. /\ UNCHANGED <<jobDB, own, batch, nextID, jobDBRequests, PendingActions,
                     thread>>
      /\ disk' \in {disk, jobDB} /\ jobDBRequests \in Seq(Request)
  BY DEF EditLDAP, Tick, Persist, vars, dbVars, handlerVars, IdInv, TypeOK
<1>2. \A n \in DOMAIN (jobDBRequests') : n + 0 = n
  BY <1>1
<1>3. HandlerHolds'
  BY <1>1 DEF HandlerHolds, IdInv
<1> QED BY <1>1, <1>2, <1>3, NothingNewIds DEF IdInv, JobsDistinct

\* JobsInit: the file holds every id once and the counter starts after them.
LEMMA RestartIds == ASSUME IdInv, TypeOK', Restart PROVE IdInv'
<1>1. disk \in SUBSET NumberedJob
  BY DEF IdInv, TypeOK
<1>2. \A j \in disk : j.id < nextID'
  BY <1>1, FirstFreeIdType DEF Restart
<1>3. JobsDistinct'
  BY <1>2 DEF Restart, IdInv, JobsDistinct
<1>4. HandlerHolds' /\ ChannelDistinct'
  BY DEF Restart, HandlerHolds, ChannelDistinct
<1>5. \A s \in Slot : thread'[s].todo = <<>> /\ ~Finishing(thread'[s])
  BY DEF Restart, Idle, Finishing, DonePC
<1>6. TodoDistinct' /\ RemovedGone'
  BY <1>5 DEF Restart, TodoDistinct, RemovedGone
<1> QED BY <1>3, <1>4, <1>6 DEF IdInv

-----------------------------------------------------------------------------
(* The goroutines and the messages are instances of GotoIds.               *)

NoAdds(requests) == \A n \in DOMAIN requests : requests[n].op # "add"

LEMMA NoAddsIn ==
  /\ NoAdds(<<>>)
  /\ \A f, u : NoAdds(<<ModifyReq(f, u)>>)
  /\ \A f, b, c : NoAdds(<<RemoveReq(f, b, c)>>)
  /\ \A f, s : NoAdds(<<QueryReq(f, s)>>)
  /\ \A f, marker, stop : NoAdds(RemoveQuietly(f, marker, stop))
BY QuietAddsNone DEF NoAdds, ModifyReq, RemoveReq, QueryReq

LEMMA NoAddsConcat ==
  ASSUME NEW a \in Seq(Request), NEW b \in Seq(Request), NoAdds(a), NoAdds(b)
  PROVE  NoAdds(a \o b)
<1> SUFFICES ASSUME NEW n \in DOMAIN (a \o b) PROVE (a \o b)[n].op # "add"
  BY DEF NoAdds
<1>1. /\ n \in 1..(Len(a) + Len(b)) /\ Len(a) \in Nat /\ Len(b) \in Nat
      /\ DOMAIN a = 1..Len(a) /\ DOMAIN b = 1..Len(b)
      /\ (a \o b)[n] = IF n <= Len(a) THEN a[n] ELSE b[n - Len(a)]
  BY ConcatProperties, LenProperties
<1>2. n > Len(a) => n - Len(a) \in 1..Len(b)
  BY <1>1
<1> QED BY <1>1, <1>2 DEF NoAdds

\* The requests of a goroutine at hand are a sequence: Goto stores them in todo.
LEMMA GotoNoAdds ==
  ASSUME IdInv, TypeOK', NEW s \in Slot, NEW requests \in Seq(Request),
         NEW next, NEW job, NEW reply,
         Goto(s, requests, next, job, reply), NoAdds(requests),
         UNCHANGED <<dbVars, handlerVars, jobDBRequests, disk, nextID>>,
         next \in DonePC => Finishing(thread[s]) /\ job = thread[s].job
  PROVE  IdInv'
<1>1. UNCHANGED <<jobDB, disk, PendingActions, jobDBRequests, own, batch>>
  BY DEF dbVars, handlerVars
<1>2. /\ \A n, m \in DOMAIN requests :
            (requests[n].op = "add" /\ requests[m].op = "add") => n = m
      /\ \A n \in DOMAIN requests : requests[n].op = "add" =>
            requests[n].job.id = nextID /\ nextID' = nextID + 1
  BY DEF NoAdds
<1> QED BY <1>1, <1>2, GotoIds

\* What Goto leaves in todo tells what its requests were.
LEMMA GotoSeq ==
  ASSUME TypeOK', NEW s \in Slot, thread \in [Slot -> Thread], NEW requests,
         NEW next, NEW job, NEW reply, Goto(s, requests, next, job, reply)
  PROVE  requests \in Seq(Request)
<1>1. thread'[s].todo \in Seq(Request)
  BY DEF TypeOK, Thread
<1>2. requests = <<>> \/ thread'[s].todo = requests
  BY DEF Goto, Thread
<1> QED BY <1>1, <1>2, EmptySeq

LEMMA GoNoAdds ==
  ASSUME IdInv, TypeOK', NEW s \in Slot, NEW requests, NEW next, NEW job,
         Go(s, requests, next, job), NoAdds(requests),
         UNCHANGED <<dbVars, handlerVars, jobDBRequests, disk, nextID>>,
         next \in DonePC => Finishing(thread[s]) /\ job = thread[s].job
  PROVE  IdInv'
<1>1. Goto(s, requests, next, job, {}) /\ thread \in [Slot -> Thread]
  BY DEF Go, IdInv, TypeOK
<1> QED BY <1>1, GotoSeq, GotoNoAdds

LEMMA GoOneAdd ==
  ASSUME IdInv, TypeOK', NEW s \in Slot, NEW quiet, NEW new, NEW next, NEW job,
         quiet \in Seq(Request), NoAdds(quiet), new.id = nextID, TakeId,
         Go(s, quiet \o <<AddReq(new)>>, next, job), AddReq(new) \in Request,
         UNCHANGED <<dbVars, handlerVars, jobDBRequests, disk>>,
         next \notin DonePC
  PROVE  IdInv'
<1> DEFINE requests == quiet \o <<AddReq(new)>>
<1>1. <<AddReq(new)>> \in Seq(Request) /\ AddReq(new).job = new
  BY DEF AddReq
<1>2. requests \in Seq(Request)
  BY <1>1, ConcatProperties
<1>3. \A n \in DOMAIN requests : requests[n].op = "add" =>
        n = Len(quiet) + 1 /\ requests[n] = AddReq(new)
  <2> SUFFICES ASSUME NEW n \in DOMAIN requests, requests[n].op = "add"
               PROVE  n = Len(quiet) + 1 /\ requests[n] = AddReq(new)
    OBVIOUS
  <2>1. /\ n \in 1..(Len(quiet) + 1) /\ Len(quiet) \in Nat
        /\ requests[n] = IF n <= Len(quiet) THEN quiet[n]
                         ELSE <<AddReq(new)>>[n - Len(quiet)]
    BY <1>1, <1>2, ConcatProperties, LenProperties
  <2>2. ~(n <= Len(quiet))
    BY <2>1 DEF NoAdds
  <2> QED BY <2>1, <2>2
<1>4. /\ UNCHANGED <<jobDB, disk, PendingActions, jobDBRequests, own, batch>>
      /\ Goto(s, requests, next, job, {}) /\ nextID' = nextID + 1
  BY DEF dbVars, handlerVars, Go, TakeId
<1>5. \A n \in DOMAIN requests : requests[n].op = "add" =>
        requests[n].job.id = nextID
  BY <1>1, <1>3
<1> HIDE DEF requests
<1> QED BY <1>2, <1>3, <1>4, <1>5, GotoIds

LEMMA GoJustAdd ==
  ASSUME IdInv, TypeOK', NEW s \in Slot, NEW new, TakeId, new.id = nextID,
         Go(s, <<AddReq(new)>>, "idle", Blank),
         UNCHANGED <<dbVars, handlerVars, jobDBRequests, disk>>
  PROVE  IdInv'
<1>1. Goto(s, <<AddReq(new)>>, "idle", Blank, {}) /\ thread \in [Slot -> Thread]
  BY DEF Go, IdInv, TypeOK
<1>2. <<AddReq(new)>> \in Seq(Request)
  BY <1>1, GotoSeq
<1>3. AddReq(new) \in Request
  BY <1>2
<1>4. <<>> \o <<AddReq(new)>> = <<AddReq(new)>>
  BY <1>2, ConcatEmptySeq
<1>5. Go(s, <<>> \o <<AddReq(new)>>, "idle", Blank)
  BY <1>4
<1>6. <<>> \in Seq(Request) /\ NoAdds(<<>>) /\ "idle" \notin DonePC
  BY NoAddsIn, EmptySeq DEF DonePC
<1> HIDE DEF NoAdds
<1> QED BY <1>3, <1>5, <1>6, GoOneAdd

LEMMA GoroutineIds ==
  ASSUME IdInv, TypeOK', NEW s \in Slot, Goroutine(s) PROVE IdInv'
<1> USE DEF envVars
<1>1. CASE ForwardJob(s)
  BY <1>1, GoNoAdds, NoAddsIn DEF ForwardJob, DonePC
<1>2. CASE ForwardDelivered(s)
  BY <1>2, GoNoAdds, NoAddsIn DEF ForwardDelivered, DonePC
<1>3. CASE ForwardFailed(s)
  <2> DEFINE again == [thread[s].job EXCEPT !.status = "waiting",
                                            !.progress = "forward-failed"]
  <2>1. WithNewId(again).id = nextID
    BY <1>3, HoldsJob DEF ForwardFailed, JobPC, IdInv, Job, WithNewId
  <2>2. TakeId /\ Go(s, <<AddReq(WithNewId(again))>>, "idle", Blank)
    BY <1>3 DEF ForwardFailed
  <2> HIDE DEF again
  <2> QED BY <1>3, <2>1, <2>2, GoJustAdd DEF ForwardFailed
<1>4. CASE Act(s)
  <2>1. \/ Go(s, <<>>, "idle", Blank)
        \/ Go(s, <<RemoveReq(ById({thread[s].job.id}), FALSE, FALSE)>>,
              "idle", Blank)
    BY <1>4 DEF Act
  <2> QED BY <1>4, <2>1, GoNoAdds, NoAddsIn DEF Act, DonePC
<1>5. CASE ReadState(s) \/ SetLocalboot(s)
  <2>1. \/ Go(s, <<>>, "setlocal", thread[s].job)
        \/ Go(s, <<>>, "followup", thread[s].job)
    BY <1>5 DEF ReadState, SetLocalboot
  <2>2. Finishing(thread[s])
    BY <1>5 DEF ReadState, SetLocalboot, Finishing, DonePC
  <2> QED BY <1>5, <2>1, <2>2, GoNoAdds, NoAddsIn
         DEF ReadState, SetLocalboot
<1>6. CASE FollowUp(s)
  <2>1. CASE thread[s].job.periodic = 0
    BY <1>6, <2>1, GoNoAdds, NoAddsIn DEF FollowUp, DonePC
  <2>2. CASE thread[s].job.periodic # 0
    <3> DEFINE new == NextInstance(thread[s].job, nextID, clock)
    <3>1. TakeId /\ Go(s, <<AddReq(new)>>, "idle", Blank)
      BY <1>6, <2>2 DEF FollowUp
    <3>2. new.id = nextID
      BY <1>6, HoldsJob DEF FollowUp, JobPC, IdInv, Job, NextInstance
    <3> HIDE DEF new
    <3> QED BY <1>6, <3>1, <3>2, GoJustAdd DEF FollowUp
  <2> QED BY <2>1, <2>2
<1>7. CASE EnsureJob(s)
  <2>1. CASE thread[s].reply # {}
    BY <1>7, <2>1, GoNoAdds, NoAddsIn DEF EnsureJob, DonePC
  <2>2. CASE thread[s].reply = {}
    <3> DEFINE subject == thread[s].job
               quiet == RemoveQuietly(Installing(subject.macaddress, 0),
                                      "groom", TRUE)
               new == WithNewId([subject EXCEPT !.status = "processing",
                                                !.timestamp = clock])
    <3>1. TakeId /\ Go(s, quiet \o <<AddReq(new)>>, "window", subject)
      BY <1>7, <2>2 DEF EnsureJob
    <3>2. subject \in Job /\ subject.macaddress \in MAC /\ clock \in Nat
      BY <1>7, HoldsJob, MaxIDNat DEF EnsureJob, JobPC, IdInv, TypeOK
    <3>3. new \in NumberedJob /\ new.id = nextID
      <4>1. [subject EXCEPT !.status = "processing", !.timestamp = clock] \in Job
        BY <3>2 DEF Job, Status
      <4> QED BY <3>1, <4>1, TakeIdType DEF IdInv, WithNewId, Job
    <3>4. AddReq(new) \in Request
      BY <3>3 DEF AddReq, Request
    <3>5. Installing(subject.macaddress, 0) \in Filter
      BY <3>2 DEF Installing, Filter
    <3>6. quiet \in Seq(Request) /\ NoAdds(quiet)
      BY <3>5, RemoveQuietlyType, NoAddsIn DEF Markers
    <3> HIDE DEF quiet, new, subject
    <3> QED BY <1>7, <3>1, <3>3, <3>4, <3>6, GoOneAdd DEF EnsureJob, DonePC
  <2> QED BY <2>1, <2>2
<1>8. CASE QueryWindow(s)
  BY <1>8, GoNoAdds, NoAddsIn DEF QueryWindow, DonePC
<1>9. CASE LaunchWindow(s)
  <2> DEFINE open == {j.id : j \in {k \in thread[s].reply : WindowOpen(k)}}
             requests == IF open = {} THEN <<>>
                         ELSE <<ModifyReq(ById(open), [status |-> "launch"])>>
  <2>1. NoAdds(requests)
    BY NoAddsIn
  <2>2. Go(s, requests, "idle", Blank)
    BY <1>9 DEF LaunchWindow
  <2> HIDE DEF requests
  <2> QED BY <1>9, <2>1, <2>2, GoNoAdds DEF LaunchWindow, DonePC
<1>10. CASE GroomJob(s)
  <2>1. \A j : NoAdds(GroomRequests(j))
    BY NoAddsIn DEF GroomRequests
  <2>2. CASE Go(s, <<>>, "idle", Blank)
    BY <1>10, <2>2, GoNoAdds, NoAddsIn DEF GroomJob, DonePC
  <2>3. ASSUME NEW j \in thread[s].reply,
               Goto(s, GroomRequests(j), "grooming", Blank, thread[s].reply \ {j})
        PROVE  IdInv'
    <3>1. GroomRequests(j) \in Seq(Request)
      BY <2>3, GotoSeq DEF IdInv, TypeOK
    <3> QED BY <1>10, <2>1, <2>3, <3>1, GotoNoAdds DEF GroomJob, DonePC
  <2> QED BY <1>10, <2>2, <2>3 DEF GroomJob
<1> QED BY <1>1, <1>2, <1>3, <1>4, <1>5, <1>6, <1>7, <1>8, <1>9, <1>10,
           SendIds, TakePendingIds DEF Goroutine

LEMMA ReceiveIds == ASSUME IdInv, TypeOK', NEW s \in Slot, Receive(s) PROVE IdInv'
<1>1. CASE ReceiveAdd(s)
  <2>1. PICK tag \in NewTags, mac \in MAC, t \in clock..MaxTime, p \in Periods,
             tm \in TMinuses :
          Go(s, <<AddReq(WithNewId(NewJob(tag, mac, t, p, tm)))>>, "idle", Blank)
    BY <1>1 DEF ReceiveAdd
  <2>2. WithNewId(NewJob(tag, mac, t, p, tm)).id = nextID
    BY DEF WithNewId, NewJob
  <2> QED BY <1>1, <2>1, <2>2, GoJustAdd DEF ReceiveAdd
<1>2. CASE ReceiveDelete(s)
  BY <1>2, GoNoAdds, NoAddsIn DEF ReceiveDelete, DonePC
<1>3. CASE ReceiveUpdate(s)
  BY <1>3, GoNoAdds, NoAddsIn DEF ReceiveUpdate, DonePC
<1>4. CASE ReceiveProgress(s)
  <2> DEFINE mark(mac, p) ==
               <<ModifyReq(BehindProgress(mac, p), [progress |-> p])>>
             finish(mac, p) ==
               IF p = "100" THEN <<RemoveReq(Processing(mac), FALSE, FALSE)>>
                            ELSE <<>>
  <2>1. PICK mac \in MAC, p \in Percentages :
          Go(s, mark(mac, p) \o finish(mac, p), "idle", Blank)
    BY <1>4 DEF ReceiveProgress
  <2>2. /\ BehindProgress(mac, p) \in Filter /\ Processing(mac) \in Filter
        /\ [progress |-> p] \in Update
    BY DEF BehindProgress, Processing, Filter, Update, Progress
  <2>3. /\ ModifyReq(BehindProgress(mac, p), [progress |-> p]) \in Request
        /\ RemoveReq(Processing(mac), FALSE, FALSE) \in Request
    BY <2>2 DEF ModifyReq, RemoveReq, Request
  <2>4. mark(mac, p) \in Seq(Request) /\ finish(mac, p) \in Seq(Request)
    BY <2>3, OneRequest, EmptySeq
  <2>5. NoAdds(mark(mac, p)) /\ NoAdds(finish(mac, p))
    BY NoAddsIn
  <2> HIDE DEF mark, finish
  <2>6. NoAdds(mark(mac, p) \o finish(mac, p))
    BY <2>4, <2>5, NoAddsConcat
  <2> QED BY <1>4, <2>1, <2>6, GoNoAdds DEF ReceiveProgress, DonePC
<1>5. CASE ReceiveForeign(s)
  BY <1>5, GoNoAdds, NoAddsIn DEF ReceiveForeign, DonePC
<1>6. CASE ReceiveHereIAm(s)
  <2>1. PICK mac \in MAC : \E job :
          \/ Go(s, RemoveQuietly(Installing(mac, 0), "groom", FALSE), "window", job)
          \/ \E f : Go(s, <<QueryReq(f, s)>>, "ensure", job)
    BY <1>6 DEF ReceiveHereIAm
  <2>2. PICK job :
          \/ Go(s, RemoveQuietly(Installing(mac, 0), "groom", FALSE), "window", job)
          \/ \E f : Go(s, <<QueryReq(f, s)>>, "ensure", job)
    BY <2>1
  <2> QED BY <1>6, <2>2, GoNoAdds, NoAddsIn DEF ReceiveHereIAm, DonePC
<1>7. CASE StartGroom(s)
  BY <1>7, GoNoAdds, NoAddsIn DEF StartGroom, DonePC
<1> QED BY <1>1, <1>2, <1>3, <1>4, <1>5, <1>6, <1>7 DEF Receive

LEMMA InitIds == Init => IdInv
<1> SUFFICES ASSUME Init PROVE IdInv
  OBVIOUS
<1>1. \A s \in Slot : thread[s].todo = <<>> /\ ~Finishing(thread[s])
  BY DEF Init, Idle, Finishing, DonePC
<1>2. JobsDistinct /\ HandlerHolds /\ ChannelDistinct
  BY DEF Init, JobsDistinct, HandlerHolds, ChannelDistinct
<1>3. TodoDistinct /\ RemovedGone
  BY <1>1 DEF Init, TodoDistinct, RemovedGone
<1> QED BY <1>2, <1>3, InitType DEF IdInv

LEMMA NextIds == ASSUME IdInv, [Next]_vars PROVE IdInv'
<1>1. TypeOK'
  BY NextType DEF IdInv
<1>2. CASE Handler
  BY <1>1, <1>2, HandleRequestIds, SendOwnIds, LaunchClearedIds,
     ProcessPendingActionsIds, LaunchNextIds DEF Handler
<1> QED BY <1>1, <1>2, GoroutineIds, ReceiveIds, EnvironmentIds, RestartIds
       DEF Next

\* An id names one job for its whole life, however the goroutines, the request
\* handler and restarts interleave: JobAddLocal takes it before the request is
\* sent, JobsRemoveLocal gives the job up before the action loop hears of it,
\* and JobsInit starts the counter after the ids in the file.
THEOREM IdsUnique == Spec => []IdsNameOneJob
<1>1. Init => IdInv
  BY InitIds
<1>2. IdInv /\ [Next]_vars => IdInv'
  BY NextIds
<1>3. IdInv => IdsNameOneJob
  BY IdInvImplies
<1> QED BY <1>1, <1>2, <1>3, PTL DEF Spec
=============================================================================
