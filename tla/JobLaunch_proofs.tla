-------------------------- MODULE JobLaunch_proofs --------------------------
(***************************************************************************)
(* What JobDB says of launching, for every value of its constants: no      *)
(* report of a client takes a job back to a smaller percentage, no job is  *)
(* launched before its time or its window, and, as long as nobody asks for *)
(* a job to be launched again, no job is launched twice and no machine is  *)
(* left with two installations.                                            *)
(*                                                                         *)
(* All of them rest on two facts: which requests the code can send, and    *)
(* which jobs a step can leave in the database.                            *)
(*                                                                         *)
(* The last part is about removals that must not touch the machine.  The   *)
(* code writes a marker into the jobs first and then removes them, with    *)
(* two requests, and the goroutine that reacts to the removal leaves       *)
(* marked jobs alone.  Requests of others come between the two, so the     *)
(* proof follows a removal on its way through the channel and shows that   *)
(* what it removes is marked when it gets there.                           *)
(***************************************************************************)
EXTENDS JobDB_proofs

-----------------------------------------------------------------------------
(* The requests under way and the steps that send them.                    *)

\* Requests in the channel or in the hands of somebody who will send them.
UnderWay ==
  Range(jobDBRequests) \cup Range(own)
    \cup UNION {Range(thread[s].todo) : s \in Slot}

LEMMA RangeEmpty == Range(<<>>) = {}
BY DEF Range

LEMMA RangeOne == ASSUME NEW r \in Request PROVE Range(<<r>>) = {r}
BY DEF Range

LEMMA RangeTwo ==
  ASSUME NEW r \in Request, NEW q \in Request PROVE Range(<<r, q>>) = {r, q}
<1>1. DOMAIN <<r, q>> = {1, 2} /\ <<r, q>>[1] = r /\ <<r, q>>[2] = q
  OBVIOUS
<1> QED BY <1>1 DEF Range

LEMMA RangeConcat ==
  ASSUME NEW a \in Seq(Request), NEW b \in Seq(Request)
  PROVE  Range(a \o b) = Range(a) \cup Range(b)
<1>1. /\ Len(a) \in Nat /\ Len(b) \in Nat /\ DOMAIN a = 1..Len(a)
      /\ DOMAIN b = 1..Len(b) /\ DOMAIN (a \o b) = 1..(Len(a) + Len(b))
      /\ \A n \in 1..(Len(a) + Len(b)) :
           (a \o b)[n] = IF n <= Len(a) THEN a[n] ELSE b[n - Len(a)]
  BY ConcatProperties, LenProperties
<1>2. ASSUME NEW r \in Range(a \o b) PROVE r \in Range(a) \cup Range(b)
  <2>1. PICK n \in 1..(Len(a) + Len(b)) : r = (a \o b)[n]
    BY <1>1, <1>2 DEF Range
  <2>2. n > Len(a) => n - Len(a) \in 1..Len(b)
    BY <1>1
  <2> QED BY <1>1, <2>1, <2>2 DEF Range
<1>3. ASSUME NEW r \in Range(a) PROVE r \in Range(a \o b)
  <2>1. PICK n \in 1..Len(a) : r = a[n]
    BY <1>1, <1>3 DEF Range
  <2>2. n \in 1..(Len(a) + Len(b)) /\ n <= Len(a)
    BY <1>1
  <2> QED BY <1>1, <2>1, <2>2 DEF Range
<1>4. ASSUME NEW r \in Range(b) PROVE r \in Range(a \o b)
  <2>1. PICK n \in 1..Len(b) : r = b[n]
    BY <1>1, <1>4 DEF Range
  <2>2. /\ n + Len(a) \in 1..(Len(a) + Len(b)) /\ ~(n + Len(a) <= Len(a))
        /\ n + Len(a) - Len(a) = n
    BY <1>1
  <2>3. (a \o b)[n + Len(a)] = b[n]
    BY <1>1, <2>2
  <2> QED BY <1>1, <2>1, <2>2, <2>3 DEF Range
<1> QED BY <1>2, <1>3, <1>4

LEMMA RangeAppend ==
  ASSUME NEW a \in Seq(Request), NEW r \in Request
  PROVE  Range(Append(a, r)) = Range(a) \cup {r}
<1>1. Append(a, r) = a \o <<r>>
  BY AppendIsConcat
<1>2. <<r>> \in Seq(Request)
  OBVIOUS
<1>3. Range(a \o <<r>>) = Range(a) \cup Range(<<r>>)
  BY <1>2, RangeConcat
<1> QED BY <1>1, <1>3, RangeOne

LEMMA RangeHeadTail ==
  ASSUME NEW a \in Seq(Request), a # <<>>
  PROVE  /\ Head(a) \in Range(a) /\ Range(Tail(a)) \subseteq Range(a)
         /\ Range(a) = {Head(a)} \cup Range(Tail(a))
<1>1. /\ a = <<Head(a)>> \o Tail(a)
      /\ Head(a) \in Request /\ Tail(a) \in Seq(Request)
  OBVIOUS
<1>2. Range(a) = {Head(a)} \cup Range(Tail(a))
  <2>1. <<Head(a)>> \in Seq(Request)
    BY <1>1
  <2> QED BY <1>1, <2>1, RangeConcat, RangeOne
<1> QED BY <1>2

LEMMA TailEmpty ==
  ASSUME NEW a \in Seq(Request), a # <<>>
  PROVE  Tail(a) # <<>> <=> Len(a) > 1
<1>1. /\ Len(a) \in Nat /\ Tail(a) \in Seq(Request)
      /\ Len(Tail(a)) = Len(a) - 1
  BY HeadTailProperties, LenProperties
<1>2. /\ Len(Tail(a)) \in Nat
      /\ Tail(a) = <<>> <=> Len(Tail(a)) = 0
  BY <1>1, EmptySeq, LenProperties
<1> QED BY <1>1, <1>2

LEMMA RangeRequests ==
  ASSUME NEW a \in Seq(Request) PROVE Range(a) \subseteq Request
<1>1. \A n \in DOMAIN a : a[n] \in Request
  OBVIOUS
<1> QED BY <1>1 DEF Range

LEMMA UnderWayRequests == TypeOK => UnderWay \subseteq Request
<1> SUFFICES ASSUME TypeOK PROVE UnderWay \subseteq Request
  OBVIOUS
<1>1. \A s \in Slot : Range(thread[s].todo) \subseteq Request
  BY TodoType, RangeRequests
<1>2. Range(jobDBRequests) \subseteq Request /\ Range(own) \subseteq Request
  BY RangeRequests DEF TypeOK
<1> QED BY <1>1, <1>2 DEF UnderWay

\* The two requests of a quiet removal.
LEMMA RangeQuietly ==
  ASSUME NEW f \in Filter, NEW marker \in Markers, NEW stop \in BOOLEAN
  PROVE  /\ RemoveQuietly(f, marker, stop) \in Seq(Request)
         /\ Range(RemoveQuietly(f, marker, stop)) =
              {ModifyReq(f, [progress |-> marker]), RemoveReq(f, stop, TRUE)}
<1>1. [progress |-> marker] \in Update
  BY DEF Update, Progress
<1>2. /\ ModifyReq(f, [progress |-> marker]) \in Request
      /\ RemoveReq(f, stop, TRUE) \in Request
  BY <1>1 DEF ModifyReq, RemoveReq, Request
<1> QED BY <1>2, RangeTwo, TwoRequests DEF RemoveQuietly

\* What Goto does to the goroutines.
LEMMA GotoEffect ==
  ASSUME TypeOK, NEW s \in Slot, NEW requests, NEW next, NEW job, NEW reply,
         Goto(s, requests, next, job, reply)
  PROVE  /\ \A t \in Slot \ {s} : thread'[t] = thread[t]
         /\ thread'[s].todo = requests /\ thread'[s].next = next
         /\ thread'[s].pc = IF requests = <<>> THEN next ELSE "send"
         /\ \/ requests = <<>> /\ next = "idle" /\ thread'[s] = Idle
            \/ thread'[s].job = job /\ thread'[s].reply = reply
               /\ thread'[s].keep = thread[s].keep
<1>1. thread[s] \in Thread /\ thread \in [Slot -> Thread]
  BY DEF TypeOK
<1>2. CASE requests = <<>> /\ next = "idle"
  BY <1>1, <1>2 DEF Goto, Idle
<1>3. CASE ~(requests = <<>> /\ next = "idle")
  BY <1>1, <1>3 DEF Goto, Thread
<1> QED BY <1>2, <1>3

\* What Send does to the goroutines and to the channel.
LEMMA SendEffect ==
  ASSUME TypeOK, NEW s \in Slot, Send(s)
  PROVE  /\ \A t \in Slot \ {s} : thread'[t] = thread[t]
         /\ thread[s].todo \in Seq(Request) /\ thread[s].todo # <<>>
         /\ thread'[s].todo = Tail(thread[s].todo)
         /\ thread'[s].next = thread[s].next
         /\ thread[s].pc = "send"
         /\ thread'[s].pc = IF Tail(thread[s].todo) # <<>> THEN "send"
                            ELSE IF thread[s].next = "idle" THEN "idle"
                            ELSE IF Head(thread[s].todo).op = "query"
                              THEN "await" ELSE thread[s].next
         /\ \/ thread'[s] = Idle /\ thread[s].next = "idle"
            \/ thread'[s].job = thread[s].job /\ thread'[s].reply = thread[s].reply
               /\ thread'[s].keep = thread[s].keep
         /\ jobDBRequests' = Append(jobDBRequests, Head(thread[s].todo))
         /\ UNCHANGED <<jobDB, disk, nextID, own, batch, clearing, timers, clock,
                        PendingActions, faistate, arrivals, launches, cancelled>>
<1> DEFINE todo == thread[s].todo
           last == [thread[s] EXCEPT !.todo = <<>>,
                      !.pc = IF Head(todo).op = "query" THEN "await"
                             ELSE thread[s].next]
<1>1. /\ thread[s] \in Thread /\ thread \in [Slot -> Thread]
      /\ todo \in Seq(Request) /\ todo # <<>> /\ thread[s].pc = "send"
  BY DEF TypeOK, Send, ThreadOK, Thread
<1>2. /\ UNCHANGED <<jobDB, disk, nextID, own, batch, clearing, timers, clock,
                     PendingActions, faistate, arrivals, launches, cancelled>>
      /\ jobDBRequests' = Append(jobDBRequests, Head(todo))
  BY DEF Send, dbVars, handlerVars, envVars
<1>3. CASE Len(todo) > 1
  <2>1. thread' = [thread EXCEPT ![s] = [thread[s] EXCEPT !.todo = Tail(todo)]]
    BY <1>3 DEF Send
  <2>2. Tail(todo) # <<>>
    BY <1>1, <1>3, TailEmpty
  <2> QED BY <1>1, <1>2, <2>1, <2>2 DEF Thread
<1>4. CASE ~(Len(todo) > 1)
  <2>1. thread' = [thread EXCEPT ![s] =
                     IF thread[s].next = "idle" THEN Idle ELSE last]
    BY <1>4 DEF Send
  <2>2. Tail(todo) = <<>>
    BY <1>1, <1>4, TailEmpty
  <2>3. CASE thread[s].next = "idle"
    <3>1. thread'[s] = Idle /\ \A t \in Slot \ {s} : thread'[t] = thread[t]
      BY <1>1, <2>1, <2>3
    <3>2. Idle.todo = <<>> /\ Idle.next = "idle" /\ Idle.pc = "idle"
      BY DEF Idle
    <3> QED BY <1>1, <1>2, <2>2, <2>3, <3>1, <3>2
  <2>4. CASE thread[s].next # "idle"
    <3>1. thread'[s] = last /\ \A t \in Slot \ {s} : thread'[t] = thread[t]
      BY <1>1, <2>1, <2>4
    <3>2. /\ last.todo = <<>> /\ last.next = thread[s].next
          /\ last.job = thread[s].job /\ last.reply = thread[s].reply
          /\ last.keep = thread[s].keep
          /\ last.pc = IF Head(todo).op = "query" THEN "await"
                       ELSE thread[s].next
      BY <1>1 DEF Thread
    <3> HIDE DEF last
    <3> QED BY <1>1, <1>2, <2>2, <2>4, <3>1, <3>2
  <2> QED BY <2>3, <2>4
<1> QED BY <1>3, <1>4

LEMMA GotoRequests ==
  ASSUME TypeOK, NEW s \in Slot, NEW requests, NEW next, NEW job, NEW reply,
         Goto(s, requests, next, job, reply), UNCHANGED <<jobDBRequests, own>>
  PROVE  UnderWay' \subseteq UnderWay \cup Range(requests)
BY GotoEffect DEF UnderWay

LEMMA SendRequests ==
  ASSUME TypeOK, NEW s \in Slot, Send(s) PROVE UnderWay' \subseteq UnderWay
<1> DEFINE todo == thread[s].todo
<1>1. /\ todo \in Seq(Request) /\ todo # <<>> /\ jobDBRequests \in Seq(Request)
      /\ \A t \in Slot \ {s} : thread'[t] = thread[t]
      /\ thread'[s].todo = Tail(todo) /\ own' = own
      /\ jobDBRequests' = Append(jobDBRequests, Head(todo))
  BY SendEffect DEF TypeOK
<1>2. /\ Head(todo) \in Range(todo) /\ Range(Tail(todo)) \subseteq Range(todo)
      /\ Head(todo) \in Request
  BY <1>1, RangeHeadTail
<1>3. Range(jobDBRequests') = Range(jobDBRequests) \cup {Head(todo)}
  BY <1>1, <1>2, RangeAppend
<1> HIDE DEF todo
<1>4. \A t \in Slot : Range(thread'[t].todo) \subseteq UnderWay
  BY <1>1, <1>2 DEF UnderWay, todo
<1>5. Range(jobDBRequests') \subseteq UnderWay
  BY <1>2, <1>3 DEF UnderWay, todo
<1> QED BY <1>1, <1>4, <1>5 DEF UnderWay

\* The answer to a query moves the goroutine that waits for it, and no other.
LEMMA AnswerEffect ==
  ASSUME TypeOK, AnswerQuery(Head(jobDBRequests)), NEW s \in Slot
  PROVE  /\ thread'[s].todo = thread[s].todo /\ thread'[s].job = thread[s].job
         /\ thread'[s].next = thread[s].next /\ thread'[s].keep = thread[s].keep
         /\ thread'[s].pc \in {thread[s].pc, thread[s].next}
<1>1. thread \in [Slot -> Thread]
  BY DEF TypeOK
<1>2. PICK a : a = Head(jobDBRequests).slot
  OBVIOUS
<1>3. PICK found : found = Query(jobDB, Head(jobDBRequests).filter)
  OBVIOUS
<1>4. thread' = [thread EXCEPT ![a].pc = thread[a].next, ![a].reply = found]
  BY <1>2, <1>3 DEF AnswerQuery
<1>5. CASE s # a
  BY <1>1, <1>4, <1>5
<1>6. CASE s = a
  <2>1. thread'[s] = [thread[s] EXCEPT !.pc = thread[s].next, !.reply = found]
    BY <1>1, <1>4, <1>6
  <2> QED BY <1>1, <2>1 DEF Thread
<1> QED BY <1>5, <1>6

\* The handler's own requests and the one it takes from the channel.
LEMMA HandlerRequests ==
  ASSUME TypeOK, HandleRequest \/ SendOwn PROVE UnderWay' \subseteq UnderWay
<1>1. CASE HandleRequest
  <2>1. /\ jobDBRequests \in Seq(Request) /\ jobDBRequests # <<>>
        /\ jobDBRequests' = Tail(jobDBRequests) /\ own' = own
    BY <1>1 DEF HandleRequest, TypeOK
  <2>2. Range(jobDBRequests') \subseteq Range(jobDBRequests)
    BY <2>1, RangeHeadTail
  <2>3. \A s \in Slot : thread'[s].todo = thread[s].todo
    <3>1. CASE thread' = thread
      BY <3>1
    <3>2. CASE AnswerQuery(Head(jobDBRequests))
      BY <3>2, AnswerEffect
    <3> QED BY <1>1, <3>1, <3>2
           DEF HandleRequest, AddJob, RemoveLocal, Modify, BeginLaunch
  <2> QED BY <2>1, <2>2, <2>3 DEF UnderWay
<1>2. CASE SendOwn
  <2>1. /\ own \in Seq(Request) /\ own # <<>> /\ jobDBRequests \in Seq(Request)
        /\ jobDBRequests' = Append(jobDBRequests, Head(own))
        /\ own' = Tail(own) /\ thread' = thread
    BY <1>2 DEF SendOwn, TypeOK
  <2>2. /\ Head(own) \in Range(own) /\ Range(Tail(own)) \subseteq Range(own)
        /\ Head(own) \in Request
    BY <2>1, RangeHeadTail
  <2>3. Range(jobDBRequests') = Range(jobDBRequests) \cup {Head(own)}
    BY <2>1, <2>2, RangeAppend
  <2> QED BY <2>1, <2>2, <2>3 DEF UnderWay
<1> QED BY <1>1, <1>2

-----------------------------------------------------------------------------
(* The requests the code can send.                                         *)

HereIAmPC == {"ensure", "window", "launch"}

\* Only a here_i_am gets a goroutine to where jobs are launched out of turn,
\* only an instance with forwarding to where a job is handed to a peer.
PointsReached ==
  \A s \in Slot : \A point \in {thread[s].pc, thread[s].next} :
    /\ point \in HereIAmPC => "hia" \in Messages
    /\ point = "forwarding" => "forward" \in Messages

\* JobAddLocal: every job starts out waiting but the one a here_i_am makes up
\* for a machine that is being installed.
MadeAdd(job) ==
  job.status = "waiting" \/ (job.status = "processing" /\ "hia" \in Messages)

\* The jobs of the reply a goroutine stands with whose window is open.
OpenIds(s) == {j.id : j \in {k \in thread[s].reply : WindowOpen(k)}}

\* The markers "to prevent faistate => localboot" that go before a removal.
QuietMarkers == {"groom", "forward"}

\* JobsModifyLocal, one line for each of the places that call it.
MadeModify(f, u) ==
  \/ u \in [progress : QuietMarkers]
  \/ /\ "progress" \in Messages
     /\ \E mac \in MAC, p \in Percentages :
          f = BehindProgress(mac, p) /\ u = [progress |-> p]
  \/ f = DueAt(clock) /\ u = [status |-> "launch"]
  \/ f = InWindow(clock, {j.tminus : j \in jobDB}) /\ u = [status |-> "wakeup"]
  \/ u \in [status : {"error", "paused"}]
  \/ "resume" \in Messages /\ u = [status |-> "waiting"]
  \/ /\ "reschedule" \in Messages
     /\ u = [status |-> "waiting", timestamp |-> clock]
  \/ /\ "hia" \in Messages
     /\ \E s \in Slot : f = ById(OpenIds(s))
     /\ u = [status |-> "launch"]

Made(r) ==
  \/ r.op \in {"query", "remove"}
  \/ r.op = "add" /\ MadeAdd(r.job)
  \/ r.op = "modify" /\ MadeModify(r.filter, r.update)

LEMMA MadeIn ==
  /\ \A f, b, c : Made(RemoveReq(f, b, c))
  /\ \A f, s : Made(QueryReq(f, s))
  /\ \A f, u : MadeModify(f, u) => Made(ModifyReq(f, u))
  /\ \A job : MadeAdd(job) => Made(AddReq(job))
  /\ \A f, u : ModifyReq(f, u).op # "add"
  /\ \A f, b, c : RemoveReq(f, b, c).op # "add"
  /\ \A f, s : QueryReq(f, s).op # "add"
  /\ \A job : AddReq(job).job = job
BY DEF Made, RemoveReq, QueryReq, ModifyReq, AddReq

\* How a goroutine goes on: what it is to send, where it continues and what it
\* keeps of the reply it has.
Goes(s, requests, next, reply) ==
  /\ requests \in Seq(Request)
  /\ \A r \in Range(requests) :
       /\ Made(r)
       /\ r.op = "add" => r.job.id = nextID /\ nextID' = nextID + 1
  /\ next \in HereIAmPC => "hia" \in Messages
  /\ next = "forwarding" => "forward" \in Messages
  /\ reply \subseteq thread[s].reply
  /\ nextID' \in {nextID, nextID + 1}
  /\ UNCHANGED <<dbVars, handlerVars, jobDBRequests, disk, clock>>

\* Nothing to send.
LEMMA GoesOn ==
  ASSUME NEW s \in Slot, NEW next, next \notin HereIAmPC \cup {"forwarding"},
         nextID' = nextID,
         UNCHANGED <<dbVars, handlerVars, jobDBRequests, disk, clock>>
  PROVE  Goes(s, <<>>, next, {})
BY RangeEmpty, EmptySeq DEF Goes

\* One request.
LEMMA GoesOne ==
  ASSUME NEW s \in Slot, NEW r \in Request, Made(r),
         r.op = "add" => r.job.id = nextID /\ TakeId,
         r.op # "add" => nextID' = nextID, NEW next,
         next \in HereIAmPC => "hia" \in Messages,
         next = "forwarding" => "forward" \in Messages,
         UNCHANGED <<dbVars, handlerVars, jobDBRequests, disk, clock>>
  PROVE  Goes(s, <<r>>, next, {})
BY RangeOne, OneRequest DEF Goes, TakeId

\* A quiet removal.
LEMMA GoesQuietly ==
  ASSUME NEW s \in Slot, NEW f \in Filter, NEW marker \in QuietMarkers,
         NEW stop \in BOOLEAN, NEW reply \in SUBSET thread[s].reply,
         NEW next,
         next \in HereIAmPC => "hia" \in Messages,
         next = "forwarding" => "forward" \in Messages,
         nextID' = nextID,
         UNCHANGED <<dbVars, handlerVars, jobDBRequests, disk, clock>>
  PROVE  Goes(s, RemoveQuietly(f, marker, stop), next, reply)
<1> DEFINE q == ModifyReq(f, [progress |-> marker])
           e == RemoveReq(f, stop, TRUE)
<1>1. MadeModify(f, [progress |-> marker])
  BY DEF MadeModify
<1>2. Made(q) /\ q.op # "add" /\ Made(e) /\ e.op # "add"
  BY <1>1, MadeIn
<1>3. /\ RemoveQuietly(f, marker, stop) \in Seq(Request)
      /\ Range(RemoveQuietly(f, marker, stop)) = {q, e}
  BY RangeQuietly DEF Markers, QuietMarkers
<1> HIDE DEF q, e
<1> QED BY <1>2, <1>3 DEF Goes

\* A new job.
LEMMA GoesAdd ==
  ASSUME NEW s \in Slot, NEW new, AddReq(new) \in Request, MadeAdd(new),
         new.id = nextID, TakeId,
         UNCHANGED <<dbVars, handlerVars, jobDBRequests, disk, clock>>
  PROVE  Goes(s, <<AddReq(new)>>, "idle", {})
<1> DEFINE r == AddReq(new)
<1>1. r \in Request /\ Made(r) /\ r.job.id = nextID /\ nextID' = nextID + 1
  BY MadeIn DEF TakeId
<1> HIDE DEF r
<1>2. <<r>> \in Seq(Request) /\ Range(<<r>>) = {r}
  BY <1>1, OneRequest, RangeOne
<1>3. Goes(s, <<r>>, "idle", {})
  BY <1>1, <1>2 DEF Goes, HereIAmPC
<1> QED BY <1>3 DEF r

\* Every message.
LEMMA ReceiveGoes ==
  ASSUME TypeOK, TypeOK', NEW s \in Slot, Receive(s)
  PROVE  \E requests, next, job, reply :
           Goto(s, requests, next, job, reply) /\ Goes(s, requests, next, reply)
<1> USE DEF Go
<1>0. clock \in Nat
  BY MaxIDNat DEF TypeOK
<1>1. CASE ReceiveAdd(s)
  <2>1. PICK tag \in NewTags, mac \in MAC, t \in clock..MaxTime, p \in Periods,
             tm \in TMinuses :
          Go(s, <<AddReq(WithNewId(NewJob(tag, mac, t, p, tm)))>>, "idle", Blank)
    BY <1>1 DEF ReceiveAdd
  <2> DEFINE new == WithNewId(NewJob(tag, mac, t, p, tm))
  <2>2. new.id = nextID /\ new.status = "waiting"
    BY DEF WithNewId, NewJob
  <2>3. <<AddReq(new)>> \in Seq(Request)
    BY <2>1, GotoSeq DEF TypeOK
  <2>4. AddReq(new) \in Request
    BY <2>3
  <2> HIDE DEF new
  <2>5. Goes(s, <<AddReq(new)>>, "idle", {})
    BY <1>1, <2>2, <2>4, GoesAdd DEF ReceiveAdd, MadeAdd
  <2> QED BY <2>1, <2>5 DEF new
<1>2. CASE ReceiveDelete(s)
  <2>1. PICK j \in jobDB :
          Go(s, <<RemoveReq(ById({j.id}), TRUE, FALSE)>>, "idle", Blank)
    BY <1>2 DEF ReceiveDelete
  <2>2. RemoveReq(ById({j.id}), TRUE, FALSE) \in Request
    BY DEF TypeOK, NumberedJob, Job, ById, Filter, RemoveReq, Request
  <2>3. Goes(s, <<RemoveReq(ById({j.id}), TRUE, FALSE)>>, "idle", {})
    BY <1>2, <2>2, MadeIn, GoesOne DEF ReceiveDelete, HereIAmPC
  <2> QED BY <2>1, <2>3
<1>3. CASE ReceiveUpdate(s)
  <2>1. PICK kind \in {"pause", "resume", "reschedule"}, j \in jobDB :
          /\ kind \in Messages
          /\ Go(s, <<ModifyReq(ById({j.id}), GOsaUpdate(kind))>>, "idle", Blank)
    BY <1>3 DEF ReceiveUpdate, Arrives
  <2> DEFINE q == ModifyReq(ById({j.id}), GOsaUpdate(kind))
  <2>2. /\ MadeModify(ById({j.id}), GOsaUpdate(kind))
        /\ GOsaUpdate(kind) \in Update
    BY <1>0, <2>1 DEF MadeModify, GOsaUpdate, Update, Status
  <2>3. ById({j.id}) \in Filter
    BY DEF TypeOK, NumberedJob, Job, ById, Filter
  <2>4. q \in Request /\ Made(q) /\ q.op # "add"
    BY <2>2, <2>3, MadeIn DEF ModifyReq, Request
  <2> HIDE DEF q
  <2>5. Goes(s, <<q>>, "idle", {})
    BY <1>3, <2>4, GoesOne DEF ReceiveUpdate, HereIAmPC
  <2> QED BY <2>1, <2>5 DEF q
<1>4. CASE ReceiveProgress(s)
  <2>1. PICK mac \in MAC, p \in Percentages :
          Go(s, <<ModifyReq(BehindProgress(mac, p), [progress |-> p])>> \o
                (IF p = "100" THEN <<RemoveReq(Processing(mac), FALSE, FALSE)>>
                              ELSE <<>>), "idle", Blank)
    BY <1>4 DEF ReceiveProgress
  <2> DEFINE q == ModifyReq(BehindProgress(mac, p), [progress |-> p])
             e == RemoveReq(Processing(mac), FALSE, FALSE)
             end == IF p = "100" THEN <<e>> ELSE <<>>
  <2>2. /\ BehindProgress(mac, p) \in Filter /\ Processing(mac) \in Filter
        /\ [progress |-> p] \in Update
    BY DEF BehindProgress, Processing, Filter, Update, Progress
  <2>3. q \in Request /\ e \in Request
    BY <2>2 DEF ModifyReq, RemoveReq, Request
  <2>4. MadeModify(BehindProgress(mac, p), [progress |-> p])
    BY <1>4 DEF MadeModify, ReceiveProgress, Arrives
  <2>5. Made(q) /\ q.op # "add" /\ Made(e) /\ e.op # "add"
    BY <2>4, MadeIn
  <2> HIDE DEF q, e
  <2>6. /\ <<q>> \in Seq(Request) /\ end \in Seq(Request)
        /\ Range(<<q>>) = {q} /\ Range(end) \subseteq {e}
    BY <2>3, OneRequest, EmptySeq, RangeOne, RangeEmpty
  <2> HIDE DEF end
  <2>7. /\ <<q>> \o end \in Seq(Request)
        /\ Range(<<q>> \o end) \subseteq {q, e}
    <3>1. <<q>> \o end \in Seq(Request)
      BY <2>6, ConcatProperties
    <3>2. Range(<<q>> \o end) = Range(<<q>>) \cup Range(end)
      BY <2>6, RangeConcat
    <3> QED BY <2>6, <3>1, <3>2
  <2>8. Goes(s, <<q>> \o end, "idle", {})
    BY <1>4, <2>5, <2>7 DEF Goes, ReceiveProgress, HereIAmPC
  <2> QED BY <2>1, <2>8 DEF q, e, end
<1>5. CASE ReceiveForeign(s)
  <2>1. PICK mac \in MAC :
          Go(s, RemoveQuietly(Installing(mac, 0), "forward", TRUE), "idle", Blank)
    BY <1>5 DEF ReceiveForeign
  <2>2. Installing(mac, 0) \in Filter
    BY DEF Installing, Filter
  <2>3. Goes(s, RemoveQuietly(Installing(mac, 0), "forward", TRUE), "idle", {})
    BY <1>5, <2>2, GoesQuietly DEF ReceiveForeign, QuietMarkers, HereIAmPC
  <2> QED BY <2>1, <2>3
<1>6. CASE ReceiveHereIAm(s)
  <2>1. "hia" \in Messages
    BY <1>6 DEF ReceiveHereIAm, Arrives
  <2>2. PICK mac \in MAC : \E tag \in HeaderTag : \E job :
          \/ Go(s, RemoveQuietly(Installing(mac, 0), "groom", FALSE), "window", job)
          \/ Go(s, <<QueryReq(ProcessingTag(mac, tag), s)>>, "ensure", job)
    <3>1. {"trigger_action_reinstall", "trigger_action_update"} \subseteq HeaderTag
      BY ConstantsOK DEF InstallTags
    <3> QED BY <1>6, <3>1 DEF ReceiveHereIAm
  <2>3. PICK tag \in HeaderTag : \E job :
          \/ Go(s, RemoveQuietly(Installing(mac, 0), "groom", FALSE), "window", job)
          \/ Go(s, <<QueryReq(ProcessingTag(mac, tag), s)>>, "ensure", job)
    BY <2>2
  <2>4. Installing(mac, 0) \in Filter /\ ProcessingTag(mac, tag) \in Filter
    BY DEF Installing, ProcessingTag, Filter
  <2>5. Goes(s, RemoveQuietly(Installing(mac, 0), "groom", FALSE), "window", {})
    BY <1>6, <2>1, <2>4, GoesQuietly DEF ReceiveHereIAm, QuietMarkers
  <2>6. QueryReq(ProcessingTag(mac, tag), s) \in Request
    BY <2>4 DEF QueryReq, Request
  <2>7. Goes(s, <<QueryReq(ProcessingTag(mac, tag), s)>>, "ensure", {})
    BY <1>6, <2>1, <2>6, MadeIn, GoesOne DEF ReceiveHereIAm
  <2> QED BY <2>3, <2>5, <2>7
<1>7. CASE StartGroom(s)
  <2>1. QueryReq(OlderThan(clock), s) \in Request
    BY <1>0 DEF OlderThan, Filter, QueryReq, Request
  <2>2. Goes(s, <<QueryReq(OlderThan(clock), s)>>, "grooming", {})
    BY <1>7, <2>1, MadeIn, GoesOne DEF StartGroom, HereIAmPC
  <2> QED BY <1>7, <2>2 DEF StartGroom
<1> QED BY <1>1, <1>2, <1>3, <1>4, <1>5, <1>6, <1>7 DEF Receive

\* Every action of a goroutine but Send and TakePending, and every message.
LEMMA GoroutineGoes ==
  ASSUME TypeOK, TypeOK', PointsReached, NEW s \in Slot,
         Goroutine(s) \/ Receive(s), ~Send(s), ~TakePending(s)
  PROVE  \E requests, next, job, reply :
           Goto(s, requests, next, job, reply) /\ Goes(s, requests, next, reply)
<1> DEFINE Proved == \E requests, next, job, reply :
             Goto(s, requests, next, job, reply) /\ Goes(s, requests, next, reply)
<1> USE DEF envVars, Go
<1>0. /\ clock \in Nat /\ thread[s].reply \subseteq NumberedJob
      /\ thread[s].pc \in HereIAmPC => "hia" \in Messages
      /\ thread[s].pc = "forwarding" => "forward" \in Messages
  BY MaxIDNat DEF TypeOK, Thread, PointsReached
<1>1. CASE ForwardJob(s)
  <2>1. ById({thread[s].job.id}) \in Filter
    BY <1>1, HoldsJob, FilterTypes DEF ForwardJob, JobPC, ById, Filter
  <2>2. Goes(s, RemoveQuietly(ById({thread[s].job.id}), "forward", TRUE),
             "forwarding", {})
    BY <1>1, <2>1, GoesQuietly DEF ForwardJob, MayForward, QuietMarkers, HereIAmPC
  <2> QED BY <1>1, <2>2 DEF ForwardJob
<1>2. CASE ForwardDelivered(s)
  BY <1>2, GoesOn DEF ForwardDelivered, HereIAmPC
<1>3. CASE ForwardFailed(s)
  <2> DEFINE again == [thread[s].job EXCEPT !.status = "waiting",
                                            !.progress = "forward-failed"]
  <2>1. thread[s].job \in Job
    BY <1>3, HoldsJob DEF ForwardFailed, JobPC
  <2>2. again \in Job
    BY <2>1 DEF Job, Status, Progress, Markers
  <2>3. WithNewId(again).status = "waiting" /\ WithNewId(again).id = nextID
    BY <2>1 DEF WithNewId, Job
  <2>4. TakeId /\ Go(s, <<AddReq(WithNewId(again))>>, "idle", Blank)
    BY <1>3 DEF ForwardFailed
  <2>5. AddReq(WithNewId(again)) \in Request
    BY <2>2, <2>4, TakeIdType DEF AddReq, Request
  <2> HIDE DEF again
  <2>6. Goes(s, <<AddReq(WithNewId(again))>>, "idle", {})
    BY <1>3, <2>3, <2>4, <2>5, GoesAdd DEF ForwardFailed, MadeAdd
  <2> QED BY <2>4, <2>6
<1>4. CASE Act(s)
  <2>1. CASE Go(s, <<>>, "idle", Blank)
    BY <1>4, <2>1, GoesOn DEF Act, HereIAmPC
  <2>2. CASE Go(s, <<RemoveReq(ById({thread[s].job.id}), FALSE, FALSE)>>,
                "idle", Blank)
    <3>1. ById({thread[s].job.id}) \in Filter
      BY <1>4, HoldsJob DEF Act, JobPC, ById, Filter
    <3>2. RemoveReq(ById({thread[s].job.id}), FALSE, FALSE) \in Request
      BY <3>1 DEF RemoveReq, Request
    <3>3. Goes(s, <<RemoveReq(ById({thread[s].job.id}), FALSE, FALSE)>>,
               "idle", {})
      BY <1>4, <3>2, MadeIn, GoesOne DEF Act, HereIAmPC
    <3> QED BY <2>2, <3>3
  <2> QED BY <1>4, <2>1, <2>2 DEF Act
<1>5. CASE ReadState(s) \/ SetLocalboot(s)
  <2>1. \/ Go(s, <<>>, "setlocal", thread[s].job)
        \/ Go(s, <<>>, "followup", thread[s].job)
    BY <1>5 DEF ReadState, SetLocalboot
  <2> QED BY <1>5, <2>1, GoesOn DEF ReadState, SetLocalboot, HereIAmPC
<1>6. CASE FollowUp(s)
  <2>1. CASE thread[s].job.periodic = 0
    BY <1>6, <2>1, GoesOn DEF FollowUp, HereIAmPC
  <2>2. CASE thread[s].job.periodic # 0
    <3> DEFINE new == NextInstance(thread[s].job, nextID, clock)
    <3>1. TakeId /\ Go(s, <<AddReq(new)>>, "idle", Blank)
      BY <1>6, <2>2 DEF FollowUp
    <3>2. thread[s].job \in Job /\ nextID \in 1..MaxID
      BY <1>6, <3>1, HoldsJob, TakeIdType DEF FollowUp, JobPC
    <3>3. new \in NumberedJob /\ new.id = nextID
      BY <1>0, <2>2, <3>2, NextInstanceType, MaxIDNat DEF NumberedJob
    <3>4. new.status = "waiting"
      BY <3>2 DEF NextInstance, Job
    <3> HIDE DEF new
    <3>5. AddReq(new) \in Request
      BY <3>3 DEF AddReq, Request
    <3>6. Goes(s, <<AddReq(new)>>, "idle", {})
      BY <1>6, <3>1, <3>3, <3>4, <3>5, GoesAdd DEF FollowUp, MadeAdd
    <3> QED BY <3>1, <3>6
  <2> QED BY <2>1, <2>2
<1>7. CASE EnsureJob(s)
  <2> DEFINE subject == thread[s].job
             quiet == RemoveQuietly(Installing(subject.macaddress, 0), "groom", TRUE)
             running == [subject EXCEPT !.status = "processing",
                                        !.timestamp = clock]
             new == WithNewId(running)
  <2>0. "hia" \in Messages /\ subject \in Job /\ subject.macaddress \in MAC
    BY <1>0, <1>7, HoldsJob DEF EnsureJob, HereIAmPC, JobPC
  <2>1. CASE thread[s].reply # {}
    <3>1. Go(s, <<>>, "window", subject) /\ nextID' = nextID
      BY <1>7, <2>1 DEF EnsureJob
    <3>2. Goes(s, <<>>, "window", {})
      BY <1>7, <2>0, <3>1, RangeEmpty, EmptySeq DEF Goes, EnsureJob
    <3> QED BY <3>1, <3>2
  <2>2. CASE thread[s].reply = {}
    <3>1. TakeId /\ Go(s, quiet \o <<AddReq(new)>>, "window", subject)
      BY <1>7, <2>2 DEF EnsureJob
    <3>2. running \in Job
      BY <1>0, <2>0 DEF Job, Status
    <3>3. new \in NumberedJob /\ new.id = nextID /\ new.status = "processing"
      BY <3>1, <3>2, <2>0, TakeIdType DEF WithNewId, Job
    <3>4. Installing(subject.macaddress, 0) \in Filter
      BY <2>0, FilterTypes DEF Installing, Filter
    <3>5. /\ quiet \in Seq(Request)
          /\ Range(quiet) =
               {ModifyReq(Installing(subject.macaddress, 0), [progress |-> "groom"]),
                RemoveReq(Installing(subject.macaddress, 0), TRUE, TRUE)}
      BY <3>4, RangeQuietly DEF Markers
    <3> HIDE DEF new, quiet, running
    <3>6. AddReq(new) \in Request
      BY <3>3 DEF AddReq, Request
    <3>7. <<AddReq(new)>> \in Seq(Request) /\ quiet \o <<AddReq(new)>> \in Seq(Request)
      BY <3>5, <3>6, OneRequest, ConcatProperties
    <3>8. Range(quiet \o <<AddReq(new)>>) = Range(quiet) \cup {AddReq(new)}
      BY <3>5, <3>6, <3>7, RangeConcat, RangeOne
    <3>9. MadeModify(Installing(subject.macaddress, 0), [progress |-> "groom"])
      BY DEF MadeModify, QuietMarkers
    <3>10. \A r \in Range(quiet) : Made(r) /\ r.op # "add"
      <4> DEFINE q == ModifyReq(Installing(subject.macaddress, 0),
                                [progress |-> "groom"])
                 e == RemoveReq(Installing(subject.macaddress, 0), TRUE, TRUE)
      <4>1. Made(q) /\ q.op # "add" /\ Made(e) /\ e.op # "add"
        BY <3>9, MadeIn
      <4>2. Range(quiet) = {q, e}
        BY <3>5
      <4> HIDE DEF q, e
      <4> QED BY <4>1, <4>2
    <3>11. Made(AddReq(new)) /\ AddReq(new).job.id = nextID
      BY <2>0, <3>3, MadeIn DEF MadeAdd
    <3>12. Goes(s, quiet \o <<AddReq(new)>>, "window", {})
      BY <1>7, <2>0, <3>1, <3>7, <3>8, <3>10, <3>11 DEF Goes, TakeId, EnsureJob
    <3> QED BY <3>1, <3>12
  <2> QED BY <2>1, <2>2
<1>8. CASE QueryWindow(s)
  <2>1. HasTminus(thread[s].job.macaddress) \in Filter /\ "hia" \in Messages
    BY <1>0, <1>8, HoldsJob DEF QueryWindow, JobPC, HereIAmPC, HasTminus, Filter
  <2>2. QueryReq(HasTminus(thread[s].job.macaddress), s) \in Request
    BY <2>1 DEF QueryReq, Request
  <2>3. Goes(s, <<QueryReq(HasTminus(thread[s].job.macaddress), s)>>, "launch", {})
    BY <1>8, <2>1, <2>2, MadeIn, GoesOne DEF QueryWindow
  <2> QED BY <1>8, <2>3 DEF QueryWindow
<1>9. CASE LaunchWindow(s)
  <2> DEFINE q == ModifyReq(ById(OpenIds(s)), [status |-> "launch"])
  <2>0. "hia" \in Messages
    BY <1>0, <1>9 DEF LaunchWindow, HereIAmPC
  <2>1. CASE OpenIds(s) = {}
    <3>1. Go(s, <<>>, "idle", Blank)
      BY <1>9, <2>1 DEF LaunchWindow, OpenIds
    <3> QED BY <1>9, <3>1, GoesOn DEF LaunchWindow, HereIAmPC
  <2>2. CASE OpenIds(s) # {}
    <3>1. Go(s, <<q>>, "idle", Blank)
      BY <1>9, <2>2 DEF LaunchWindow, OpenIds
    <3>2. OpenIds(s) \in SUBSET Nat
      BY <1>0 DEF OpenIds, NumberedJob, Job
    <3>3. ById(OpenIds(s)) \in Filter /\ [status |-> "launch"] \in Update
      BY <3>2 DEF ById, Filter, Update
    <3>4. q \in Request /\ Made(q) /\ q.op # "add"
      <4>1. MadeModify(ById(OpenIds(s)), [status |-> "launch"])
        BY <2>0 DEF MadeModify
      <4>2. q \in Request
        BY <3>3 DEF ModifyReq, Request
      <4> QED BY <4>1, <4>2, MadeIn
    <3> HIDE DEF q
    <3>5. Goes(s, <<q>>, "idle", {})
      BY <1>9, <3>4, GoesOne DEF LaunchWindow, HereIAmPC
    <3> QED BY <3>1, <3>5
  <2> QED BY <2>1, <2>2
<1>10. CASE GroomJob(s)
  <2>1. CASE Go(s, <<>>, "idle", Blank)
    BY <1>10, <2>1, GoesOn DEF GroomJob, HereIAmPC
  <2>2. ASSUME NEW j \in thread[s].reply,
               Goto(s, GroomRequests(j), "grooming", Blank, thread[s].reply \ {j})
        PROVE  Proved
    <3>0. j \in Job /\ j.id \in Nat
      BY <1>0, <2>2 DEF NumberedJob, Job
    <3>1. /\ ById({j.id}) \in Filter /\ [status |-> "error"] \in Update
          /\ thread[s].reply \ {j} \in SUBSET thread[s].reply
      BY <3>0 DEF ById, Filter, Update, Status
    <3>2. CASE GroomRequests(j) = <<>>
      <4>1. Goes(s, <<>>, "grooming", thread[s].reply \ {j})
        BY <1>10, RangeEmpty, EmptySeq DEF Goes, GroomJob, HereIAmPC
      <4> QED BY <2>2, <3>2, <4>1
    <3>3. CASE GroomRequests(j) = RemoveQuietly(ById({j.id}), "groom", FALSE)
      <4>1. Goes(s, RemoveQuietly(ById({j.id}), "groom", FALSE), "grooming",
                 thread[s].reply \ {j})
        BY <1>10, <3>1, GoesQuietly DEF GroomJob, QuietMarkers, HereIAmPC
      <4> QED BY <2>2, <3>3, <4>1
    <3>4. CASE GroomRequests(j) = <<ModifyReq(ById({j.id}), [status |-> "error"])>>
      <4> DEFINE q == ModifyReq(ById({j.id}), [status |-> "error"])
      <4>1. q \in Request
        BY <3>1 DEF ModifyReq, Request
      <4>2. MadeModify(ById({j.id}), [status |-> "error"])
        BY DEF MadeModify
      <4>3. Made(q) /\ q.op # "add"
        BY <4>2, MadeIn
      <4> HIDE DEF q
      <4>4. <<q>> \in Seq(Request) /\ Range(<<q>>) = {q}
        BY <4>1, OneRequest, RangeOne
      <4>5. Goes(s, <<q>>, "grooming", thread[s].reply \ {j})
        BY <1>10, <4>3, <4>4 DEF Goes, GroomJob, HereIAmPC
      <4>6. Goto(s, <<q>>, "grooming", Blank, thread[s].reply \ {j})
        BY <2>2, <3>4 DEF q
      <4> QED BY <4>5, <4>6
    <3> QED BY <3>2, <3>3, <3>4 DEF GroomRequests
  <2> QED BY <1>10, <2>1, <2>2 DEF GroomJob
<1>11. CASE Receive(s)
  BY <1>11, ReceiveGoes
<1> QED BY <1>1, <1>2, <1>3, <1>4, <1>5, <1>6, <1>7, <1>8, <1>9, <1>10, <1>11
       DEF Goroutine

LEMMA InitPoints == Init => PointsReached
BY DEF Init, Idle, PointsReached, HereIAmPC

LEMMA NextPoints ==
  ASSUME TypeOK, PointsReached, [Next]_vars PROVE PointsReached'
<1> DEFINE Points(t) == {t.pc, t.next}
<1>0. TypeOK'
  BY NextType
<1>1. SUFFICES ASSUME NEW s \in Slot
               PROVE  \A point \in Points(thread'[s]) :
                        /\ point \in HereIAmPC => "hia" \in Messages
                        /\ point = "forwarding" => "forward" \in Messages
  BY DEF PointsReached
<1>2. CASE Points(thread'[s]) \subseteq
             Points(thread[s]) \cup {"send", "await", "idle", "done", "act"}
  BY <1>2 DEF PointsReached, HereIAmPC
<1> HIDE DEF Points
<1>3. CASE thread' = thread
  BY <1>2, <1>3
<1>4. CASE HandleRequest
  <2>1. CASE thread' = thread
    BY <1>2, <2>1
  <2>2. CASE AnswerQuery(Head(jobDBRequests))
    <3>1. Points(thread'[s]) \subseteq Points(thread[s])
      BY <2>2, AnswerEffect DEF Points
    <3> QED BY <1>2, <3>1
  <2> QED BY <1>4, <2>1, <2>2
         DEF HandleRequest, AddJob, RemoveLocal, Modify, BeginLaunch
<1>5. ASSUME NEW t \in Slot, Goroutine(t) \/ Receive(t)
      PROVE  Points(thread'[s]) \subseteq
               Points(thread[s]) \cup {"send", "await", "idle", "done", "act"}
             \/ \A point \in Points(thread'[s]) :
                  /\ point \in HereIAmPC => "hia" \in Messages
                  /\ point = "forwarding" => "forward" \in Messages
  <2>1. CASE Send(t)
    BY <2>1, SendEffect DEF Points
  <2>2. CASE TakePending(t)
    BY <2>2 DEF TakePending, TypeOK, Thread, Idle, Points
  <2>3. CASE ~Send(t) /\ ~TakePending(t)
    <3>1. PICK requests, next, job, reply :
            Goto(t, requests, next, job, reply) /\ Goes(t, requests, next, reply)
      BY <1>0, <1>5, <2>3, GoroutineGoes
    <3>2. \/ thread'[s] = thread[s]
          \/ Points(thread'[s]) \subseteq {next, "send"}
      BY <3>1, GotoEffect DEF Points
    <3> QED BY <3>1, <3>2 DEF Goes, HereIAmPC
  <2> QED BY <2>1, <2>2, <2>3
<1>6. CASE Restart
  BY <1>2, <1>6 DEF Restart, Idle, Points
<1> QED BY <1>2, <1>3, <1>4, <1>5, <1>6
       DEF Next, Handler, SendOwn, LaunchCleared, ProcessPendingActions,
           LaunchNext, EditLDAP, Tick, Persist, vars

\* A request that comes under way in a step is made by that step.
LEMMA StepRequests ==
  ASSUME TypeOK, PointsReached, [Next]_vars, NEW r \in UnderWay', r \notin UnderWay
  PROVE  /\ Made(r) /\ clock' = clock
         /\ r.op = "add" => r.job.id = nextID
<1>0. TypeOK'
  BY NextType
<1>1. CASE UNCHANGED <<jobDBRequests, own, thread>>
  BY <1>1 DEF UnderWay
<1>2. CASE HandleRequest \/ SendOwn
  BY <1>2, HandlerRequests
<1>3. ASSUME NEW job \in batch, LaunchNext(job)
      PROVE  Made(r) /\ clock' = clock /\ r.op # "add"
  <2>1. CASE IsInstall(job)
    <3>1. job.macaddress \in MAC /\ job.id \in Nat
      BY DEF TypeOK, NumberedJob, Job
    <3>2. Installing(job.macaddress, job.id) \in Filter
      BY <3>1 DEF Installing, Filter
    <3> DEFINE q == ModifyReq(Installing(job.macaddress, job.id),
                              [progress |-> "groom"])
               e == RemoveReq(Installing(job.macaddress, job.id), FALSE, TRUE)
    <3>3. MadeModify(Installing(job.macaddress, job.id), [progress |-> "groom"])
      BY DEF MadeModify, QuietMarkers
    <3>4. Made(q) /\ q.op # "add" /\ Made(e) /\ e.op # "add"
      BY <3>3, MadeIn
    <3>5. /\ own' = RemoveQuietly(Installing(job.macaddress, job.id), "groom", FALSE)
          /\ UNCHANGED <<jobDBRequests, thread, clock>>
      BY <1>3, <2>1 DEF LaunchNext, envVars
    <3>6. Range(own') = {q, e}
      BY <3>2, <3>5, RangeQuietly DEF Markers
    <3> HIDE DEF q, e
    <3> QED BY <3>4, <3>5, <3>6 DEF UnderWay
  <2>2. CASE ~IsInstall(job)
    BY <1>3, <2>2 DEF LaunchNext, UnderWay
  <2> QED BY <2>1, <2>2
<1>4. CASE ProcessPendingActions
  <2> DEFINE window == {j.tminus : j \in jobDB}
             q == ModifyReq(DueAt(clock), [status |-> "launch"])
             e == ModifyReq(InWindow(clock, window), [status |-> "wakeup"])
  <2>1. clock \in Nat /\ window \in SUBSET Nat
    <3>1. clock \in Nat
      BY MaxIDNat DEF TypeOK
    <3>2. \A j \in jobDB : j.tminus \in Nat
      BY MaxIDNat DEF TypeOK, NumberedJob, Job
    <3> QED BY <3>1, <3>2
  <2>2. /\ MadeModify(DueAt(clock), [status |-> "launch"])
        /\ MadeModify(InWindow(clock, window), [status |-> "wakeup"])
    BY DEF MadeModify
  <2>3. Made(q) /\ q.op # "add" /\ Made(e) /\ e.op # "add"
    BY <2>2, MadeIn
  <2>4. own' = <<q, e>> /\ UNCHANGED <<jobDBRequests, thread, clock>>
    BY <1>4 DEF ProcessPendingActions, envVars
  <2> HIDE DEF window
  <2>5. q \in Request /\ e \in Request
    BY <2>1 DEF Update, Status, DueAt, InWindow, Filter, ModifyReq, Request
  <2> HIDE DEF q, e
  <2>6. Range(own') = {q, e}
    BY <2>4, <2>5, RangeTwo
  <2> QED BY <2>3, <2>4, <2>6 DEF UnderWay
<1>5. ASSUME NEW s \in Slot, Goroutine(s) \/ Receive(s)
      PROVE  /\ Made(r) /\ clock' = clock
             /\ r.op = "add" => r.job.id = nextID
  <2>1. CASE Send(s)
    BY <2>1, SendRequests
  <2>2. CASE TakePending(s)
    <3>1. /\ UNCHANGED <<jobDBRequests, own, clock>>
          /\ \A t \in Slot : \/ thread'[t].todo = thread[t].todo
                             \/ thread'[t].todo = <<>>
      BY <2>2 DEF TakePending, TypeOK, Thread, Idle, handlerVars, envVars
    <3> QED BY <3>1, RangeEmpty DEF UnderWay
  <2>3. CASE ~Send(s) /\ ~TakePending(s)
    <3>1. PICK requests, next, job, reply :
            Goto(s, requests, next, job, reply) /\ Goes(s, requests, next, reply)
      BY <1>0, <1>5, <2>3, GoroutineGoes
    <3>2. UnderWay' \subseteq UnderWay \cup Range(requests)
      BY <3>1, GotoRequests DEF Goes, handlerVars
    <3> QED BY <3>1, <3>2 DEF Goes
  <2> QED BY <2>1, <2>2, <2>3
<1>6. CASE Restart
  BY <1>6, RangeEmpty DEF Restart, UnderWay, Idle
<1> QED BY <1>1, <1>2, <1>3, <1>4, <1>5, <1>6
       DEF Next, Handler, LaunchCleared, EditLDAP, Tick, Persist, vars,
           handlerVars

\* The clock only goes forward.
LEMMA ClockMonotone ==
  ASSUME TypeOK, [Next]_vars PROVE clock \in Nat /\ clock' \in Nat /\ clock <= clock'
<1>1. clock \in Nat /\ clock' \in Nat
  BY NextType, MaxIDNat DEF TypeOK
<1>2. CASE Tick
  BY <1>1, <1>2 DEF Tick
<1>3. CASE UNCHANGED clock
  BY <1>1, <1>3
<1>4. ASSUME NEW s \in Slot, Goroutine(s) PROVE UNCHANGED clock
  BY <1>4 DEF Goroutine, Send, TakePending, ForwardJob, ForwardDelivered,
     ForwardFailed, Act, ReadState, SetLocalboot, FollowUp, EnsureJob,
     QueryWindow, LaunchWindow, GroomJob, envVars
<1>5. ASSUME NEW s \in Slot, Receive(s) PROVE UNCHANGED clock
  BY <1>5 DEF Receive, ReceiveAdd, ReceiveDelete, ReceiveUpdate, ReceiveProgress,
     ReceiveForeign, ReceiveHereIAm, StartGroom
<1>6. CASE Handler
  <2>1. HandleRequest => UNCHANGED clock
    BY DEF HandleRequest, envVars
  <2>2. SendOwn \/ LaunchCleared \/ ProcessPendingActions => UNCHANGED clock
    BY DEF SendOwn, LaunchCleared, ProcessPendingActions, envVars
  <2>3. \A job \in batch : LaunchNext(job) => UNCHANGED clock
    BY DEF LaunchNext, envVars
  <2> QED BY <1>3, <1>6, <2>1, <2>2, <2>3 DEF Handler
<1>7. CASE EditLDAP \/ Persist \/ Restart \/ UNCHANGED vars
  BY <1>3, <1>7 DEF EditLDAP, Persist, Restart, vars
<1> QED BY <1>2, <1>3, <1>4, <1>5, <1>6, <1>7 DEF Next

\* Only handleJobDBRequests, a launch and a restart change the jobs.
LEMMA StepJobs ==
  ASSUME TypeOK, [Next]_vars, ~HandleRequest, ~Restart,
         \A job \in batch : ~LaunchJob(job)
  PROVE  UNCHANGED <<jobDB, launches>>
<1>1. ASSUME NEW s \in Slot, Goroutine(s) PROVE UNCHANGED <<jobDB, launches>>
  BY <1>1 DEF Goroutine, Send, TakePending, ForwardJob, ForwardDelivered,
     ForwardFailed, Act, ReadState, SetLocalboot, FollowUp, EnsureJob,
     QueryWindow, LaunchWindow, GroomJob, dbVars
<1>2. ASSUME NEW s \in Slot, Receive(s) PROVE UNCHANGED <<jobDB, launches>>
  BY <1>2 DEF Receive, ReceiveAdd, ReceiveDelete, ReceiveUpdate, ReceiveProgress,
     ReceiveForeign, ReceiveHereIAm, StartGroom, dbVars
<1>3. CASE Handler
  <2>1. CASE LaunchCleared
    BY <2>1 DEF LaunchCleared, TypeOK
  <2>2. CASE SendOwn \/ ProcessPendingActions
    BY <2>2 DEF SendOwn, ProcessPendingActions, dbVars
  <2>3. ASSUME NEW job \in batch, LaunchNext(job)
        PROVE  UNCHANGED <<jobDB, launches>>
    BY <2>3 DEF LaunchNext, dbVars
  <2> QED BY <1>3, <2>1, <2>2, <2>3 DEF Handler
<1>4. CASE EditLDAP \/ Tick \/ Persist \/ UNCHANGED vars
  BY <1>4 DEF EditLDAP, Tick, Persist, vars, dbVars
<1> QED BY <1>1, <1>2, <1>3, <1>4 DEF Next

-----------------------------------------------------------------------------
(* Which requests are under way, and ProgressNeverBackwards.                *)

\* A modification only writes a percentage if its filter selects the jobs that
\* are behind it, only launches what is due or what a here_i_am has picked, and
\* only makes a job wait if GOsa asks for it.
OrderlyModify(f, u) ==
  /\ "progress" \in DOMAIN u =>
       \/ u.progress \in QuietMarkers
       \/ /\ f.kind = "progress" /\ f.progress = u.progress
          /\ "progress" \in Messages
  /\ "timestamp" \in DOMAIN u => u.timestamp <= clock
  /\ "status" \in DOMAIN u =>
       \/ u.status \in {"error", "paused"}
       \/ u.status = "launch" /\ f.kind = "due" /\ f.now <= clock
       \/ u.status = "launch" /\ f.kind = "ids" /\ "hia" \in Messages
       \/ u.status = "wakeup" /\ f.kind = "tminus"
       \/ u.status = "waiting" /\ Messages \cap {"resume", "reschedule"} # {}

Orderly(r) ==
  /\ r.op = "add" => MadeAdd(r.job)
  /\ r.op = "modify" => OrderlyModify(r.filter, r.update)

RequestsOrderly == \A r \in UnderWay : Orderly(r)

LaunchInv == TypeOK /\ PointsReached /\ RequestsOrderly

LEMMA MadeOrderly ==
  ASSUME TypeOK, NEW r, Made(r) PROVE Orderly(r)
<1>0. clock \in Nat
  BY MaxIDNat DEF TypeOK
<1>1. ASSUME NEW f, NEW u, MadeModify(f, u) PROVE OrderlyModify(f, u)
  <2>1. CASE u \in [progress : QuietMarkers]
    BY <2>1 DEF OrderlyModify
  <2>2. CASE /\ "progress" \in Messages
             /\ \E mac \in MAC, p \in Percentages :
                  f = BehindProgress(mac, p) /\ u = [progress |-> p]
    BY <2>2 DEF OrderlyModify, BehindProgress
  <2>3. CASE f = DueAt(clock) /\ u = [status |-> "launch"]
    BY <1>0, <2>3 DEF OrderlyModify, DueAt
  <2>4. CASE /\ f = InWindow(clock, {j.tminus : j \in jobDB})
             /\ u = [status |-> "wakeup"]
    BY <2>4 DEF OrderlyModify, InWindow
  <2>5. CASE u \in [status : {"error", "paused"}]
    BY <2>5 DEF OrderlyModify
  <2>6. CASE \/ "resume" \in Messages /\ u = [status |-> "waiting"]
             \/ /\ "reschedule" \in Messages
                /\ u = [status |-> "waiting", timestamp |-> clock]
    BY <1>0, <2>6 DEF OrderlyModify
  <2>7. CASE /\ "hia" \in Messages /\ \E s \in Slot : f = ById(OpenIds(s))
             /\ u = [status |-> "launch"]
    BY <2>7 DEF OrderlyModify, ById
  <2> QED BY <1>1, <2>1, <2>2, <2>3, <2>4, <2>5, <2>6, <2>7 DEF MadeModify
<1> QED BY <1>1 DEF Made, Orderly

\* A request stays orderly while time goes on.
LEMMA OrderlyStays ==
  ASSUME TypeOK, [Next]_vars, NEW r \in Request, Orderly(r) PROVE Orderly(r)'
<1>1. clock \in Nat /\ clock' \in Nat /\ clock <= clock'
  BY ClockMonotone
<1>2. ASSUME r.op = "modify" PROVE OrderlyModify(r.filter, r.update)'
  <2>1. /\ r.filter \in Filter /\ r.update \in Update
        /\ OrderlyModify(r.filter, r.update)
    BY <1>2, RequestFields DEF Orderly
  <2>2. "timestamp" \in DOMAIN r.update => r.update.timestamp \in Nat
    BY <2>1 DEF Update
  <2>3. r.filter.kind = "due" => r.filter.now \in Nat
    BY <2>1 DEF Filter
  <2> QED BY <1>1, <2>1, <2>2, <2>3 DEF OrderlyModify
<1> QED BY <1>2 DEF Orderly

LEMMA LaunchInvInit == Init => LaunchInv
<1> SUFFICES ASSUME Init PROVE LaunchInv
  OBVIOUS
<1>1. UnderWay = {}
  BY RangeEmpty DEF Init, UnderWay, Idle
<1> QED BY <1>1, InitType, InitPoints DEF LaunchInv, RequestsOrderly

LEMMA LaunchInvNext == ASSUME LaunchInv, [Next]_vars PROVE LaunchInv'
<1>1. TypeOK' /\ PointsReached'
  BY NextType, NextPoints DEF LaunchInv
<1>2. ASSUME NEW r \in UnderWay' PROVE Orderly(r)'
  <2>1. CASE r \in UnderWay
    BY <2>1, UnderWayRequests, OrderlyStays DEF LaunchInv, RequestsOrderly
  <2>2. CASE r \notin UnderWay
    <3>1. Made(r) /\ clock' = clock
      BY <1>2, <2>2, StepRequests DEF LaunchInv
    <3>2. Orderly(r)
      BY <3>1, MadeOrderly DEF LaunchInv
    <3> QED BY <3>1, <3>2 DEF Orderly, OrderlyModify, MadeAdd
  <2> QED BY <2>1, <2>2
<1> QED BY <1>1, <1>2 DEF LaunchInv, RequestsOrderly

\* What a modification leaves behind.
LEMMA ModifyLeaves ==
  ASSUME TypeOK, NEW r, Modify(r), NEW k \in jobDB'
  PROVE  \/ k \in jobDB
         \/ \E j \in jobDB : Accepts(r.filter, j) /\ k = Apply(j, r.update)
BY DEF Modify, Query

\* The request handled is one of those under way.
LEMMA HeadUnderWay ==
  ASSUME TypeOK, jobDBRequests # <<>>
  PROVE  Head(jobDBRequests) \in UnderWay /\ Head(jobDBRequests) \in Request
BY RangeHeadTail DEF TypeOK, UnderWay

\* The jobs a launch leaves behind are old ones and the one launched.
LEMMA LaunchLeaves ==
  ASSUME IdInv, NEW job \in batch, LaunchJob(job), NEW k \in jobDB'
  PROVE  /\ job \in jobDB /\ job \in Job
         /\ (k \in jobDB /\ k.id # job.id) \/ k = Launched(job)
         /\ Launched(job) = [job EXCEPT !.status = "processing"]
         /\ launches' = [launches EXCEPT ![job.id] = @ + 1]
BY DEF LaunchJob, IdInv, HandlerHolds, TypeOK, NumberedJob, Launched

\* A step takes no job from a percentage to a smaller one.
LEMMA StepProgress ==
  ASSUME IdInv, LaunchInv, [Next]_vars, ~Restart,
         NEW j \in jobDB, NEW k \in jobDB', j.id = k.id,
         {j.progress, k.progress} \subseteq Percentages
  PROVE  Percent[j.progress] <= Percent[k.progress]
<1> DEFINE r == Head(jobDBRequests)
<1>0. \A p \in Percentages : Percent[p] \in Nat
  BY DEF Percentages, Percent
<1>1. CASE k \in jobDB
  <2>1. j = k
    BY <1>1 DEF IdInv, JobsDistinct
  <2> QED BY <1>0, <2>1
<1>2. CASE HandleRequest /\ k \notin jobDB
  <2>0. r \in UnderWay /\ r \in Request
    BY <1>2, HeadUnderWay DEF HandleRequest, IdInv
  <2>1. CASE r.op = "add" /\ AddJob(r)
    <3>1. k = r.job
      BY <1>2, <2>1 DEF AddJob
    <3>2. r = jobDBRequests[1] /\ 1 \in DOMAIN jobDBRequests
      BY <1>2 DEF HandleRequest, IdInv, TypeOK
    <3>3. \A i \in jobDB : i.id # r.job.id
      BY <2>1, <3>2 DEF IdInv, ChannelDistinct, Absent
    <3> QED BY <3>1, <3>3
  <2>2. CASE r.op = "modify" /\ ~IsLaunch(r) /\ Modify(r)
    <3>1. PICK i \in jobDB : Accepts(r.filter, i) /\ k = Apply(i, r.update)
      BY <1>2, <2>2, ModifyLeaves DEF IdInv
    <3>2. i \in Job /\ r.update \in Update /\ r.filter \in Filter
      BY <2>0, <2>2, RequestFields DEF IdInv, TypeOK, NumberedJob
    <3>3. k.id = i.id /\ k.progress = IF "progress" \in DOMAIN r.update
                                       THEN r.update.progress ELSE i.progress
      BY <3>1, <3>2 DEF Apply, Job
    <3>4. i = j
      BY <3>3 DEF IdInv, JobsDistinct
    <3>5. CASE "progress" \in DOMAIN r.update
      <4>1. OrderlyModify(r.filter, r.update)
        BY <2>0, <2>2 DEF LaunchInv, RequestsOrderly, Orderly
      <4>2. r.update.progress \notin QuietMarkers
        BY <3>3, <3>5 DEF QuietMarkers, Percentages
      <4>3. r.filter.kind = "progress" /\ r.filter.progress = k.progress
        BY <3>3, <3>5, <4>1, <4>2 DEF OrderlyModify
      <4>4. Behind(j.progress, k.progress)
        BY <3>1, <3>4, <4>3 DEF Accepts
      <4> QED BY <1>0, <4>4 DEF Behind, Markers, Percentages
    <3>6. CASE "progress" \notin DOMAIN r.update
      BY <1>0, <3>3, <3>4, <3>6
    <3> QED BY <3>5, <3>6
  <2> QED BY <1>2, <2>1, <2>2
         DEF HandleRequest, RemoveLocal, BeginLaunch, AnswerQuery, dbVars
<1>3. ASSUME NEW job \in batch, LaunchJob(job), k \notin jobDB
      PROVE  Percent[j.progress] <= Percent[k.progress]
  <2>1. job \in jobDB /\ job \in Job /\ k = [job EXCEPT !.status = "processing"]
    BY <1>3, LaunchLeaves
  <2>2. k.id = job.id /\ k.progress = job.progress
    BY <2>1 DEF Job
  <2>3. j = job
    BY <2>1, <2>2 DEF IdInv, JobsDistinct
  <2> QED BY <1>0, <2>2, <2>3
<1> QED BY <1>1, <1>2, <1>3, StepJobs DEF IdInv

\* "do_not_run_progress_backwards" (clmsg_progress.go): whatever percentages
\* the clients report, in whatever order the goroutines that handle the reports
\* get to send their requests, no job falls back to a smaller percentage.
THEOREM ProgressKept == Spec => ProgressNeverBackwards
<1> DEFINE Forward == \A j \in jobDB, k \in jobDB' :
             (j.id = k.id /\ {j.progress, k.progress} \subseteq Percentages) =>
                Percent[j.progress] <= Percent[k.progress]
<1>1. Init => IdInv /\ LaunchInv
  BY InitIds, LaunchInvInit
<1>2. IdInv /\ LaunchInv /\ [Next]_vars => IdInv' /\ LaunchInv'
  BY NextIds, LaunchInvNext
<1>3. IdInv /\ LaunchInv /\ [Next]_vars => [Restart \/ Forward]_vars
  BY StepProgress
<1> HIDE DEF Forward
<1>4. Spec => [][Restart \/ Forward]_vars
  BY <1>1, <1>2, <1>3, PTL DEF Spec
<1> QED BY <1>4 DEF ProgressNeverBackwards, Forward

-----------------------------------------------------------------------------
(* LaunchedInWindow: a goroutine launches a job by an id it has seen in a   *)
(* reply, when the job may have been changed, deleted or replaced since.    *)

\* A job with this id is on its way into the database.
Coming(i) == \E r \in UnderWay : r.op = "add" /\ r.job.id = i

\* The id has been used up: no other job will ever carry it.
Settled(i) == i < nextID /\ ~Coming(i)

\* What is left of a job from one step to the next.
SameJob(j, k) ==
  /\ k.id = j.id /\ k.root = j.root /\ k.headertag = j.headertag
  /\ k.macaddress = j.macaddress /\ k.periodic = j.periodic
  /\ k.tminus = j.tminus
  /\ k.timestamp = j.timestamp \/ k.timestamp <= clock

\* The id counter only goes forward, but for a restart.
LEMMA NextIDMonotone ==
  ASSUME TypeOK, PointsReached, [Next]_vars, ~Restart
  PROVE  nextID \in Nat /\ nextID' \in Nat /\ nextID <= nextID'
<1>0. TypeOK'
  BY NextType
<1>1. nextID \in Nat /\ nextID' \in Nat
  BY <1>0, MaxIDNat DEF TypeOK
<1>2. ASSUME NEW s \in Slot, Goroutine(s) \/ Receive(s)
      PROVE  nextID' \in {nextID, nextID + 1}
  <2>1. CASE ~Send(s) /\ ~TakePending(s)
    BY <1>0, <1>2, <2>1, GoroutineGoes DEF Goes
  <2>2. CASE Send(s) \/ TakePending(s)
    BY <2>2 DEF Send, TakePending
  <2> QED BY <2>1, <2>2
<1>3. ~(\E s \in Slot : Goroutine(s) \/ Receive(s)) => nextID' = nextID
  BY DEF Next, Handler, HandleRequest, SendOwn, LaunchCleared,
     ProcessPendingActions, LaunchNext, EditLDAP, Tick, Persist, vars
<1> QED BY <1>1, <1>2, <1>3

\* An id in the database is used up.
LEMMA JobsSettled == ASSUME IdInv, NEW j \in jobDB PROVE Settled(j.id)
<1>1. j.id < nextID
  BY DEF IdInv, JobsDistinct
<1>2. ASSUME NEW r \in UnderWay, r.op = "add" PROVE r.job.id # j.id
  <2>1. CASE r \in Range(jobDBRequests)
    BY <1>2, <2>1 DEF Range, IdInv, ChannelDistinct, Absent
  <2>2. CASE r \in Range(own)
    BY <1>2, <2>2 DEF Range, IdInv, HandlerHolds
  <2>3. ASSUME NEW s \in Slot, r \in Range(thread[s].todo)
        PROVE  r.job.id # j.id
    BY <1>2, <2>3 DEF Range, IdInv, TodoDistinct, Absent
  <2> QED BY <2>1, <2>2, <2>3 DEF UnderWay
<1> QED BY <1>1, <1>2 DEF Settled, Coming

LEMMA SettledStays ==
  ASSUME TypeOK, PointsReached, [Next]_vars, ~Restart, NEW i \in Nat, Settled(i)
  PROVE  Settled(i)'
<1>1. nextID \in Nat /\ nextID' \in Nat /\ nextID <= nextID'
  BY NextIDMonotone
<1>2. ~Coming(i)'
  BY <1>1, StepRequests DEF Settled, Coming
<1> QED BY <1>1, <1>2 DEF Settled

\* Every job after a step was there before it, or has just been added.
LEMMA JobOrigin ==
  ASSUME IdInv, LaunchInv, [Next]_vars, ~Restart, NEW k \in jobDB'
  PROVE  \/ \E j \in jobDB : SameJob(j, k)
         \/ /\ HandleRequest /\ Head(jobDBRequests) \in UnderWay
            /\ Head(jobDBRequests) \in Request
            /\ Head(jobDBRequests).op = "add" /\ k = Head(jobDBRequests).job
<1> DEFINE r == Head(jobDBRequests)
<1>1. CASE k \in jobDB
  BY <1>1 DEF SameJob
<1>2. CASE HandleRequest /\ k \notin jobDB
  <2>0. r \in UnderWay /\ r \in Request
    BY <1>2, HeadUnderWay DEF HandleRequest, IdInv
  <2>1. CASE r.op = "add" /\ AddJob(r)
    BY <1>2, <2>0, <2>1 DEF AddJob
  <2>2. CASE r.op = "modify" /\ ~IsLaunch(r) /\ Modify(r)
    <3>1. PICK i \in jobDB : Accepts(r.filter, i) /\ k = Apply(i, r.update)
      BY <1>2, <2>2, ModifyLeaves DEF IdInv
    <3>2. i \in Job /\ r.update \in Update
      BY <2>0, <2>2, RequestFields DEF IdInv, TypeOK, NumberedJob
    <3>3. "timestamp" \in DOMAIN r.update => r.update.timestamp <= clock
      BY <2>0, <2>2 DEF LaunchInv, RequestsOrderly, Orderly, OrderlyModify
    <3>4. SameJob(i, k)
      BY <3>1, <3>2, <3>3 DEF Apply, Job, SameJob
    <3> QED BY <3>4
  <2> QED BY <1>2, <2>1, <2>2
         DEF HandleRequest, RemoveLocal, BeginLaunch, AnswerQuery, dbVars
<1>3. ASSUME NEW job \in batch, LaunchJob(job), k \notin jobDB
      PROVE  \E j \in jobDB : SameJob(j, k)
  <2>1. job \in jobDB /\ job \in Job /\ k = [job EXCEPT !.status = "processing"]
    BY <1>3, LaunchLeaves
  <2>2. SameJob(job, k)
    BY <2>1 DEF Job, SameJob
  <2> QED BY <2>1, <2>2
<1> QED BY <1>1, <1>2, <1>3, StepJobs DEF IdInv

\* A job with a used up id was there before the step.
LEMMA SettledOrigin ==
  ASSUME IdInv, LaunchInv, [Next]_vars, ~Restart, NEW k \in jobDB', Settled(k.id)
  PROVE  \E j \in jobDB : SameJob(j, k)
BY JobOrigin DEF Settled, Coming

\* The job with this id, if there still is one, may be launched.
Opened(i) ==
  Settled(i) /\ \A j \in jobDB : j.id = i => WindowStart(j) <= clock

\* The job of a reply is not launched too early if its window was open then:
\* its id names no other job, and a new time for it is never in the future.
Known(k) ==
  /\ Settled(k.id)
  /\ \A j \in jobDB : j.id = k.id =>
       WindowStart(j) <= WindowStart(k) \/ WindowStart(j) <= clock

LaunchesByIds(r) == r.op = "modify" /\ IsLaunch(r) /\ r.filter.kind = "ids"

WindowInv ==
  /\ \A j \in batch : WindowStart(j) <= clock
  /\ \A r \in UnderWay : LaunchesByIds(r) => \A i \in r.filter.ids : Opened(i)
  /\ \A s \in Slot : \A k \in thread[s].reply : Known(k)

LEMMA WindowTypes ==
  ASSUME TypeOK
  PROVE  /\ \A j \in jobDB \cup batch : WindowStart(j) \in Int
                  /\ j.timestamp \in Nat /\ j.tminus \in Nat /\ j.id \in Nat
         /\ \A s \in Slot : \A k \in thread[s].reply : WindowStart(k) \in Int
                  /\ k.id \in Nat
         /\ clock \in Nat
<1>1. \A j \in NumberedJob : /\ WindowStart(j) \in Int /\ j.timestamp \in Nat
                             /\ j.tminus \in Nat /\ j.id \in Nat
  BY DEF NumberedJob, Job, WindowStart
<1>2. \A s \in Slot : thread[s].reply \subseteq NumberedJob
  BY DEF TypeOK, Thread
<1> QED BY <1>1, <1>2, MaxIDNat DEF TypeOK

\* A window that was open before the step is open after it.
LEMMA SameWindow ==
  ASSUME TypeOK, TypeOK', [Next]_vars, NEW j \in jobDB, NEW k \in jobDB',
         SameJob(j, k)
  PROVE  \/ WindowStart(k) = WindowStart(j)
         \/ WindowStart(k) <= clock /\ WindowStart(k) <= clock'
<1>1. clock \in Nat /\ clock' \in Nat /\ clock <= clock'
  BY ClockMonotone
<1>2. /\ k.timestamp \in Nat /\ k.tminus \in Nat
      /\ j.timestamp \in Nat /\ j.tminus \in Nat
  BY DEF TypeOK, NumberedJob, Job
<1> QED BY <1>1, <1>2 DEF SameJob, WindowStart

LEMMA OpenedStays ==
  ASSUME IdInv, LaunchInv, [Next]_vars, ~Restart, NEW i \in Nat, Opened(i)
  PROVE  Opened(i)'
<1>1. TypeOK' /\ Settled(i)'
  BY NextType, SettledStays DEF Opened, IdInv, LaunchInv
<1>2. clock \in Nat /\ clock' \in Nat /\ clock <= clock'
  BY ClockMonotone DEF IdInv
<1>3. ASSUME NEW k \in jobDB', k.id = i PROVE WindowStart(k) <= clock'
  <2>1. PICK j \in jobDB : SameJob(j, k)
    BY <1>3, SettledOrigin DEF Opened
  <2>2. WindowStart(j) <= clock /\ WindowStart(j) \in Int
    BY <1>3, <2>1, WindowTypes DEF Opened, SameJob, IdInv
  <2> QED BY <1>1, <1>2, <2>1, <2>2, SameWindow DEF IdInv
<1> QED BY <1>1, <1>3 DEF Opened

LEMMA KnownStays ==
  ASSUME IdInv, LaunchInv, [Next]_vars, ~Restart, NEW x \in NumberedJob, Known(x)
  PROVE  Known(x)'
<1>0. x.id \in Nat /\ WindowStart(x) \in Int
  BY DEF NumberedJob, Job, WindowStart
<1>1. TypeOK' /\ Settled(x.id)'
  BY <1>0, NextType, SettledStays DEF Known, IdInv, LaunchInv
<1>2. clock \in Nat /\ clock' \in Nat /\ clock <= clock'
  BY ClockMonotone DEF IdInv
<1>3. ASSUME NEW k \in jobDB', k.id = x.id
      PROVE  WindowStart(k) <= WindowStart(x) \/ WindowStart(k) <= clock'
  <2>1. PICK j \in jobDB : SameJob(j, k)
    BY <1>3, SettledOrigin DEF Known
  <2>2. /\ WindowStart(j) <= WindowStart(x) \/ WindowStart(j) <= clock
        /\ WindowStart(j) \in Int
    BY <1>3, <2>1, WindowTypes DEF Known, SameJob, IdInv
  <2> QED BY <1>0, <1>1, <1>2, <2>1, <2>2, SameWindow DEF IdInv
<1> QED BY <1>1, <1>3 DEF Known

\* Only the handler's launch requests fill the batch.
LEMMA StepBatch ==
  ASSUME TypeOK, [Next]_vars, NEW j \in batch', j \notin batch
  PROVE  LET r == Head(jobDBRequests) IN
         /\ HandleRequest /\ r \in UnderWay /\ r \in Request
         /\ r.op = "modify" /\ IsLaunch(r)
         /\ j \in jobDB /\ Accepts(r.filter, j)
         /\ own = <<>> /\ batch = {} /\ clearing = Blank
         /\ UNCHANGED <<jobDB, own, thread, clearing, launches, nextID>>
         /\ jobDBRequests # <<>> /\ jobDBRequests' = Tail(jobDBRequests)
<1>1. CASE HandleRequest
  <2>1. Head(jobDBRequests) \in UnderWay /\ Head(jobDBRequests) \in Request
    BY <1>1, HeadUnderWay DEF HandleRequest
  <2>2. BeginLaunch(Head(jobDBRequests))
    BY <1>1 DEF HandleRequest, AddJob, RemoveLocal, Modify, AnswerQuery
  <2> QED BY <1>1, <2>1, <2>2
         DEF HandleRequest, HandlerReady, BeginLaunch, Query, dbVars, AddJob,
             RemoveLocal, Modify, AnswerQuery
<1>2. CASE batch' = batch
  BY <1>2
<1>3. ASSUME NEW job \in batch, LaunchJob(job) PROVE FALSE
  BY <1>3 DEF LaunchJob
<1>4. ASSUME NEW s \in Slot, Goroutine(s) PROVE batch' = batch
  BY <1>4 DEF Goroutine, Send, TakePending, ForwardJob, ForwardDelivered,
     ForwardFailed, Act, ReadState, SetLocalboot, FollowUp, EnsureJob,
     QueryWindow, LaunchWindow, GroomJob, handlerVars
<1>5. ASSUME NEW s \in Slot, Receive(s) PROVE batch' = batch
  BY <1>5 DEF Receive, ReceiveAdd, ReceiveDelete, ReceiveUpdate, ReceiveProgress,
     ReceiveForeign, ReceiveHereIAm, StartGroom, handlerVars
<1>6. CASE Handler
  <2>1. CASE LaunchCleared
    BY <1>3, <2>1 DEF LaunchCleared, TypeOK
  <2>2. CASE SendOwn \/ ProcessPendingActions
    BY <1>2, <2>2 DEF SendOwn, ProcessPendingActions
  <2>3. ASSUME NEW job \in batch, LaunchNext(job) PROVE FALSE
    BY <1>2, <1>3, <2>3 DEF LaunchNext
  <2> QED BY <1>1, <1>6, <2>1, <2>2, <2>3 DEF Handler
<1>7. CASE EditLDAP \/ Tick \/ Persist \/ Restart \/ UNCHANGED vars
  BY <1>2, <1>7 DEF EditLDAP, Tick, Persist, Restart, vars, handlerVars
<1> QED BY <1>1, <1>2, <1>4, <1>5, <1>6, <1>7 DEF Next

\* Only the answer to a query gives a goroutine jobs it did not have.
LEMMA StepReplies ==
  ASSUME TypeOK, PointsReached, [Next]_vars, NEW s \in Slot,
         NEW k \in thread'[s].reply, k \notin thread[s].reply
  PROVE  k \in jobDB /\ HandleRequest
<1>0. TypeOK'
  BY NextType
<1>1. CASE HandleRequest
  <2>1. AnswerQuery(Head(jobDBRequests))
    BY <1>1 DEF HandleRequest, AddJob, RemoveLocal, Modify, BeginLaunch
  <2> QED BY <1>1, <2>1 DEF AnswerQuery, Query, TypeOK, Thread
<1>2. CASE thread' = thread
  BY <1>2
<1>3. ASSUME NEW t \in Slot, Goroutine(t) \/ Receive(t) PROVE FALSE
  <2>1. CASE Send(t)
    BY <2>1, SendEffect DEF Idle
  <2>2. CASE TakePending(t)
    BY <2>2 DEF TakePending, TypeOK, Thread, Idle
  <2>3. CASE ~Send(t) /\ ~TakePending(t)
    <3>1. PICK requests, next, job, reply :
            Goto(t, requests, next, job, reply) /\ Goes(t, requests, next, reply)
      BY <1>0, <1>3, <2>3, GoroutineGoes
    <3>2. \/ thread'[s] = thread[s]
          \/ s = t /\ (thread'[s] = Idle \/ thread'[s].reply = reply)
      BY <3>1, GotoEffect
    <3> QED BY <3>1, <3>2 DEF Goes, Idle
  <2> QED BY <2>1, <2>2, <2>3
<1>4. CASE Restart
  BY <1>4 DEF Restart, Idle
<1> QED BY <1>1, <1>2, <1>3, <1>4
       DEF Next, Handler, SendOwn, LaunchCleared, ProcessPendingActions,
           LaunchNext, EditLDAP, Tick, Persist, vars

LEMMA WindowInvInit == Init => WindowInv
BY RangeEmpty DEF Init, WindowInv, UnderWay, Idle

LEMMA WindowInvNext ==
  ASSUME IdInv, LaunchInv, WindowInv, [Next]_vars PROVE WindowInv'
<1>0. TypeOK /\ TypeOK' /\ PointsReached /\ clock \in Nat /\ clock' \in Nat
      /\ clock <= clock'
  BY NextType, ClockMonotone DEF IdInv, LaunchInv
<1>1. CASE Restart
  BY <1>1, RangeEmpty DEF Restart, WindowInv, UnderWay, Idle
<1>2. CASE ~Restart
  <2>1. ASSUME NEW j \in batch' PROVE WindowStart(j) <= clock'
    <3>1. CASE j \in batch
      BY <1>0, <3>1, WindowTypes DEF WindowInv
    <3>2. CASE j \notin batch
      <4> DEFINE r == Head(jobDBRequests)
      <4>1. /\ r \in UnderWay /\ r \in Request /\ r.op = "modify" /\ IsLaunch(r)
            /\ j \in jobDB /\ Accepts(r.filter, j)
        BY <1>0, <3>2, StepBatch
      <4>2. OrderlyModify(r.filter, r.update) /\ r.filter \in Filter
        BY <4>1, RequestFields DEF LaunchInv, RequestsOrderly, Orderly
      <4>3. /\ WindowStart(j) \in Int /\ j.timestamp \in Nat /\ j.tminus \in Nat
        BY <1>0, <4>1, WindowTypes
      <4>4. CASE r.filter.kind = "due" /\ r.filter.now <= clock
        <5>1. r.filter.now \in Nat /\ j.timestamp <= r.filter.now
          BY <4>1, <4>2, <4>4 DEF Accepts, Filter
        <5> QED BY <1>0, <4>3, <4>4, <5>1 DEF WindowStart
      <4>5. CASE r.filter.kind = "ids"
        <5>1. j.id \in r.filter.ids /\ LaunchesByIds(r)
          BY <4>1, <4>5 DEF Accepts, LaunchesByIds
        <5>2. Opened(j.id)
          BY <4>1, <5>1 DEF WindowInv
        <5> QED BY <1>0, <4>1, <4>3, <5>2 DEF Opened
      <4> QED BY <4>1, <4>2, <4>4, <4>5 DEF OrderlyModify, IsLaunch
    <3> QED BY <3>1, <3>2
  <2>2. ASSUME NEW r \in UnderWay', LaunchesByIds(r), NEW i \in r.filter.ids
        PROVE  Opened(i)'
    <3>1. Opened(i) /\ i \in Nat
      <4>1. CASE r \in UnderWay
        <5>1. r \in Request
          BY <1>0, <4>1, UnderWayRequests
        <5>2. i \in Nat
          BY <2>2, <5>1, RequestFields DEF LaunchesByIds, Filter
        <5> QED BY <2>2, <4>1, <5>2 DEF WindowInv
      <4>2. CASE r \notin UnderWay
        <5>1. Made(r)
          BY <1>0, <4>2, StepRequests
        <5>2. PICK s \in Slot : r.filter = ById(OpenIds(s))
          <6> DEFINE f == r.filter
                     u == r.update
          <6>1. /\ f.kind = "ids" /\ "status" \in DOMAIN u
                /\ u.status = "launch" /\ MadeModify(f, u)
            BY <2>2, <5>1 DEF Made, LaunchesByIds, IsLaunch
          <6> HIDE DEF f, u
          <6>2. ~(u \in [progress : QuietMarkers])
            BY <6>1
          <6>3. ~\E mac \in MAC, p \in Percentages :
                   f = BehindProgress(mac, p) /\ u = [progress |-> p]
            BY <6>1
          <6>4. f # DueAt(clock)
            BY <6>1 DEF DueAt
          <6>5. u # [status |-> "wakeup"] /\ u \notin [status : {"error", "paused"}]
            BY <6>1
          <6>6. u # [status |-> "waiting"]
                /\ u # [status |-> "waiting", timestamp |-> clock]
            BY <6>1
          <6>7. \E s \in Slot : f = ById(OpenIds(s))
            BY <6>1, <6>2, <6>3, <6>4, <6>5, <6>6 DEF MadeModify
          <6> QED BY <6>7 DEF f
        <5>3. i \in OpenIds(s)
          BY <2>2, <5>2 DEF ById
        <5>4. PICK k \in thread[s].reply : k.id = i /\ WindowOpen(k)
          BY <5>3 DEF OpenIds
        <5>5. /\ WindowStart(k) \in Int /\ i \in Nat
              /\ \A j \in jobDB : WindowStart(j) \in Int
          BY <1>0, <5>4, WindowTypes
        <5> QED BY <1>0, <5>4, <5>5 DEF WindowInv, Known, Opened, WindowOpen
      <4> QED BY <4>1, <4>2
    <3> QED BY <1>2, <3>1, OpenedStays
  <2>3. ASSUME NEW s \in Slot, NEW k \in thread'[s].reply PROVE Known(k)'
    <3>1. k \in NumberedJob /\ Known(k)
      <4>1. CASE k \in thread[s].reply
        BY <1>0, <4>1 DEF WindowInv, TypeOK, Thread
      <4>2. CASE k \notin thread[s].reply
        <5>1. k \in jobDB
          BY <1>0, <4>2, StepReplies
        <5>2. k \in NumberedJob /\ WindowStart(k) \in Int
          BY <1>0, <5>1, WindowTypes DEF TypeOK
        <5> QED BY <5>1, <5>2, JobsSettled DEF Known, IdInv, JobsDistinct
      <4> QED BY <4>1, <4>2
    <3> QED BY <1>2, <3>1, KnownStays
  <2>4. \A r \in UnderWay' : LaunchesByIds(r)' => LaunchesByIds(r)
    BY DEF LaunchesByIds, IsLaunch
  <2> QED BY <2>1, <2>2, <2>3, <2>4 DEF WindowInv
<1> QED BY <1>1, <1>2

\* A job that is launched is one of the batch.
LEMMA StepLaunches ==
  ASSUME IdInv, [Next]_vars, NEW i \in 1..MaxID, launches'[i] > launches[i]
  PROVE  \E j \in batch : j \in jobDB /\ j.id = i
<1>0. launches \in [1..MaxID -> Nat]
  BY DEF IdInv, TypeOK
<1>1. CASE UNCHANGED launches
  BY <1>0, <1>1
<1>2. ASSUME NEW job \in batch, LaunchJob(job)
      PROVE  \E j \in batch : j \in jobDB /\ j.id = i
  <2>1. job \in jobDB /\ launches' = [launches EXCEPT ![job.id] = @ + 1]
    BY <1>2 DEF LaunchJob, IdInv, HandlerHolds
  <2> QED BY <1>0, <2>1
<1>3. CASE HandleRequest
  BY <1>1, <1>3 DEF HandleRequest, AddJob, RemoveLocal, Modify, BeginLaunch,
     AnswerQuery, dbVars
<1>4. CASE Restart
  BY <1>0, <1>4 DEF Restart
<1> QED BY <1>1, <1>2, <1>3, <1>4, StepJobs DEF IdInv

\* A ping launches only what is due and a here_i_am only what its reply showed
\* with an open window: however late the handler gets to the request, and
\* whatever has happened to the job in the meantime, a job is never launched
\* before its time or its window (processPendingActions, here_i_am.go).
THEOREM NeverTooEarly == Spec => LaunchedInWindow
<1> DEFINE InWindowOnly == \A i \in 1..MaxID : launches'[i] > launches[i] =>
             \E j \in jobDB : j.id = i /\ WindowStart(j) <= clock
           Inv == IdInv /\ LaunchInv /\ WindowInv
<1>1. Init => Inv
  BY InitIds, LaunchInvInit, WindowInvInit
<1>2. Inv /\ [Next]_vars => Inv'
  BY NextIds, LaunchInvNext, WindowInvNext
<1>3. Inv /\ [Next]_vars => [InWindowOnly]_vars
  BY StepLaunches DEF WindowInv
<1> HIDE DEF InWindowOnly, Inv
<1>4. Spec => [][InWindowOnly]_vars
  BY <1>1, <1>2, <1>3, PTL DEF Spec
<1> QED BY <1>4 DEF LaunchedInWindow, InWindowOnly

-----------------------------------------------------------------------------
(* LaunchedOnce: a job that has been launched never waits again, unless a   *)
(* here_i_am or GOsa launches it or makes it wait.                          *)

ToLaunch == {"waiting", "wakeup"}

OnceInv ==
  /\ LaunchedOnce
  /\ \A j \in jobDB : j.status \in ToLaunch => launches[j.id] = 0
  /\ \A j \in batch : j.status \in ToLaunch
  /\ \A i \in 1..MaxID : (i >= nextID \/ Coming(i)) => launches[i] = 0

\* Only the id about to be handed out comes under way.
LEMMA ComingIsNew ==
  ASSUME TypeOK, PointsReached, [Next]_vars, NEW i, Coming(i)'
  PROVE  Coming(i) \/ i = nextID
BY StepRequests DEF Coming

\* A job that waits after a step waited before it, or has just been added.
LEMMA WaitingOrigin ==
  ASSUME IdInv, LaunchInv, [Next]_vars, ~Restart,
         Messages \cap {"resume", "reschedule"} = {},
         NEW k \in jobDB', k.status \in ToLaunch
  PROVE  \/ \E j \in jobDB : j.id = k.id /\ j.status \in ToLaunch
         \/ Coming(k.id)
<1> DEFINE r == Head(jobDBRequests)
<1>1. CASE k \in jobDB
  BY <1>1
<1>2. CASE HandleRequest /\ k \notin jobDB
  <2>0. r \in UnderWay /\ r \in Request
    BY <1>2, HeadUnderWay DEF HandleRequest, IdInv
  <2>1. CASE r.op = "add" /\ AddJob(r)
    BY <1>2, <2>0, <2>1 DEF AddJob, Coming
  <2>2. CASE r.op = "modify" /\ ~IsLaunch(r) /\ Modify(r)
    <3>1. PICK i \in jobDB : Accepts(r.filter, i) /\ k = Apply(i, r.update)
      BY <1>2, <2>2, ModifyLeaves DEF IdInv
    <3>2. i \in Job /\ r.update \in Update
      BY <2>0, <2>2, RequestFields DEF IdInv, TypeOK, NumberedJob
    <3>3. k.id = i.id /\ k.status = IF "status" \in DOMAIN r.update
                                     THEN r.update.status ELSE i.status
      BY <3>1, <3>2 DEF Apply, Job
    <3>4. OrderlyModify(r.filter, r.update)
      BY <2>0, <2>2 DEF LaunchInv, RequestsOrderly, Orderly
    <3>5. CASE "status" \in DOMAIN r.update
      <4>1. r.filter.kind = "tminus"
        BY <3>3, <3>4, <3>5 DEF OrderlyModify, ToLaunch
      <4>2. i.status = "waiting"
        BY <3>1, <4>1 DEF Accepts
      <4> QED BY <3>3, <4>2 DEF ToLaunch
    <3>6. CASE "status" \notin DOMAIN r.update
      BY <3>3, <3>6
    <3> QED BY <3>5, <3>6
  <2> QED BY <1>2, <2>1, <2>2
         DEF HandleRequest, RemoveLocal, BeginLaunch, AnswerQuery, dbVars
<1>3. ASSUME NEW job \in batch, LaunchJob(job), k \notin jobDB PROVE FALSE
  <2>1. job \in Job /\ k = [job EXCEPT !.status = "processing"]
    BY <1>3, LaunchLeaves
  <2> QED BY <2>1 DEF Job, ToLaunch
<1> QED BY <1>1, <1>2, <1>3, StepJobs DEF IdInv

LEMMA OnceInvInit == Init => OnceInv
BY DEF Init, OnceInv, LaunchedOnce

LEMMA OnceInvNext ==
  ASSUME IdInv, LaunchInv, OnceInv, [Next]_vars,
         Messages \cap {"hia", "resume", "reschedule"} = {}
  PROVE  OnceInv'
<1>0. /\ TypeOK /\ TypeOK' /\ PointsReached
      /\ launches \in [1..MaxID -> Nat] /\ launches' \in [1..MaxID -> Nat]
      /\ \A j \in jobDB : j.id \in 1..MaxID
      /\ \A j \in jobDB' : j.id \in 1..MaxID
  BY NextType DEF LaunchInv, TypeOK, NumberedJob
<1>1. CASE Restart
  BY <1>0, <1>1 DEF Restart, OnceInv, LaunchedOnce
<1>2. CASE ~Restart
  <2>0. nextID \in Nat /\ nextID' \in Nat /\ nextID <= nextID'
    BY <1>0, <1>2, NextIDMonotone
  <2>1. ASSUME NEW i \in 1..MaxID, i >= nextID' \/ Coming(i)'
        PROVE  i >= nextID \/ Coming(i)
    BY <1>0, <2>0, <2>1, ComingIsNew
  <2>2. ASSUME NEW k \in jobDB', k.status \in ToLaunch
        PROVE  k.id \in 1..MaxID /\ launches[k.id] = 0
    BY <1>0, <1>2, <2>2, WaitingOrigin DEF OnceInv
  <2>3. ASSUME NEW j \in batch' PROVE j.status \in ToLaunch
    <3>1. CASE j \in batch
      BY <3>1 DEF OnceInv
    <3>2. CASE j \notin batch
      <4> DEFINE r == Head(jobDBRequests)
      <4>1. /\ r \in UnderWay /\ r.op = "modify" /\ IsLaunch(r)
            /\ Accepts(r.filter, j)
        BY <1>0, <3>2, StepBatch
      <4>2. OrderlyModify(r.filter, r.update)
        BY <4>1 DEF LaunchInv, RequestsOrderly, Orderly
      <4>3. r.filter.kind = "due"
        BY <4>1, <4>2 DEF OrderlyModify, IsLaunch
      <4> QED BY <4>1, <4>3 DEF Accepts, ToLaunch
    <3> QED BY <3>1, <3>2
  <2>4. CASE UNCHANGED launches
    BY <1>0, <2>1, <2>2, <2>3, <2>4 DEF OnceInv, LaunchedOnce
  <2>5. ASSUME NEW job \in batch, LaunchJob(job) PROVE OnceInv'
    <3>1. /\ job \in jobDB /\ job.status \in ToLaunch
          /\ launches' = [launches EXCEPT ![job.id] = @ + 1]
      BY <2>5, LaunchLeaves DEF OnceInv, LaunchJob, IdInv, HandlerHolds
    <3>2. launches[job.id] = 0 /\ job.id \in 1..MaxID /\ Settled(job.id)
      BY <1>0, <3>1, JobsSettled DEF OnceInv
    <3>3. LaunchedOnce'
      BY <1>0, <3>1, <3>2 DEF OnceInv, LaunchedOnce
    <3>4. ASSUME NEW k \in jobDB', k.status \in ToLaunch
          PROVE  launches'[k.id] = 0
      <4>1. k.id # job.id
        <5>1. /\ k.id # job.id \/ k = [job EXCEPT !.status = "processing"]
              /\ job \in Job
          BY <2>5, LaunchLeaves
        <5> QED BY <3>4, <5>1 DEF Job, ToLaunch
      <4> QED BY <1>0, <2>2, <3>1, <3>4, <4>1
    <3>5. ASSUME NEW i \in 1..MaxID, i >= nextID' \/ Coming(i)'
          PROVE  launches'[i] = 0
      <4>1. i # job.id /\ launches[i] = 0
        BY <2>0, <2>1, <3>2, <3>5 DEF Settled, OnceInv
      <4> QED BY <1>0, <3>1, <4>1
    <3> QED BY <2>3, <3>3, <3>4, <3>5 DEF OnceInv
  <2>6. CASE HandleRequest
    BY <2>4, <2>6 DEF HandleRequest, AddJob, RemoveLocal, Modify, BeginLaunch,
       AnswerQuery, dbVars
  <2> QED BY <1>0, <1>2, <2>4, <2>5, <2>6, StepJobs
<1> QED BY <1>1, <1>2

\* As long as no here_i_am launches jobs out of turn and GOsa makes none wait
\* again, no job is launched twice between two restarts, however many pings find
\* it due and whatever the peers, the clients, the groomer and the user do
\* (JobsModifyLocal).  A restart from a file that has the job waiting begins anew.
THEOREM PingsLaunchOnce ==
  Messages \cap {"hia", "resume", "reschedule"} = {} => (Spec => []LaunchedOnce)
<1> SUFFICES ASSUME Messages \cap {"hia", "resume", "reschedule"} = {}
             PROVE  Spec => []LaunchedOnce
  OBVIOUS
<1> DEFINE Inv == IdInv /\ LaunchInv /\ OnceInv
<1>1. Init => Inv
  BY InitIds, LaunchInvInit, OnceInvInit
<1>2. Inv /\ [Next]_vars => Inv'
  BY NextIds, LaunchInvNext, OnceInvNext
<1>3. Inv => LaunchedOnce
  BY DEF OnceInv
<1> HIDE DEF Inv
<1> QED BY <1>1, <1>2, <1>3, PTL DEF Spec

-----------------------------------------------------------------------------
(* OneInstallAtRest: the removal of the competitors is sent before the      *)
(* launch and executed after it, so while two installations of a machine    *)
(* run, a removal that ends one of them is in the channel.                  *)

Running(mac) ==
  {j \in jobDB : j.status = "processing" /\ IsInstall(j) /\ j.macaddress = mac}

\* The request leaves at most one of the machine's installations.
Clears(mac, r) ==
  r.op = "remove" /\ r.filter.kind = "install" /\ r.filter.mac = mac

InstallInv ==
  /\ \A mac \in MAC : \A j, k \in Running(mac) :
       j # k => \E r \in Range(jobDBRequests) : Clears(mac, r)
  /\ clearing # Blank =>
       \E r \in Range(jobDBRequests) \cup Range(own) :
         Clears(clearing.macaddress, r)

\* Requests stay in the channel until handleJobDBRequests takes them out, and
\* what the handler is about to send gets there.
LEMMA RequestsStay ==
  ASSUME TypeOK, PointsReached, [Next]_vars, ~HandleRequest, ~Restart
  PROVE  /\ Range(jobDBRequests) \subseteq Range(jobDBRequests')
         /\ Range(own) \subseteq Range(jobDBRequests') \cup Range(own')
<1>0. TypeOK' /\ jobDBRequests \in Seq(Request) /\ own \in Seq(Request)
  BY NextType DEF TypeOK
<1>1. CASE UNCHANGED <<jobDBRequests, own>>
  BY <1>1
<1>2. CASE SendOwn
  <2>1. /\ own # <<>> /\ own' = Tail(own)
        /\ jobDBRequests' = Append(jobDBRequests, Head(own))
    BY <1>2 DEF SendOwn
  <2>2. Head(own) \in Request /\ Range(own) = {Head(own)} \cup Range(Tail(own))
    BY <1>0, <2>1, RangeHeadTail
  <2>3. Range(jobDBRequests') = Range(jobDBRequests) \cup {Head(own)}
    BY <1>0, <2>1, <2>2, RangeAppend
  <2> QED BY <2>1, <2>2, <2>3
<1>3. CASE ProcessPendingActions \/ \E job \in batch : LaunchNext(job)
  <2>1. own = <<>> /\ UNCHANGED jobDBRequests
    BY <1>3 DEF ProcessPendingActions, HandlerReady, LaunchNext
  <2> QED BY <2>1, RangeEmpty
<1>4. ASSUME NEW s \in Slot, Goroutine(s) \/ Receive(s)
      PROVE  /\ Range(jobDBRequests) \subseteq Range(jobDBRequests')
             /\ UNCHANGED own
  <2>1. CASE Send(s)
    <3>1. /\ jobDBRequests' = Append(jobDBRequests, Head(thread[s].todo))
          /\ Head(thread[s].todo) \in Request /\ UNCHANGED own
      BY <2>1, SendEffect, RangeHeadTail
    <3> QED BY <1>0, <3>1, RangeAppend
  <2>2. CASE TakePending(s)
    BY <2>2 DEF TakePending, handlerVars
  <2>3. CASE ~Send(s) /\ ~TakePending(s)
    BY <1>0, <1>4, <2>3, GoroutineGoes DEF Goes, handlerVars
  <2> QED BY <2>1, <2>2, <2>3
<1>5. CASE LaunchCleared \/ EditLDAP \/ Tick \/ Persist \/ UNCHANGED vars
  BY <1>1, <1>5 DEF LaunchCleared, EditLDAP, Tick, Persist, vars, handlerVars
<1> QED BY <1>1, <1>2, <1>3, <1>4, <1>5 DEF Next, Handler

\* Which jobs start to be installations that run.
LEMMA RunningOrigin ==
  ASSUME IdInv, LaunchInv, [Next]_vars, Messages \cap {"hia", "restart"} = {},
         NEW mac \in MAC, NEW k \in Running(mac)'
  PROVE  \/ \E j \in Running(mac) : j.id = k.id
         \/ LaunchCleared /\ clearing.macaddress = mac
<1> DEFINE r == Head(jobDBRequests)
<1>0. ~Restart /\ k \in jobDB' /\ k.status = "processing" /\ IsInstall(k)
      /\ k.macaddress = mac
  BY DEF Restart, Running, IsInstall
<1>1. CASE k \in jobDB
  BY <1>0, <1>1 DEF Running
<1>2. CASE HandleRequest /\ k \notin jobDB
  <2>0. r \in UnderWay /\ r \in Request
    BY <1>2, HeadUnderWay DEF HandleRequest, IdInv
  <2>1. CASE r.op = "add" /\ AddJob(r)
    <3>1. k = r.job /\ MadeAdd(r.job)
      BY <1>0, <1>2, <2>0, <2>1 DEF AddJob, LaunchInv, RequestsOrderly, Orderly
    <3> QED BY <1>0, <3>1 DEF MadeAdd
  <2>2. CASE r.op = "modify" /\ ~IsLaunch(r) /\ Modify(r)
    <3>1. PICK i \in jobDB : Accepts(r.filter, i) /\ k = Apply(i, r.update)
      BY <1>0, <1>2, <2>2, ModifyLeaves DEF IdInv
    <3>2. i \in Job /\ r.update \in Update
      BY <2>0, <2>2, RequestFields DEF IdInv, TypeOK, NumberedJob
    <3>3. /\ k.id = i.id /\ k.macaddress = i.macaddress
          /\ k.headertag = i.headertag
          /\ k.status = IF "status" \in DOMAIN r.update
                          THEN r.update.status ELSE i.status
      BY <3>1, <3>2 DEF Apply, Job
    <3>4. OrderlyModify(r.filter, r.update)
      BY <2>0, <2>2 DEF LaunchInv, RequestsOrderly, Orderly
    <3>5. i.status = "processing"
      BY <1>0, <3>3, <3>4 DEF OrderlyModify
    <3>6. i \in Running(mac)
      BY <1>0, <3>3, <3>5 DEF Running, IsInstall
    <3> QED BY <3>3, <3>6
  <2> QED BY <1>0, <1>2, <2>1, <2>2
         DEF HandleRequest, RemoveLocal, BeginLaunch, AnswerQuery, dbVars
<1>3. ASSUME NEW job \in batch, LaunchNext(job), k \notin jobDB PROVE FALSE
  <2>1. CASE IsInstall(job)
    BY <1>0, <1>3, <2>1 DEF LaunchNext, dbVars
  <2>2. CASE ~IsInstall(job)
    <3>1. LaunchJob(job)
      BY <1>3, <2>2 DEF LaunchNext
    <3>2. job \in Job /\ k = [job EXCEPT !.status = "processing"]
      BY <1>0, <1>3, <3>1, LaunchLeaves
    <3> QED BY <1>0, <2>2, <3>2 DEF Job, IsInstall
  <2> QED BY <2>1, <2>2
<1>4. CASE LaunchCleared /\ k \notin jobDB
  <2>1. clearing \in batch /\ LaunchJob(clearing)
    BY <1>4 DEF LaunchCleared, IdInv, TypeOK
  <2>2. clearing \in Job /\ k = [clearing EXCEPT !.status = "processing"]
    BY <1>0, <1>4, <2>1, LaunchLeaves
  <2>3. clearing.macaddress = mac
    BY <1>0, <2>2 DEF Job
  <2> QED BY <1>4, <2>3
<1>5. CASE k \notin jobDB /\ ~HandleRequest /\ ~LaunchCleared
           /\ ~\E job \in batch : LaunchNext(job)
  <2>1. ASSUME NEW s \in Slot, Goroutine(s) PROVE UNCHANGED jobDB
    BY <2>1 DEF Goroutine, Send, TakePending, ForwardJob, ForwardDelivered,
       ForwardFailed, Act, ReadState, SetLocalboot, FollowUp, EnsureJob,
       QueryWindow, LaunchWindow, GroomJob, dbVars
  <2>2. ASSUME NEW s \in Slot, Receive(s) PROVE UNCHANGED jobDB
    BY <2>2 DEF Receive, ReceiveAdd, ReceiveDelete, ReceiveUpdate,
       ReceiveProgress, ReceiveForeign, ReceiveHereIAm, StartGroom, dbVars
  <2>3. SendOwn \/ ProcessPendingActions \/ EditLDAP \/ Tick \/ Persist
          \/ UNCHANGED vars => UNCHANGED jobDB
    BY DEF SendOwn, ProcessPendingActions, EditLDAP, Tick, Persist, vars, dbVars
  <2> QED BY <1>0, <1>5, <2>1, <2>2, <2>3 DEF Next, Handler
<1> QED BY <1>1, <1>2, <1>3, <1>4, <1>5

LEMMA InstallInvInit == Init => InstallInv
BY DEF Init, InstallInv, Running

LEMMA InstallInvNext ==
  ASSUME IdInv, LaunchInv, InstallInv, [Next]_vars,
         Messages \cap {"hia", "restart"} = {}
  PROVE  InstallInv'
<1>0. /\ TypeOK /\ TypeOK' /\ PointsReached /\ ~Restart
      /\ jobDBRequests \in Seq(Request)
      /\ \A j, k \in jobDB' : j.id = k.id => j = k
  BY NextType, NextIds DEF LaunchInv, TypeOK, Restart, IdInv, JobsDistinct
<1>1. ASSUME NEW mac \in MAC, NEW j \in Running(mac)', NEW k \in Running(mac)',
             j # k
      PROVE  \E r \in Range(jobDBRequests') : Clears(mac, r)
  <2>0. j.id # k.id
    BY <1>0, <1>1 DEF Running
  <2>1. CASE LaunchCleared /\ clearing.macaddress = mac
    <3>1. /\ own = <<>> /\ clearing # Blank /\ UNCHANGED jobDBRequests
      BY <2>1 DEF LaunchCleared
    <3> QED BY <2>1, <3>1, RangeEmpty DEF InstallInv
  <2>2. CASE ~(LaunchCleared /\ clearing.macaddress = mac)
    <3>1. \E i, l \in Running(mac) : i.id = j.id /\ l.id = k.id
      BY <2>2, RunningOrigin
    <3>2. PICK r \in Range(jobDBRequests) : Clears(mac, r)
      BY <2>0, <3>1 DEF InstallInv
    <3>3. CASE ~HandleRequest
      BY <1>0, <3>2, <3>3, RequestsStay
    <3>4. CASE HandleRequest
      <4>1. jobDBRequests # <<>> /\ jobDBRequests' = Tail(jobDBRequests)
        BY <3>4 DEF HandleRequest
      <4>2. CASE r = Head(jobDBRequests)
        <5>1. RemoveLocal(r)
          BY <3>2, <3>4, <4>2 DEF HandleRequest, Clears
        <5>2. /\ j \in jobDB /\ ~Accepts(r.filter, j)
              /\ k \in jobDB /\ ~Accepts(r.filter, k)
          BY <5>1 DEF RemoveLocal, Query, Running
        <5>3. j.id = r.filter.except /\ k.id = r.filter.except
          BY <3>2, <5>2 DEF Clears, Accepts, Running, IsInstall
        <5> QED BY <2>0, <5>3
      <4>3. CASE r # Head(jobDBRequests)
        BY <1>0, <3>2, <4>1, <4>3, RangeHeadTail
      <4> QED BY <4>2, <4>3
    <3> QED BY <3>3, <3>4
  <2> QED BY <2>1, <2>2
<1>2. ASSUME clearing' # Blank
      PROVE  \E r \in Range(jobDBRequests') \cup Range(own') :
               Clears(clearing'.macaddress, r)
  <2>1. CASE clearing' = clearing
    <3>1. PICK r \in Range(jobDBRequests) \cup Range(own) :
            Clears(clearing.macaddress, r)
      BY <1>2, <2>1 DEF InstallInv
    <3>2. ~HandleRequest
      BY <1>2, <2>1 DEF HandleRequest, HandlerReady
    <3> QED BY <1>0, <2>1, <3>1, <3>2, RequestsStay
  <2>2. ASSUME NEW job \in batch, LaunchNext(job), clearing' # clearing
        PROVE  \E r \in Range(own') : Clears(clearing'.macaddress, r)
    <3>1. /\ clearing' = job
          /\ own' = RemoveQuietly(Installing(job.macaddress, job.id),
                                  "groom", FALSE)
      BY <2>2 DEF LaunchNext
    <3>2. Installing(job.macaddress, job.id) \in Filter
      BY <1>0 DEF TypeOK, NumberedJob, Job, Installing, Filter
    <3> DEFINE e == RemoveReq(Installing(job.macaddress, job.id), FALSE, TRUE)
    <3>3. e \in Range(own')
      BY <3>1, <3>2, RangeQuietly DEF Markers
    <3>4. Clears(job.macaddress, e)
      BY DEF Clears, RemoveReq, Installing
    <3> QED BY <3>1, <3>3, <3>4
  <2>3. CASE LaunchCleared
    BY <1>2, <2>3 DEF LaunchCleared
  <2>4. ASSUME NEW s \in Slot, Goroutine(s) PROVE UNCHANGED clearing
    BY <2>4 DEF Goroutine, Send, TakePending, ForwardJob, ForwardDelivered,
       ForwardFailed, Act, ReadState, SetLocalboot, FollowUp, EnsureJob,
       QueryWindow, LaunchWindow, GroomJob, handlerVars
  <2>5. ASSUME NEW s \in Slot, Receive(s) PROVE UNCHANGED clearing
    BY <2>5 DEF Receive, ReceiveAdd, ReceiveDelete, ReceiveUpdate,
       ReceiveProgress, ReceiveForeign, ReceiveHereIAm, StartGroom, handlerVars
  <2>6. HandleRequest \/ SendOwn \/ ProcessPendingActions \/ EditLDAP \/ Tick
          \/ Persist \/ UNCHANGED vars => UNCHANGED clearing
    BY DEF HandleRequest, SendOwn, ProcessPendingActions, EditLDAP, Tick,
       Persist, vars, handlerVars
  <2> QED BY <1>0, <2>1, <2>2, <2>3, <2>4, <2>5, <2>6 DEF Next, Handler
<1> QED BY <1>1, <1>2 DEF InstallInv

\* "Only one install or update job can be in status processing for the same
\* machine at the same time" (JobsModifyLocal): without a here_i_am, which may
\* add a second one, and a restart from a file that holds two, every removal
\* has caught up with the launch it was sent for once nothing is on its way.
THEOREM OneInstall ==
  Messages \cap {"hia", "restart"} = {} => (Spec => []OneInstallAtRest)
<1> SUFFICES ASSUME Messages \cap {"hia", "restart"} = {}
             PROVE  Spec => []OneInstallAtRest
  OBVIOUS
<1> DEFINE Inv == IdInv /\ LaunchInv /\ InstallInv
<1>1. Init => Inv
  BY InitIds, LaunchInvInit, InstallInvInit
<1>2. Inv /\ [Next]_vars => Inv'
  BY NextIds, LaunchInvNext, InstallInvNext
<1>3. Inv => OneInstallAtRest
  <2> SUFFICES ASSUME Inv, AtRest, NEW j \in jobDB, NEW k \in jobDB,
                      j.status = "processing", k.status = "processing",
                      IsInstall(j), IsInstall(k), j.macaddress = k.macaddress
               PROVE  j = k
    BY DEF OneInstallAtRest
  <2>1. j \in Running(j.macaddress) /\ k \in Running(j.macaddress)
    BY DEF Running
  <2>2. Range(jobDBRequests) = {} /\ j.macaddress \in MAC
    BY RangeEmpty DEF AtRest, LaunchInv, TypeOK, NumberedJob, Job
  <2> QED BY <2>1, <2>2 DEF InstallInv
<1> HIDE DEF Inv
<1> QED BY <1>1, <1>2, <1>3, PTL DEF Spec

-----------------------------------------------------------------------------
(* The removals and what protects them.                                    *)

\* A removal that is to leave the machine alone.
Keeps(r) == r.op = "remove" /\ r.keep

Launches(r) == r.op = "modify" /\ IsLaunch(r)

\* The request marks the jobs the filter selects.
Marks(r, f) ==
  r.op = "modify" /\ r.filter = f /\ r.update \in [progress : QuietMarkers]

Marked(job) == job.progress \in QuietMarkers

\* All the jobs the filter selects are marked.
Quieted(f) == \A j \in jobDB : Accepts(f, j) => Marked(j)

\* A launch makes a filter for installations select a job it did not select.
Harmless(r, f) == f.kind = "install" => ~Launches(r)

\* A removal by f at place n of the channel will find marked jobs only: either
\* the request that marks them is before it, with no launch between them, or
\* the jobs are marked and no launch will come before the removal.
Protected(n, f) ==
  \/ \E m \in 1..(n - 1) :
       /\ Marks(jobDBRequests[m], f)
       /\ \A l \in (m + 1)..(n - 1) : Harmless(jobDBRequests[l], f)
  \/ /\ Quieted(f)
     /\ f.kind = "install" => batch = {}
     /\ \A l \in 1..(n - 1) : Harmless(jobDBRequests[l], f)

\* The same for a removal that will be sent next.
AtEnd(f) == \E n \in Nat : n = Len(jobDBRequests) + 1 /\ Protected(n, f)

SettledIds(f) == f.kind = "ids" /\ \A i \in f.ids : Settled(i)

\* The filters of such removals: installations of a machine, or jobs by ids
\* that are used up.
Removable(f) == f.kind = "install" \/ SettledIds(f)

\* A removal at place n of what somebody is about to send comes right after its
\* marker, or the marker has been sent.
Held(q, n) ==
  \/ n = 2 /\ Marks(q[1], q[n].filter)
  \/ n = 1 /\ AtEnd(q[n].filter)

ChannelQuiet ==
  \A n \in 1..Len(jobDBRequests) : Keeps(jobDBRequests[n]) =>
    Removable(jobDBRequests[n].filter) /\ Protected(n, jobDBRequests[n].filter)

OwnQuiet ==
  \A n \in 1..Len(own) : Keeps(own[n]) =>
    own[n].filter.kind = "install" /\ Held(own, n)

TodoQuiet(s) ==
  \A n \in 1..Len(thread[s].todo) :
    /\ ~Launches(thread[s].todo[n])
    /\ Keeps(thread[s].todo[n]) =>
         SettledIds(thread[s].todo[n].filter) /\ Held(thread[s].todo, n)

PendingQuiet ==
  \A p \in PendingActions : Settled(p.job.id) /\ (p.keep => Marked(p.job))

\* A goroutine that acts on a job or reacts to its removal.
ReactionQuiet(s) ==
  /\ thread[s].next \notin {"act", "done"}
  /\ thread[s].next = "setlocal" => thread[s].pc = "setlocal"
  /\ thread[s].pc = "act" => Settled(thread[s].job.id)
  /\ thread[s].pc = "done" /\ thread[s].keep => Marked(thread[s].job)
  /\ thread[s].pc = "setlocal" => ~thread[s].keep

QuietInv ==
  /\ ChannelQuiet /\ OwnQuiet /\ PendingQuiet
  /\ \A s \in Slot : TodoQuiet(s) /\ ReactionQuiet(s)

\* The messages that overwrite a marker, remove by machine from a goroutine of
\* their own, or launch from one.
Disturbing == {"progress", "fju", "hia"}

-----------------------------------------------------------------------------
(* The steps of the goroutines.                                            *)

\* The ids of the jobs a goroutine works on.
HeldIds(s) ==
  {j.id : j \in thread[s].reply}
    \cup (IF thread[s].pc = "act" THEN {thread[s].job.id} ELSE {})

\* What a goroutine may be told to send, and when it sets a machine to
\* localboot.
Careful(s, requests, next) ==
  /\ \/ requests = <<>>
     \/ \E r \in Request : requests = <<r>> /\ ~Keeps(r) /\ ~Launches(r)
     \/ \E i \in HeldIds(s) \cap Nat, marker \in QuietMarkers, b \in BOOLEAN :
          requests = RemoveQuietly(ById({i}), marker, b)
  /\ next \notin {"act", "done"}
  /\ next = "setlocal" =>
       requests = <<>> /\ thread[s].pc = "done" /\ ~Marked(thread[s].job)
  /\ UNCHANGED <<dbVars, handlerVars, jobDBRequests>>

LEMMA GoroutineCareful ==
  ASSUME TypeOK, TypeOK', PointsReached, Messages \cap Disturbing = {},
         NEW s \in Slot, Goroutine(s) \/ Receive(s), ~Send(s), ~TakePending(s)
  PROVE  \E requests, next, job, reply :
           Goto(s, requests, next, job, reply) /\ Careful(s, requests, next)
<1> DEFINE Proved == \E requests, next, job, reply :
             Goto(s, requests, next, job, reply) /\ Careful(s, requests, next)
<1> USE DEF Go
<1>0. /\ clock \in Nat /\ thread[s].reply \subseteq NumberedJob
      /\ thread[s].pc \notin HereIAmPC
      /\ Messages \cap {"progress", "fju", "hia"} = {}
  <2>1. clock \in Nat
    BY MaxIDNat DEF TypeOK
  <2>2. thread[s].reply \subseteq NumberedJob
    BY DEF TypeOK, Thread
  <2>3. Messages \cap {"progress", "fju", "hia"} = {}
    BY DEF Disturbing
  <2>4. thread[s].pc \notin HereIAmPC
    BY <2>3 DEF PointsReached
  <2> QED BY <2>1, <2>2, <2>3, <2>4
<1>1. ASSUME NEW next, next \notin {"act", "done", "setlocal"}, NEW job, NEW reply,
             Goto(s, <<>>, next, job, reply),
             UNCHANGED <<dbVars, handlerVars, jobDBRequests>>
      PROVE  Proved
  BY <1>1 DEF Careful
<1>2. ASSUME NEW r, ~Keeps(r), ~Launches(r), NEW next,
             next \notin {"act", "done", "setlocal"}, NEW job,
             Go(s, <<r>>, next, job),
             UNCHANGED <<dbVars, handlerVars, jobDBRequests>>
      PROVE  Proved
  <2>1. <<r>> \in Seq(Request)
    BY <1>2, GotoSeq DEF TypeOK
  <2>2. r \in Request
    BY <2>1
  <2>3. Careful(s, <<r>>, next)
    BY <1>2, <2>2 DEF Careful
  <2> QED BY <1>2, <2>3
<1>3. ASSUME NEW i \in HeldIds(s) \cap Nat, NEW marker \in QuietMarkers,
             NEW b \in BOOLEAN, NEW next,
             next \notin {"act", "done", "setlocal"}, NEW job, NEW reply,
             Goto(s, RemoveQuietly(ById({i}), marker, b), next, job, reply),
             UNCHANGED <<dbVars, handlerVars, jobDBRequests>>
      PROVE  Proved
  BY <1>3 DEF Careful
<1>4. /\ \A job : ~Keeps(AddReq(job)) /\ ~Launches(AddReq(job))
      /\ \A f, b : ~Keeps(RemoveReq(f, b, FALSE)) /\ ~Launches(RemoveReq(f, b, FALSE))
      /\ \A f, t : ~Keeps(QueryReq(f, t)) /\ ~Launches(QueryReq(f, t))
      /\ \A f, u : /\ ~Keeps(ModifyReq(f, u))
                   /\ ~("status" \in DOMAIN u /\ u.status = "launch") =>
                        ~Launches(ModifyReq(f, u))
  BY DEF Keeps, Launches, IsLaunch, AddReq, RemoveReq, QueryReq, ModifyReq
<1> SUFFICES Proved
  OBVIOUS
<1> HIDE DEF Proved
<1>5. CASE ForwardJob(s)
  <2>1. /\ thread[s].pc = "act" /\ thread[s].job.id \in HeldIds(s) \cap Nat
        /\ "forward" \in QuietMarkers
    BY <1>5, HoldsJob DEF ForwardJob, HeldIds, JobPC, QuietMarkers
  <2> QED BY <1>3, <1>5, <2>1 DEF ForwardJob
<1>6. CASE ForwardDelivered(s)
  BY <1>1, <1>6 DEF ForwardDelivered
<1>7. CASE ForwardFailed(s)
  BY <1>2, <1>4, <1>7 DEF ForwardFailed
<1>8. CASE Act(s)
  <2>1. \/ Go(s, <<>>, "idle", Blank)
        \/ Go(s, <<RemoveReq(ById({thread[s].job.id}), FALSE, FALSE)>>,
              "idle", Blank)
    BY <1>8 DEF Act
  <2> QED BY <1>1, <1>2, <1>4, <1>8, <2>1 DEF Act
<1>9. CASE ReadState(s)
  <2>1. CASE Go(s, <<>>, "followup", thread[s].job)
    BY <1>1, <1>9, <2>1 DEF ReadState
  <2>2. CASE ~Go(s, <<>>, "followup", thread[s].job)
    <3>1. /\ Go(s, <<>>, "setlocal", thread[s].job)
          /\ thread[s].pc = "done" /\ ~Marked(thread[s].job)
      BY <1>9, <2>2 DEF ReadState, Marked, QuietMarkers
    <3>2. Careful(s, <<>>, "setlocal")
      BY <1>9, <3>1 DEF Careful, ReadState
    <3> QED BY <3>1, <3>2 DEF Proved
  <2> QED BY <2>1, <2>2
<1>10. CASE SetLocalboot(s)
  BY <1>1, <1>10 DEF SetLocalboot
<1>11. CASE FollowUp(s)
  <2>1. \/ Go(s, <<>>, "idle", Blank)
        \/ Go(s, <<AddReq(NextInstance(thread[s].job, nextID, clock))>>,
              "idle", Blank)
    BY <1>11 DEF FollowUp
  <2> QED BY <1>1, <1>2, <1>4, <1>11, <2>1 DEF FollowUp
<1>12. CASE EnsureJob(s) \/ QueryWindow(s) \/ LaunchWindow(s)
  BY <1>0, <1>12 DEF EnsureJob, QueryWindow, LaunchWindow, HereIAmPC
<1>13. CASE GroomJob(s)
  <2>1. CASE Go(s, <<>>, "idle", Blank)
    BY <1>1, <1>13, <2>1 DEF GroomJob
  <2>2. ASSUME NEW j \in thread[s].reply,
               Goto(s, GroomRequests(j), "grooming", Blank, thread[s].reply \ {j})
        PROVE  Proved
    <3>1. j.id \in HeldIds(s) \cap Nat /\ ById({j.id}) \in Filter
      BY <1>0, <2>2 DEF HeldIds, NumberedJob, Job, ById, Filter
    <3>2. UNCHANGED <<dbVars, handlerVars, jobDBRequests>>
      BY <1>13 DEF GroomJob
    <3>3. CASE GroomRequests(j) = <<>>
      BY <1>1, <2>2, <3>2, <3>3
    <3>4. CASE GroomRequests(j) = RemoveQuietly(ById({j.id}), "groom", FALSE)
      <4>1. "groom" \in QuietMarkers
        BY DEF QuietMarkers
      <4>2. Goto(s, RemoveQuietly(ById({j.id}), "groom", FALSE), "grooming",
                 Blank, thread[s].reply \ {j})
        BY <2>2, <3>4
      <4>3. Careful(s, RemoveQuietly(ById({j.id}), "groom", FALSE), "grooming")
        BY <3>1, <3>2, <4>1 DEF Careful
      <4> QED BY <4>2, <4>3 DEF Proved
    <3>5. CASE GroomRequests(j) = <<ModifyReq(ById({j.id}), [status |-> "error"])>>
      <4> DEFINE q == ModifyReq(ById({j.id}), [status |-> "error"])
      <4>1. q \in Request
        BY <3>1 DEF ModifyReq, Request, Update, Status
      <4>2. ~Keeps(q) /\ ~Launches(q)
        BY <1>4
      <4> HIDE DEF q
      <4>3. Careful(s, <<q>>, "grooming")
        BY <3>2, <4>1, <4>2 DEF Careful
      <4> QED BY <2>2, <3>5, <4>3 DEF Proved, q
    <3> QED BY <3>3, <3>4, <3>5 DEF GroomRequests
  <2> QED BY <1>13, <2>1, <2>2 DEF GroomJob
<1>14. CASE ReceiveAdd(s)
  BY <1>2, <1>4, <1>14 DEF ReceiveAdd
<1>15. CASE ReceiveDelete(s)
  BY <1>2, <1>4, <1>15 DEF ReceiveDelete
<1>16. CASE ReceiveUpdate(s)
  <2>1. PICK kind \in {"pause", "resume", "reschedule"}, j \in jobDB :
          Go(s, <<ModifyReq(ById({j.id}), GOsaUpdate(kind))>>, "idle", Blank)
    BY <1>16 DEF ReceiveUpdate
  <2>2. GOsaUpdate(kind).status # "launch"
    BY DEF GOsaUpdate
  <2> QED BY <1>2, <1>4, <1>16, <2>1, <2>2 DEF ReceiveUpdate
<1>17. CASE StartGroom(s)
  BY <1>2, <1>4, <1>17 DEF StartGroom
<1>18. ~ReceiveProgress(s) /\ ~ReceiveForeign(s) /\ ~ReceiveHereIAm(s)
  BY <1>0 DEF ReceiveProgress, ReceiveForeign, ReceiveHereIAm, Arrives
<1> QED BY <1>5, <1>6, <1>7, <1>8, <1>9, <1>10, <1>11, <1>12, <1>13, <1>14,
           <1>15, <1>16, <1>17, <1>18 DEF Goroutine, Receive

-----------------------------------------------------------------------------
(* What protects a removal lasts until the handler gets to it.             *)

\* Where the mark of a job comes from.
LEMMA MarkOrigin ==
  ASSUME IdInv, LaunchInv, [Next]_vars, ~Restart, "progress" \notin Messages,
         NEW k \in jobDB'
  PROVE  \/ \E j \in jobDB : /\ SameJob(j, k) /\ (Marked(j) => Marked(k))
                             /\ k.status = "processing" =>
                                  j.status = "processing" \/ batch # {}
         \/ \E r \in UnderWay : r.op = "add" /\ k = r.job /\ MadeAdd(k)
<1> DEFINE r == Head(jobDBRequests)
<1>1. CASE k \in jobDB
  BY <1>1 DEF SameJob
<1>2. CASE HandleRequest /\ k \notin jobDB
  <2>0. r \in UnderWay /\ r \in Request
    BY <1>2, HeadUnderWay DEF HandleRequest, IdInv
  <2>1. CASE r.op = "add" /\ AddJob(r)
    BY <1>2, <2>0, <2>1 DEF AddJob, LaunchInv, RequestsOrderly, Orderly
  <2>2. CASE r.op = "modify" /\ ~IsLaunch(r) /\ Modify(r)
    <3>1. PICK i \in jobDB : Accepts(r.filter, i) /\ k = Apply(i, r.update)
      BY <1>2, <2>2, ModifyLeaves DEF IdInv
    <3>2. i \in Job /\ r.update \in Update
      BY <2>0, <2>2, RequestFields DEF IdInv, TypeOK, NumberedJob
    <3>3. OrderlyModify(r.filter, r.update)
      BY <2>0, <2>2 DEF LaunchInv, RequestsOrderly, Orderly
    <3>4. SameJob(i, k)
      BY <3>1, <3>2, <3>3 DEF Apply, Job, SameJob, OrderlyModify
    <3>5. /\ k.progress = IF "progress" \in DOMAIN r.update
                            THEN r.update.progress ELSE i.progress
          /\ k.status = IF "status" \in DOMAIN r.update
                          THEN r.update.status ELSE i.status
      BY <3>1, <3>2 DEF Apply, Job
    <3>6. Marked(i) => Marked(k)
      BY <3>3, <3>5 DEF OrderlyModify, Marked
    <3>7. k.status = "processing" => i.status = "processing"
      BY <3>3, <3>5 DEF OrderlyModify
    <3> QED BY <3>4, <3>6, <3>7
  <2> QED BY <1>2, <2>1, <2>2
         DEF HandleRequest, RemoveLocal, BeginLaunch, AnswerQuery, dbVars
<1>3. ASSUME NEW job \in batch, LaunchJob(job), k \notin jobDB
      PROVE  \E j \in jobDB : SameJob(j, k) /\ (Marked(j) => Marked(k))
  <2>1. job \in jobDB /\ job \in Job /\ k = [job EXCEPT !.status = "processing"]
    BY <1>3, LaunchLeaves
  <2>2. SameJob(job, k) /\ k.progress = job.progress
    BY <2>1 DEF Job, SameJob
  <2> QED BY <2>1, <2>2 DEF Marked
<1> QED BY <1>1, <1>2, <1>3, StepJobs DEF IdInv

LEMMA QuietedStays ==
  ASSUME IdInv, LaunchInv, [Next]_vars, ~Restart, Messages \cap Disturbing = {},
         NEW f, Quieted(f), Removable(f), f.kind = "install" => batch = {}
  PROVE  Quieted(f)'
<1> SUFFICES ASSUME NEW k \in jobDB', Accepts(f, k) PROVE Marked(k)
  BY DEF Quieted
<1>0. Messages \cap {"progress", "fju", "hia"} = {}
  BY DEF Disturbing
<1>1. CASE SettledIds(f)
  <2>1. f.kind = "ids" /\ k.id \in f.ids /\ Settled(k.id)
    BY <1>1 DEF Accepts, SettledIds
  <2>2. PICK j \in jobDB : SameJob(j, k) /\ (Marked(j) => Marked(k))
    BY <1>0, <2>1, MarkOrigin DEF Settled, Coming
  <2>3. Accepts(f, j)
    BY <2>1, <2>2 DEF Accepts, SameJob
  <2> QED BY <2>2, <2>3 DEF Quieted
<1>2. CASE f.kind = "install"
  <2>1. /\ k.status = "processing" /\ k.macaddress = f.mac /\ IsInstall(k)
        /\ k.id # f.except /\ batch = {}
    BY <1>2 DEF Accepts
  <2>2. PICK j \in jobDB : /\ SameJob(j, k) /\ (Marked(j) => Marked(k))
                           /\ j.status = "processing"
    BY <1>0, <2>1, MarkOrigin DEF MadeAdd
  <2>3. Accepts(f, j)
    BY <1>2, <2>1, <2>2 DEF Accepts, SameJob, IsInstall
  <2> QED BY <2>2, <2>3 DEF Quieted
<1> QED BY <1>1, <1>2 DEF Removable

\* The request that marks does.
LEMMA MarkerMarks ==
  ASSUME TypeOK, HandleRequest, NEW f, Marks(Head(jobDBRequests), f)
  PROVE  Quieted(f)' /\ batch' = {}
<1> DEFINE r == Head(jobDBRequests)
<1>1. /\ r \in Request /\ r.op = "modify" /\ r.filter = f
      /\ r.update \in [progress : QuietMarkers]
  BY HeadUnderWay DEF Marks, HandleRequest
<1> HIDE DEF r
<1>2. ~IsLaunch(r)
  BY <1>1 DEF IsLaunch
<1>3. Modify(r) /\ batch = {}
  BY <1>1, <1>2 DEF HandleRequest, HandlerReady, r
<1>4. ASSUME NEW k \in jobDB', Accepts(f, k) PROVE Marked(k)
  <2>1. ~(k \in jobDB /\ k \notin Query(jobDB, f))
    BY <1>4 DEF Query
  <2>2. PICK j \in jobDB : k = Apply(j, r.update)
    BY <1>1, <1>3, <2>1 DEF Modify, Query
  <2>3. k.progress = r.update.progress
    BY <1>1, <2>2 DEF Apply, TypeOK, NumberedJob, Job
  <2> QED BY <1>1, <2>3 DEF Marked
<1> QED BY <1>3, <1>4 DEF Quieted, Modify

\* The handler takes out the first request, the others move up.
LEMMA ProtectedTail ==
  ASSUME IdInv, LaunchInv, [Next]_vars, HandleRequest,
         Messages \cap Disturbing = {},
         NEW f, Removable(f), NEW n \in 2..(Len(jobDBRequests) + 1),
         Protected(n, f)
  PROVE  Protected(n - 1, f)'
<1>0. /\ jobDBRequests \in Seq(Request) /\ jobDBRequests # <<>> /\ ~Restart
      /\ jobDBRequests' = Tail(jobDBRequests) /\ Len(jobDBRequests) \in Nat
      /\ batch = {}
  <2>1. arrivals' = arrivals /\ arrivals \in Nat
    BY MaxIDNat DEF HandleRequest, envVars, IdInv, TypeOK
  <2> QED BY <2>1 DEF IdInv, TypeOK, HandleRequest, HandlerReady, Restart
<1>1. /\ n \in Nat /\ n - 1 \in Nat
      /\ \A l \in 1..(n - 2) : jobDBRequests'[l] = jobDBRequests[l + 1]
      /\ Head(jobDBRequests) = jobDBRequests[1]
  BY <1>0
<1>2. ASSUME NEW m \in 2..(n - 1), Marks(jobDBRequests[m], f),
             \A l \in (m + 1)..(n - 1) : Harmless(jobDBRequests[l], f)
      PROVE  Protected(n - 1, f)'
  <2>1. /\ m - 1 \in 1..((n - 1) - 1)
        /\ Marks(jobDBRequests'[m - 1], f)
    BY <1>0, <1>1, <1>2
  <2>2. ASSUME NEW l \in ((m - 1) + 1)..((n - 1) - 1)
        PROVE  Harmless(jobDBRequests'[l], f)
    <3>1. l + 1 \in (m + 1)..(n - 1) /\ jobDBRequests'[l] = jobDBRequests[l + 1]
      BY <1>0, <1>1
    <3> QED BY <1>2, <3>1
  <2> QED BY <2>1, <2>2 DEF Protected, Marks, Harmless, Launches, IsLaunch
<1>3. ASSUME \A l \in 2..(n - 1) : Harmless(jobDBRequests[l], f)
      PROVE  \A l \in 1..((n - 1) - 1) : Harmless(jobDBRequests'[l], f)
  <2>1. \A l \in 1..((n - 1) - 1) : l + 1 \in 2..(n - 1)
    BY <1>0, <1>1
  <2> QED BY <1>1, <1>3, <2>1
<1>4. CASE Marks(jobDBRequests[1], f)
           /\ \A l \in 2..(n - 1) : Harmless(jobDBRequests[l], f)
  <2>1. Quieted(f)' /\ batch' = {}
    BY <1>1, <1>4, MarkerMarks DEF IdInv
  <2>2. \A l \in 1..((n - 1) - 1) : Harmless(jobDBRequests'[l], f)
    BY <1>3, <1>4
  <2> QED BY <2>1, <2>2 DEF Protected, Harmless, Launches, IsLaunch
<1>5. CASE Quieted(f) /\ \A l \in 1..(n - 1) : Harmless(jobDBRequests[l], f)
  <2>1. Quieted(f)'
    BY <1>0, <1>5, QuietedStays
  <2>2. f.kind = "install" => batch' = {}
    <3>1. Harmless(jobDBRequests[1], f)
      BY <1>1, <1>5
    <3> QED BY <1>0, <1>1, <3>1 DEF Harmless, Launches, HandleRequest, AddJob,
              RemoveLocal, Modify, AnswerQuery
  <2>3. \A l \in 1..((n - 1) - 1) : Harmless(jobDBRequests'[l], f)
    <3>1. \A l \in 2..(n - 1) : l \in 1..(n - 1)
      BY <1>1
    <3> QED BY <1>3, <1>5, <3>1
  <2> QED BY <2>1, <2>2, <2>3 DEF Protected, Harmless, Launches, IsLaunch
<1> QED
  <2>1. CASE \E m \in 1..(n - 1) :
               /\ Marks(jobDBRequests[m], f)
               /\ \A l \in (m + 1)..(n - 1) : Harmless(jobDBRequests[l], f)
    <3>1. PICK m \in 1..(n - 1) :
            /\ Marks(jobDBRequests[m], f)
            /\ \A l \in (m + 1)..(n - 1) : Harmless(jobDBRequests[l], f)
      BY <2>1
    <3>2. CASE m = 1
      BY <1>4, <3>1, <3>2
    <3>3. CASE m # 1
      <4>1. m \in 2..(n - 1)
        BY <1>1, <3>3
      <4> QED BY <1>2, <3>1, <4>1
    <3> QED BY <3>2, <3>3
  <2> QED BY <1>5, <2>1 DEF Protected

\* How the channel grows in every other step.
LEMMA ChannelGrows ==
  ASSUME TypeOK, PointsReached, [Next]_vars, ~HandleRequest, ~Restart
  PROVE  \/ jobDBRequests' = jobDBRequests
         \/ SendOwn
         \/ \E s \in Slot : Send(s)
<1>0. TypeOK'
  BY NextType
<1>1. ASSUME NEW s \in Slot, Goroutine(s) \/ Receive(s), ~Send(s)
      PROVE  jobDBRequests' = jobDBRequests
  <2>1. CASE TakePending(s)
    BY <2>1 DEF TakePending
  <2>2. CASE ~TakePending(s)
    BY <1>0, <1>1, <2>2, GoroutineGoes DEF Goes
  <2> QED BY <2>1, <2>2
<1> QED BY <1>1 DEF Next, Handler, LaunchCleared, ProcessPendingActions,
           LaunchNext, EditLDAP, Tick, Persist, vars

\* What is appended, and that the requests before it keep their places.
LEMMA Appended ==
  ASSUME TypeOK, SendOwn \/ \E s \in Slot : Send(s)
  PROVE  \E r \in Request :
           /\ jobDBRequests' = Append(jobDBRequests, r)
           /\ Len(jobDBRequests') = Len(jobDBRequests) + 1
           /\ \A l \in 1..Len(jobDBRequests) : jobDBRequests'[l] = jobDBRequests[l]
           /\ jobDBRequests'[Len(jobDBRequests) + 1] = r
           /\ \/ SendOwn /\ r = Head(own)
              \/ \E s \in Slot : Send(s) /\ r = Head(thread[s].todo)
<1>1. PICK r \in Request : /\ jobDBRequests' = Append(jobDBRequests, r)
                           /\ \/ SendOwn /\ r = Head(own)
                              \/ \E s \in Slot : Send(s) /\ r = Head(thread[s].todo)
  <2>1. CASE SendOwn
    <3>1. Head(own) \in Request
      BY <2>1, RangeHeadTail, RangeRequests DEF SendOwn, TypeOK
    <3> QED BY <2>1, <3>1 DEF SendOwn
  <2>2. CASE \E s \in Slot : Send(s)
    <3>1. PICK s \in Slot : Send(s)
      BY <2>2
    <3>2. /\ thread[s].todo \in Seq(Request) /\ thread[s].todo # <<>>
          /\ jobDBRequests' = Append(jobDBRequests, Head(thread[s].todo))
      BY <3>1, SendEffect
    <3>3. Head(thread[s].todo) \in Request
      BY <3>2, RangeHeadTail, RangeRequests
    <3> QED BY <3>1, <3>2, <3>3
  <2> QED BY <2>1, <2>2
<1>2. jobDBRequests \in Seq(Request)
  BY DEF TypeOK
<1> QED BY <1>1, <1>2

\* In every step but the handler's, a place in the channel or the next free one
\* stays protected.
LEMMA ProtectedStays ==
  ASSUME IdInv, LaunchInv, [Next]_vars, ~HandleRequest, ~Restart,
         Messages \cap Disturbing = {},
         NEW f, Removable(f), NEW n \in 1..(Len(jobDBRequests) + 1),
         Protected(n, f)
  PROVE  Protected(n, f)'
<1>0. TypeOK /\ PointsReached /\ Len(jobDBRequests) \in Nat /\ n \in Nat
  BY DEF LaunchInv, TypeOK
<1>1. \A l \in 1..(n - 1) : jobDBRequests'[l] = jobDBRequests[l]
  <2>1. \A l \in 1..(n - 1) : l \in 1..Len(jobDBRequests)
    BY <1>0
  <2> QED BY <1>0, <2>1, ChannelGrows, Appended
<1>2. CASE \E m \in 1..(n - 1) :
             /\ Marks(jobDBRequests[m], f)
             /\ \A l \in (m + 1)..(n - 1) : Harmless(jobDBRequests[l], f)
  <2>1. PICK m \in 1..(n - 1) :
          /\ Marks(jobDBRequests[m], f)
          /\ \A l \in (m + 1)..(n - 1) : Harmless(jobDBRequests[l], f)
    BY <1>2
  <2>2. Marks(jobDBRequests'[m], f)
    BY <1>1, <2>1
  <2>3. \A l \in (m + 1)..(n - 1) : Harmless(jobDBRequests'[l], f)
    <3>1. \A l \in (m + 1)..(n - 1) : l \in 1..(n - 1)
      BY <1>0
    <3> QED BY <1>1, <2>1, <3>1
  <2> QED BY <2>2, <2>3 DEF Protected, Marks, Harmless, Launches, IsLaunch
<1>3. CASE /\ Quieted(f)
           /\ f.kind = "install" => batch = {}
           /\ \A l \in 1..(n - 1) : Harmless(jobDBRequests[l], f)
  <2>1. Quieted(f)'
    BY <1>3, QuietedStays
  <2>2. f.kind = "install" => batch' = {}
    BY <1>0, <1>3, StepBatch
  <2>3. \A l \in 1..(n - 1) : Harmless(jobDBRequests'[l], f)
    BY <1>1, <1>3
  <2> QED BY <2>1, <2>2, <2>3 DEF Protected, Harmless, Launches, IsLaunch
<1> QED BY <1>2, <1>3 DEF Protected

\* The next free place stays protected when it moves on.
LEMMA EndStays ==
  ASSUME IdInv, LaunchInv, [Next]_vars, ~Restart, Messages \cap Disturbing = {},
         NEW f, Removable(f), AtEnd(f),
         \A s \in Slot : \A l \in 1..Len(thread[s].todo) :
           ~Launches(thread[s].todo[l]),
         SettledIds(f) \/ ~(HandleRequest \/ SendOwn)
  PROVE  AtEnd(f)'
<1>0. TypeOK /\ PointsReached /\ jobDBRequests \in Seq(Request)
      /\ Len(jobDBRequests) \in Nat
  BY DEF LaunchInv, TypeOK
<1> DEFINE n == Len(jobDBRequests) + 1
<1>1. n \in Nat /\ Protected(n, f) /\ n \in 1..(Len(jobDBRequests) + 1)
  BY <1>0 DEF AtEnd
<1>2. CASE HandleRequest
  <2>1. jobDBRequests # <<>> /\ jobDBRequests' = Tail(jobDBRequests)
    BY <1>2 DEF HandleRequest
  <2>2. n \in 2..(Len(jobDBRequests) + 1) /\ Len(jobDBRequests') = n - 2
    BY <1>0, <2>1
  <2>3. ASSUME NEW m, m = n PROVE Protected(m - 1, f)'
    BY <1>1, <1>2, <2>2, <2>3, ProtectedTail
  <2>4. ASSUME NEW m, m = n PROVE AtEnd(f)'
    <3>1. m - 1 \in Nat /\ m - 1 = Len(jobDBRequests') + 1 /\ Protected(m - 1, f)'
      BY <1>1, <2>2, <2>3, <2>4
    <3> QED BY <3>1 DEF AtEnd
  <2> QED BY <2>4
<1>3. CASE ~HandleRequest
  <2>1. ASSUME NEW m, m = n PROVE Protected(m, f)'
    BY <1>1, <1>3, <2>1, ProtectedStays
  <2>2. CASE jobDBRequests' = jobDBRequests
    BY <1>1, <2>1, <2>2 DEF AtEnd
  <2>3. CASE SendOwn \/ \E s \in Slot : Send(s)
    <3>1. PICK r \in Request :
            /\ Len(jobDBRequests') = n /\ jobDBRequests'[n] = r
            /\ \/ SendOwn /\ r = Head(own)
               \/ \E s \in Slot : Send(s) /\ r = Head(thread[s].todo)
      BY <1>0, <2>3, Appended
    <3>2. Harmless(r, f)
      <4>1. CASE SettledIds(f)
        BY <4>1 DEF Harmless, SettledIds
      <4>2. CASE \E s \in Slot : Send(s) /\ r = Head(thread[s].todo)
        <5>1. PICK s \in Slot : Send(s) /\ r = Head(thread[s].todo)
          BY <4>2
        <5>2. thread[s].todo \in Seq(Request) /\ thread[s].todo # <<>>
          BY <1>0, <5>1, SendEffect
        <5>3. 1 \in 1..Len(thread[s].todo) /\ r = thread[s].todo[1]
          BY <5>1, <5>2
        <5> QED BY <5>3 DEF Harmless
      <4> QED BY <3>1, <4>1, <4>2
    <3>3. ASSUME NEW m, m = n PROVE Protected(m + 1, f)'
      <4>1. Protected(m, f)' /\ m \in Nat /\ Harmless(jobDBRequests'[m], f)
        BY <1>1, <2>1, <3>1, <3>2, <3>3
      <4>2. /\ (m + 1) - 1 = m
            /\ \A l \in 1..m : l \in 1..(m - 1) \/ l = m
            /\ \A i \in Nat : \A l \in (i + 1)..m : l \in (i + 1)..(m - 1) \/ l = m
            /\ \A i \in 1..(m - 1) : i \in 1..m /\ i \in Nat
        BY <4>1
      <4> QED BY <4>1, <4>2 DEF Protected, Harmless, Launches, IsLaunch
    <3>4. ASSUME NEW m, m = n PROVE AtEnd(f)'
      <4>1. m + 1 \in Nat /\ m + 1 = Len(jobDBRequests') + 1 /\ Protected(m + 1, f)'
        BY <1>1, <3>1, <3>3, <3>4
      <4> QED BY <4>1 DEF AtEnd
    <3> QED BY <3>4
  <2> QED BY <1>0, <1>3, <2>2, <2>3, ChannelGrows
<1> QED BY <1>2, <1>3

-----------------------------------------------------------------------------
(* QuietRemovalsStayQuiet.                                                  *)

\* A new entry for the action loop is about a job of the database, and is a
\* quiet one only if the handler has just removed that job.
LEMMA StepPending ==
  ASSUME IdInv, [Next]_vars, NEW p \in PendingActions', p \notin PendingActions
  PROVE  \E j \in jobDB :
           /\ p.job.id = j.id /\ ~Restart
           /\ p.keep => LET r == Head(jobDBRequests) IN
                        /\ HandleRequest /\ Keeps(r) /\ Accepts(r.filter, j)
                        /\ p.job.progress = j.progress
<1> DEFINE r == Head(jobDBRequests)
<1>0. /\ \A j \in jobDB : j \in Job /\ ~Restart
      /\ TypeOK
  BY DEF IdInv, TypeOK, NumberedJob, Restart
<1>1. CASE HandleRequest
  <2>0. r \in Request
    BY <1>1, HeadUnderWay DEF HandleRequest, IdInv
  <2>1. CASE r.op = "remove" /\ RemoveLocal(r)
    <3>1. PICK j \in jobDB : /\ Accepts(r.filter, j)
                             /\ p = [job |-> Done(j, r.stop), keep |-> r.keep,
                                     nth |-> 0]
      BY <2>1 DEF RemoveLocal, Query
    <3>2. p.job.id = j.id /\ p.job.progress = j.progress /\ p.keep = r.keep
      BY <1>0, <3>1 DEF Done, Job
    <3> QED BY <1>0, <1>1, <2>1, <3>1, <3>2 DEF Keeps
  <2>2. CASE r.op = "modify" /\ ~IsLaunch(r) /\ Modify(r)
    <3>1. PICK j \in jobDB : p = [job |-> Apply(j, r.update), keep |-> FALSE,
                                  nth |-> 0]
      BY <2>2 DEF Modify, Query
    <3>2. p.job.id = j.id /\ p.keep = FALSE
      BY <1>0, <3>1 DEF Apply, Job
    <3> QED BY <1>0, <3>2
  <2> QED BY <1>1, <2>1, <2>2
         DEF HandleRequest, AddJob, BeginLaunch, AnswerQuery, dbVars
<1>2. ASSUME NEW job \in batch, LaunchJob(job)
      PROVE  \E j \in jobDB : p.job.id = j.id /\ ~Restart /\ ~p.keep
  <2>1. job \in jobDB
    BY <1>2 DEF IdInv, HandlerHolds
  <2>2. p.job = Launched(job) /\ p.keep = FALSE
    BY <1>2 DEF LaunchJob
  <2> QED BY <1>0, <2>1, <2>2 DEF Launched, Job
<1>3. CASE PendingActions' = PendingActions \/ Restart
  BY <1>3 DEF Restart
<1>4. ASSUME NEW s \in Slot, Goroutine(s)
      PROVE  PendingActions' \subseteq PendingActions
  BY <1>4 DEF Goroutine, Send, TakePending, ForwardJob, ForwardDelivered,
     ForwardFailed, Act, ReadState, SetLocalboot, FollowUp, EnsureJob,
     QueryWindow, LaunchWindow, GroomJob, dbVars
<1>5. ASSUME NEW s \in Slot, Receive(s) PROVE PendingActions' = PendingActions
  BY <1>5 DEF Receive, ReceiveAdd, ReceiveDelete, ReceiveUpdate, ReceiveProgress,
     ReceiveForeign, ReceiveHereIAm, StartGroom, dbVars
<1>6. CASE Handler
  <2>1. CASE LaunchCleared
    BY <1>0, <1>2, <2>1 DEF LaunchCleared, TypeOK
  <2>2. CASE SendOwn \/ ProcessPendingActions
    BY <1>3, <2>2 DEF SendOwn, ProcessPendingActions, dbVars
  <2>3. ASSUME NEW job \in batch, LaunchNext(job)
        PROVE  PendingActions' = PendingActions \/ LaunchJob(job)
    BY <2>3 DEF LaunchNext, dbVars
  <2> QED BY <1>1, <1>2, <1>3, <1>6, <2>1, <2>2, <2>3 DEF Handler
<1>7. CASE EditLDAP \/ Tick \/ Persist \/ UNCHANGED vars
  BY <1>3, <1>7 DEF EditLDAP, Tick, Persist, vars, dbVars
<1> QED BY <1>1, <1>3, <1>4, <1>5, <1>6, <1>7 DEF Next

LEMMA QuietInvInit == Init => QuietInv
<1> SUFFICES ASSUME Init PROVE QuietInv
  OBVIOUS
<1>1. /\ Len(jobDBRequests) = 0 /\ Len(own) = 0 /\ PendingActions = {}
      /\ \A s \in Slot : Len(thread[s].todo) = 0 /\ thread[s] = Idle
  BY DEF Init, Idle
<1>2. ChannelQuiet /\ OwnQuiet /\ PendingQuiet
  BY <1>1 DEF ChannelQuiet, OwnQuiet, PendingQuiet
<1>3. \A s \in Slot : TodoQuiet(s) /\ ReactionQuiet(s)
  BY <1>1 DEF TodoQuiet, ReactionQuiet, Idle
<1> QED BY <1>2, <1>3 DEF QuietInv

LEMMA QuietRestart == ASSUME Restart PROVE QuietInv'
<1>1. /\ Len(jobDBRequests') = 0 /\ Len(own') = 0 /\ PendingActions' = {}
      /\ \A s \in Slot : Len(thread'[s].todo) = 0 /\ thread'[s] = Idle
  BY DEF Restart, Idle
<1>2. ChannelQuiet' /\ OwnQuiet' /\ PendingQuiet'
  BY <1>1 DEF ChannelQuiet, OwnQuiet, PendingQuiet
<1>3. \A s \in Slot : TodoQuiet(s)' /\ ReactionQuiet(s)'
  BY <1>1 DEF TodoQuiet, ReactionQuiet, Idle
<1> QED BY <1>2, <1>3 DEF QuietInv

\* What every step but a restart may rely on.
QuietStep ==
  /\ IdInv /\ LaunchInv /\ WindowInv /\ QuietInv /\ [Next]_vars /\ ~Restart
  /\ TypeOK' /\ Messages \cap Disturbing = {}

LEMMA QuietTypes ==
  ASSUME QuietStep
  PROVE  /\ jobDBRequests \in Seq(Request) /\ jobDBRequests' \in Seq(Request)
         /\ Len(jobDBRequests) \in Nat /\ Len(jobDBRequests') \in Nat
         /\ own \in Seq(Request) /\ own' \in Seq(Request)
         /\ Len(own) \in Nat /\ Len(own') \in Nat
<1>1. /\ jobDBRequests \in Seq(Request) /\ own \in Seq(Request)
  BY DEF QuietStep, LaunchInv, TypeOK
<1>2. /\ jobDBRequests' \in Seq(Request) /\ own' \in Seq(Request)
  BY DEF QuietStep, TypeOK
<1> QED BY <1>1, <1>2, LenProperties

LEMMA RemovableStays ==
  ASSUME QuietStep, NEW f \in Filter PROVE /\ Removable(f) => Removable(f)'
                                           /\ SettledIds(f) => SettledIds(f)'
<1>1. ASSUME NEW i, f.kind = "ids", i \in f.ids PROVE i \in Nat
  BY <1>1 DEF Filter
<1> QED BY <1>1, SettledStays DEF QuietStep, LaunchInv, SettledIds, Removable

\* The removal whose marker has just been sent may be sent now.
LEMMA MarkerSent ==
  ASSUME TypeOK, NEW r, NEW f, Marks(r, f),
         Len(jobDBRequests') = Len(jobDBRequests) + 1,
         jobDBRequests'[Len(jobDBRequests) + 1] = r
  PROVE  AtEnd(f)'
<1>1. Len(jobDBRequests) \in Nat
  BY DEF TypeOK
<1>2. ASSUME NEW m, m = Len(jobDBRequests) + 1 PROVE AtEnd(f)'
  <2>1. m \in 1..((m + 1) - 1) /\ m + 1 \in Nat /\ m + 1 = Len(jobDBRequests') + 1
    BY <1>1, <1>2
  <2>2. Marks(jobDBRequests'[m], f)
    BY <1>2
  <2>3. \A l \in (m + 1)..((m + 1) - 1) : FALSE
    BY <2>1
  <2>4. Protected(m + 1, f)'
    BY <2>1, <2>2, <2>3 DEF Protected, Marks
  <2> QED BY <2>1, <2>4 DEF AtEnd
<1> QED BY <1>2

LEMMA ChannelQuietNext == ASSUME QuietStep PROVE ChannelQuiet'
<1>0. /\ IdInv /\ LaunchInv /\ [Next]_vars /\ ~Restart /\ TypeOK /\ PointsReached
      /\ TypeOK' /\ Messages \cap Disturbing = {}
      /\ jobDBRequests \in Seq(Request) /\ jobDBRequests' \in Seq(Request)
      /\ Len(jobDBRequests) \in Nat /\ Len(jobDBRequests') \in Nat
      /\ own \in Seq(Request) /\ ChannelQuiet /\ OwnQuiet
      /\ \A s \in Slot : TodoQuiet(s)
  <2>1. /\ jobDBRequests \in Seq(Request) /\ jobDBRequests' \in Seq(Request)
        /\ Len(jobDBRequests) \in Nat /\ Len(jobDBRequests') \in Nat
        /\ own \in Seq(Request)
    BY QuietTypes
  <2> QED BY <2>1 DEF QuietStep, LaunchInv, QuietInv
<1> SUFFICES ASSUME NEW n \in 1..Len(jobDBRequests'), NEW e, e = jobDBRequests'[n],
                    Keeps(e), NEW f, f = e.filter
             PROVE  Removable(f)' /\ Protected(n, f)'
  BY DEF ChannelQuiet, Keeps
<1>1. f \in Filter
  <2>1. e \in Request
    BY <1>0
  <2> QED BY <2>1, RequestFields DEF Keeps
<1>2. CASE HandleRequest
  <2>1. jobDBRequests # <<>> /\ jobDBRequests' = Tail(jobDBRequests)
    BY <1>2 DEF HandleRequest
  <2>2. /\ n + 1 \in 1..Len(jobDBRequests) /\ n + 1 \in 2..(Len(jobDBRequests) + 1)
        /\ e = jobDBRequests[n + 1] /\ (n + 1) - 1 = n
    BY <1>0, <2>1
  <2>3. Removable(f) /\ Protected(n + 1, f)
    BY <1>0, <2>2 DEF ChannelQuiet
  <2>4. Protected((n + 1) - 1, f)'
    <3>1. n + 1 \in 2..(Len(jobDBRequests) + 1)
      BY <2>2
    <3> QED BY <1>0, <1>2, <2>3, <3>1, ProtectedTail
  <2>5. Protected(n, f)'
    BY <2>2, <2>4
  <2> QED BY <1>1, <2>3, <2>5, RemovableStays
<1>3. CASE ~HandleRequest
  <2>1. n \in 1..(Len(jobDBRequests) + 1) /\ Removable(f) /\ Protected(n, f)
    <3>1. CASE n \in 1..Len(jobDBRequests) /\ e = jobDBRequests[n]
      BY <1>0, <3>1 DEF ChannelQuiet
    <3>2. CASE jobDBRequests' = jobDBRequests
      BY <3>1, <3>2
    <3>3. CASE SendOwn \/ \E s \in Slot : Send(s)
      <4>1. PICK r \in Request :
              /\ Len(jobDBRequests') = Len(jobDBRequests) + 1
              /\ \A l \in 1..Len(jobDBRequests) :
                   jobDBRequests'[l] = jobDBRequests[l]
              /\ jobDBRequests'[Len(jobDBRequests) + 1] = r
              /\ \/ SendOwn /\ r = Head(own)
                 \/ \E s \in Slot : Send(s) /\ r = Head(thread[s].todo)
        BY <1>0, <3>3, Appended
      <4>2. CASE n # Len(jobDBRequests) + 1
        BY <1>0, <3>1, <4>1, <4>2
      <4>3. CASE n = Len(jobDBRequests) + 1
        <5>1. e = r
          BY <4>1, <4>3
        <5>2. CASE SendOwn /\ r = Head(own)
          <6>1. 1 \in 1..Len(own) /\ own[1] = e
            BY <1>0, <5>1, <5>2 DEF SendOwn
          <6>2. f.kind = "install" /\ AtEnd(f)
            BY <1>0, <6>1 DEF OwnQuiet, Held
          <6> QED BY <1>0, <4>3, <6>2 DEF AtEnd, Removable
        <5>3. ASSUME NEW s \in Slot, Send(s), r = Head(thread[s].todo)
              PROVE  SettledIds(f) /\ AtEnd(f)
          <6>1. thread[s].todo \in Seq(Request) /\ thread[s].todo # <<>>
            BY <1>0, <5>3, SendEffect
          <6>2. 1 \in 1..Len(thread[s].todo) /\ thread[s].todo[1] = e
            BY <5>1, <5>3, <6>1
          <6> QED BY <1>0, <6>2 DEF TodoQuiet, Held
        <5> QED BY <1>0, <4>1, <4>3, <5>2, <5>3 DEF AtEnd, Removable
      <4> QED BY <4>2, <4>3
    <3> QED BY <1>0, <1>3, <3>2, <3>3, ChannelGrows
  <2>2. Protected(n, f)'
    BY <1>0, <1>3, <2>1, ProtectedStays
  <2> QED BY <1>1, <2>1, <2>2, RemovableStays
<1> QED BY <1>2, <1>3

\* The steps that change what the handler is about to send.
LEMMA StepOwn ==
  ASSUME TypeOK, TypeOK', PointsReached, [Next]_vars, ~Restart, own' # own
  PROVE  \/ SendOwn
         \/ ProcessPendingActions
         \/ \E job \in batch :
              own' = RemoveQuietly(Installing(job.macaddress, job.id),
                                   "groom", FALSE)
<1>1. ASSUME NEW s \in Slot, Goroutine(s) PROVE own' = own
  BY <1>1 DEF Goroutine, Send, TakePending, ForwardJob, ForwardDelivered,
     ForwardFailed, Act, ReadState, SetLocalboot, FollowUp, EnsureJob,
     QueryWindow, LaunchWindow, GroomJob, handlerVars
<1>2. ASSUME NEW s \in Slot, Receive(s) PROVE own' = own
  BY <1>2 DEF Receive, ReceiveAdd, ReceiveDelete, ReceiveUpdate, ReceiveProgress,
     ReceiveForeign, ReceiveHereIAm, StartGroom, handlerVars
<1> QED BY <1>1, <1>2 DEF Next, Handler, HandleRequest, LaunchCleared,
           LaunchNext, EditLDAP, Tick, Persist, vars, handlerVars

LEMMA OwnQuietNext == ASSUME QuietStep PROVE OwnQuiet'
<1>0. /\ IdInv /\ LaunchInv /\ [Next]_vars /\ ~Restart /\ TypeOK /\ PointsReached
      /\ TypeOK' /\ Messages \cap Disturbing = {}
      /\ own \in Seq(Request) /\ own' \in Seq(Request)
      /\ Len(own) \in Nat /\ Len(own') \in Nat /\ OwnQuiet
      /\ \A s \in Slot : \A l \in 1..Len(thread[s].todo) :
           ~Launches(thread[s].todo[l])
  <2>1. \A s \in Slot : \A l \in 1..Len(thread[s].todo) :
           ~Launches(thread[s].todo[l])
    BY DEF QuietStep, QuietInv, TodoQuiet
  <2>2. OwnQuiet /\ TypeOK /\ PointsReached
    BY DEF QuietStep, QuietInv, LaunchInv
  <2> QED BY <2>1, <2>2, QuietTypes DEF QuietStep, LaunchInv
<1> SUFFICES ASSUME NEW n \in 1..Len(own'), NEW e, e = own'[n],
                    Keeps(e), NEW f, f = e.filter
             PROVE  /\ f.kind = "install"
                    /\ \/ n = 2 /\ Marks(own'[1], f)
                       \/ n = 1 /\ AtEnd(f)'
  BY DEF OwnQuiet, Keeps, Held, Marks
<1>1. CASE own' = own /\ ~SendOwn
  <2>1. f.kind = "install" /\ Held(own, n)
    BY <1>0, <1>1 DEF OwnQuiet
  <2>2. CASE n = 1 /\ AtEnd(f)
    <3>1. ~HandleRequest
      BY <1>0, <1>1 DEF HandleRequest, HandlerReady
    <3> QED BY <1>0, <1>1, <2>1, <2>2, <3>1, EndStays DEF Removable
  <2> QED BY <1>1, <2>1, <2>2 DEF Held
<1>2. CASE SendOwn
  <2>1. own # <<>> /\ own' = Tail(own)
    BY <1>2 DEF SendOwn
  <2>2. n + 1 \in 1..Len(own) /\ e = own[n + 1] /\ n + 1 # 1
    BY <1>0, <2>1
  <2>3. f.kind = "install" /\ n + 1 = 2 /\ Marks(own[1], f)
    BY <1>0, <2>2 DEF OwnQuiet, Held
  <2>4. PICK r : /\ Len(jobDBRequests') = Len(jobDBRequests) + 1
                 /\ jobDBRequests'[Len(jobDBRequests) + 1] = r
                 /\ r = own[1]
    BY <1>0, <1>2, <2>1 DEF SendOwn, TypeOK
  <2>5. AtEnd(f)'
    BY <1>0, <2>3, <2>4, MarkerSent
  <2> QED BY <2>3, <2>5
<1>3. CASE ProcessPendingActions
  <2>1. Len(own') = 2 /\ own'[1].op = "modify" /\ own'[2].op = "modify"
    BY <1>3 DEF ProcessPendingActions, ModifyReq
  <2> QED BY <2>1 DEF Keeps
<1>4. ASSUME NEW job \in batch,
             own' = RemoveQuietly(Installing(job.macaddress, job.id),
                                  "groom", FALSE)
      PROVE  f.kind = "install" /\ n = 2 /\ Marks(own'[1], f)
  <2> DEFINE g == Installing(job.macaddress, job.id)
  <2>1. /\ Len(own') = 2 /\ own'[1] = ModifyReq(g, [progress |-> "groom"])
        /\ own'[2] = RemoveReq(g, FALSE, TRUE)
    BY <1>4 DEF RemoveQuietly
  <2>2. n = 2 /\ f = g
    BY <1>0, <2>1 DEF Keeps, ModifyReq, RemoveReq
  <2> QED BY <2>1, <2>2 DEF Marks, ModifyReq, QuietMarkers, Installing
<1> QED BY <1>0, <1>1, <1>2, <1>3, <1>4, StepOwn

\* What a step does to the goroutines.
LEMMA StepThread ==
  ASSUME QuietStep, NEW t \in Slot
  PROVE  \/ thread'[t] = thread[t] /\ ~HandleRequest
         \/ /\ HandleRequest
            /\ thread'[t].todo = thread[t].todo /\ thread'[t].job = thread[t].job
            /\ thread'[t].next = thread[t].next
            /\ thread'[t].keep = thread[t].keep
            /\ thread'[t].pc \in {thread[t].pc, thread[t].next}
         \/ Send(t)
         \/ TakePending(t)
         \/ \E requests, next, job, reply :
              Goto(t, requests, next, job, reply) /\ Careful(t, requests, next)
<1>0. /\ TypeOK /\ TypeOK' /\ PointsReached /\ [Next]_vars /\ ~Restart
      /\ Messages \cap Disturbing = {}
  BY DEF QuietStep, LaunchInv
<1>1. CASE HandleRequest
  <2>1. CASE thread' = thread
    BY <1>1, <2>1
  <2>2. CASE AnswerQuery(Head(jobDBRequests))
    BY <1>0, <1>1, <2>2, AnswerEffect
  <2> QED BY <1>1, <2>1, <2>2
         DEF HandleRequest, AddJob, RemoveLocal, Modify, BeginLaunch
<1>2. ASSUME NEW s \in Slot, Goroutine(s) \/ Receive(s), ~HandleRequest, s # t
      PROVE  thread'[t] = thread[t]
  <2>1. CASE Send(s)
    BY <1>0, <1>2, <2>1, SendEffect
  <2>2. CASE TakePending(s)
    BY <1>0, <1>2, <2>2 DEF TakePending, TypeOK
  <2>3. CASE ~Send(s) /\ ~TakePending(s)
    <3>1. \E requests, next, job, reply : Goto(s, requests, next, job, reply)
      BY <1>0, <1>2, <2>3, GoroutineCareful
    <3> QED BY <1>0, <1>2, <3>1, GotoEffect
  <2> QED BY <2>1, <2>2, <2>3
<1>3. CASE Goroutine(t) \/ Receive(t)
  BY <1>0, <1>3, GoroutineCareful
<1> QED BY <1>0, <1>1, <1>2, <1>3
       DEF Next, Handler, SendOwn, LaunchCleared, ProcessPendingActions,
           LaunchNext, EditLDAP, Tick, Persist, vars

LEMMA TodoQuietNext == ASSUME QuietStep, NEW t \in Slot PROVE TodoQuiet(t)'
<1>0. /\ IdInv /\ LaunchInv /\ [Next]_vars /\ ~Restart /\ TypeOK /\ PointsReached
      /\ TypeOK' /\ Messages \cap Disturbing = {}
      /\ \A s \in Slot : TodoQuiet(s) /\ ReactionQuiet(s)
      /\ \A s \in Slot : \A l \in 1..Len(thread[s].todo) :
           ~Launches(thread[s].todo[l])
  <2>1. \A s \in Slot : TodoQuiet(s) /\ ReactionQuiet(s)
    BY DEF QuietStep, QuietInv
  <2>2. \A s \in Slot : \A l \in 1..Len(thread[s].todo) :
           ~Launches(thread[s].todo[l])
    BY <2>1 DEF TodoQuiet
  <2> QED BY <2>1, <2>2 DEF QuietStep, LaunchInv
<1>1. thread'[t].todo \in Seq(Request) /\ thread[t].todo \in Seq(Request)
  BY <1>0 DEF TypeOK, Thread
<1> SUFFICES ASSUME NEW n \in 1..Len(thread'[t].todo), NEW e,
                    e = thread'[t].todo[n]
             PROVE  /\ ~Launches(e)
                    /\ Keeps(e) => \A f : f = e.filter =>
                         /\ SettledIds(f)'
                         /\ \/ n = 2 /\ Marks(thread'[t].todo[1], f)
                            \/ n = 1 /\ AtEnd(f)'
  BY DEF TodoQuiet, Keeps, Held, Marks, Launches, IsLaunch
<1>2. e \in Request /\ (Keeps(e) => e.filter \in Filter)
  <2>1. e \in Request
    BY <1>1
  <2> QED BY <2>1, RequestFields DEF Keeps
<1>3. CASE thread'[t].todo = thread[t].todo /\ ~Send(t)
  <2>1. ~Launches(e)
    BY <1>0, <1>3 DEF TodoQuiet
  <2>2. ASSUME Keeps(e), NEW f, f = e.filter
        PROVE  /\ SettledIds(f)'
               /\ \/ n = 2 /\ Marks(thread'[t].todo[1], f)
                  \/ n = 1 /\ AtEnd(f)'
    <3>1. SettledIds(f) /\ Held(thread[t].todo, n) /\ f \in Filter
      BY <1>0, <1>2, <1>3, <2>2 DEF TodoQuiet
    <3>2. SettledIds(f)'
      BY <3>1, RemovableStays
    <3>3. AtEnd(f) => AtEnd(f)'
      BY <1>0, <3>1, EndStays DEF Removable
    <3> QED BY <1>3, <2>2, <3>1, <3>2, <3>3 DEF Held
  <2> QED BY <2>1, <2>2
<1>4. CASE Send(t)
  <2>1. /\ thread[t].todo # <<>> /\ thread'[t].todo = Tail(thread[t].todo)
        /\ jobDBRequests' = Append(jobDBRequests, Head(thread[t].todo))
    BY <1>0, <1>4, SendEffect
  <2>2. /\ n + 1 \in 1..Len(thread[t].todo) /\ e = thread[t].todo[n + 1]
        /\ n + 1 # 1
    BY <1>1, <2>1
  <2>3. ~Launches(e)
    BY <1>0, <2>2
  <2>4. ASSUME Keeps(e), NEW f, f = e.filter
        PROVE  SettledIds(f)' /\ n = 1 /\ AtEnd(f)'
    <3>1. /\ SettledIds(f) /\ f \in Filter
          /\ n + 1 = 2 /\ Marks(thread[t].todo[1], f)
      BY <1>0, <1>2, <2>2, <2>4 DEF TodoQuiet, Held
    <3>2. PICK r : /\ Len(jobDBRequests') = Len(jobDBRequests) + 1
                   /\ jobDBRequests'[Len(jobDBRequests) + 1] = r
                   /\ r = thread[t].todo[1]
      BY <1>0, <1>1, <2>1 DEF TypeOK
    <3>3. AtEnd(f)'
      BY <1>0, <3>1, <3>2, MarkerSent
    <3>4. SettledIds(f)'
      BY <3>1, RemovableStays
    <3> QED BY <3>1, <3>3, <3>4
  <2> QED BY <2>3, <2>4
<1>5. CASE TakePending(t)
  <2>1. thread'[t].todo = <<>>
    BY <1>0, <1>5 DEF TakePending, TypeOK, Idle
  <2> QED BY <2>1
<1>6. ASSUME NEW requests, NEW next, NEW job, NEW reply,
             Goto(t, requests, next, job, reply), Careful(t, requests, next)
      PROVE  /\ ~Launches(e)
             /\ Keeps(e) => \A f : f = e.filter =>
                  SettledIds(f)' /\ n = 2 /\ Marks(thread'[t].todo[1], f)
  <2>0. thread'[t].todo = requests
    BY <1>0, <1>6, GotoEffect
  <2>1. CASE requests = <<>>
    BY <2>0, <2>1
  <2>2. ASSUME NEW r \in Request, requests = <<r>>, ~Keeps(r), ~Launches(r)
        PROVE  ~Keeps(e) /\ ~Launches(e)
    BY <2>0, <2>2
  <2>3. ASSUME NEW i \in HeldIds(t) \cap Nat, NEW marker \in QuietMarkers,
               NEW b \in BOOLEAN,
               requests = RemoveQuietly(ById({i}), marker, b)
        PROVE  /\ ~Launches(e)
               /\ Keeps(e) => \A f : f = e.filter =>
                    SettledIds(f)' /\ n = 2 /\ Marks(thread'[t].todo[1], f)
    <3> DEFINE g == ById({i})
    <3>1. /\ Len(requests) = 2
          /\ requests[1] = ModifyReq(g, [progress |-> marker])
          /\ requests[2] = RemoveReq(g, b, TRUE)
      BY <2>3 DEF RemoveQuietly
    <3>2. /\ ~Launches(requests[1]) /\ ~Launches(requests[2])
          /\ ~Keeps(requests[1]) /\ Marks(requests[1], g)
          /\ requests[2].filter = g
      BY <3>1 DEF Launches, IsLaunch, Keeps, Marks, ModifyReq, RemoveReq
    <3>3. n \in {1, 2} /\ e = requests[n]
      BY <2>0, <3>1
    <3>4. Settled(i)
      <4>1. CASE i \in {j.id : j \in thread[t].reply}
        BY <4>1 DEF QuietStep, WindowInv, Known
      <4>2. CASE thread[t].pc = "act" /\ i = thread[t].job.id
        BY <1>0, <4>2 DEF ReactionQuiet
      <4> QED BY <4>1, <4>2 DEF HeldIds
    <3>5. SettledIds(g)'
      <4>1. g \in Filter /\ SettledIds(g)
        BY <3>4 DEF ById, Filter, SettledIds
      <4> HIDE DEF g
      <4> QED BY <4>1, RemovableStays
    <3> HIDE DEF g
    <3> QED BY <2>0, <3>2, <3>3, <3>5
  <2> QED BY <1>6, <2>1, <2>2, <2>3 DEF Careful
<1> QED BY <1>3, <1>4, <1>5, <1>6, StepThread

LEMMA PendingQuietNext == ASSUME QuietStep PROVE PendingQuiet'
<1>0. /\ IdInv /\ LaunchInv /\ [Next]_vars /\ ~Restart /\ TypeOK /\ PointsReached
      /\ PendingQuiet /\ ChannelQuiet
  BY DEF QuietStep, LaunchInv, QuietInv
<1>1. ASSUME NEW i \in Nat, Settled(i) PROVE Settled(i)'
  BY <1>0, <1>1, SettledStays
<1> SUFFICES ASSUME NEW p \in PendingActions'
             PROVE  Settled(p.job.id)' /\ (p.keep => Marked(p.job))
  BY DEF PendingQuiet, Marked
<1>2. CASE p \in PendingActions
  <2>1. p.job.id \in Nat
    BY <1>0, <1>2 DEF TypeOK, Pending, Job
  <2> QED BY <1>0, <1>1, <1>2, <2>1 DEF PendingQuiet
<1>3. CASE p \notin PendingActions
  <2> DEFINE r == Head(jobDBRequests)
  <2>1. PICK j \in jobDB :
          /\ p.job.id = j.id
          /\ p.keep => /\ HandleRequest /\ Keeps(r) /\ Accepts(r.filter, j)
                       /\ p.job.progress = j.progress
    BY <1>0, <1>3, StepPending
  <2>2. Settled(p.job.id)'
    <3>1. j.id \in Nat
      BY <1>0 DEF TypeOK, NumberedJob, Job
    <3> QED BY <1>0, <1>1, <2>1, <3>1, JobsSettled
  <2>3. ASSUME p.keep PROVE Marked(p.job)
    <3>1. 1 \in 1..Len(jobDBRequests) /\ r = jobDBRequests[1]
      BY <1>0, <2>1, <2>3 DEF HandleRequest, TypeOK
    <3>2. Protected(1, r.filter)
      BY <1>0, <2>1, <2>3, <3>1 DEF ChannelQuiet
    <3>3. Quieted(r.filter)
      BY <3>2 DEF Protected
    <3> QED BY <2>1, <2>3, <3>3 DEF Quieted, Marked
  <2> QED BY <2>2, <2>3
<1> QED BY <1>2, <1>3

LEMMA ReactionQuietNext == ASSUME QuietStep, NEW t \in Slot PROVE ReactionQuiet(t)'
<1>0. /\ IdInv /\ LaunchInv /\ [Next]_vars /\ ~Restart /\ TypeOK /\ PointsReached
      /\ TypeOK' /\ PendingQuiet /\ ReactionQuiet(t)
  BY DEF QuietStep, LaunchInv, QuietInv
<1>1. ASSUME NEW i \in Nat, Settled(i) PROVE Settled(i)'
  BY <1>0, <1>1, SettledStays
<1>2. ASSUME NEW i, i = thread[t].job.id, thread[t].pc = "act"
      PROVE  Settled(i)'
  <2>1. i \in Nat
    BY <1>0, <1>2, HoldsJob DEF JobPC
  <2> QED BY <1>0, <1>1, <1>2, <2>1 DEF ReactionQuiet
<1>3. CASE \/ thread'[t] = thread[t]
           \/ /\ thread'[t].job = thread[t].job /\ thread'[t].next = thread[t].next
              /\ thread'[t].keep = thread[t].keep
              /\ thread'[t].pc \in {thread[t].pc, thread[t].next}
  <2>1. thread'[t].pc = "act" =>
          thread[t].pc = "act" /\ thread'[t].job = thread[t].job
    BY <1>0, <1>3 DEF ReactionQuiet
  <2> QED BY <1>0, <1>2, <1>3, <2>1 DEF ReactionQuiet, Settled, Coming, Marked
<1>4. CASE Send(t)
  <2>1. /\ thread[t].pc = "send" /\ thread'[t].next = thread[t].next
        /\ thread'[t].pc \in {"send", "await", "idle", thread[t].next}
    BY <1>0, <1>4, SendEffect
  <2> QED BY <1>0, <2>1 DEF ReactionQuiet
<1>5. CASE TakePending(t)
  <2>1. PICK p \in PendingActions :
          thread' = [thread EXCEPT ![t] =
            [Idle EXCEPT !.pc = IF p.job.status = "done" THEN "done" ELSE "act",
                         !.job = p.job, !.keep = p.keep]]
    BY <1>5 DEF TakePending
  <2>2. /\ thread'[t].next = "idle" /\ thread'[t].pc \in {"done", "act"}
        /\ thread'[t].job = p.job /\ thread'[t].keep = p.keep
    BY <1>0, <2>1 DEF TypeOK, Idle
  <2>3. Settled(p.job.id)' /\ (p.keep => Marked(p.job))
    <3>1. p.job.id \in Nat
      BY <1>0 DEF TypeOK, Pending, Job
    <3> QED BY <1>0, <1>1, <3>1 DEF PendingQuiet
  <2> QED BY <2>2, <2>3 DEF ReactionQuiet, Settled, Coming, Marked
<1>6. ASSUME NEW requests, NEW next, NEW job, NEW reply,
             Goto(t, requests, next, job, reply), Careful(t, requests, next)
      PROVE  ReactionQuiet(t)'
  <2>1. /\ thread'[t].next = next /\ thread'[t].pc \in {next, "send"}
        /\ requests = <<>> => thread'[t].pc = next
        /\ thread'[t].keep = thread[t].keep \/ next = "idle"
    BY <1>0, <1>6, GotoEffect
  <2>2. next \notin {"act", "done"}
    BY <1>6 DEF Careful
  <2>3. next = "setlocal" => thread'[t].pc = next /\ ~thread'[t].keep
    BY <1>0, <1>6, <2>1 DEF Careful, ReactionQuiet
  <2> QED BY <2>1, <2>2, <2>3 DEF ReactionQuiet
<1> QED BY <1>3, <1>4, <1>5, <1>6, StepThread

LEMMA QuietInvNext ==
  ASSUME IdInv, LaunchInv, WindowInv, QuietInv, [Next]_vars,
         Messages \cap Disturbing = {}
  PROVE  QuietInv'
<1>1. CASE Restart
  BY <1>1, QuietRestart
<1>2. CASE ~Restart
  <2>1. QuietStep
    BY <1>2, NextType DEF QuietStep, LaunchInv
  <2> QED BY <2>1, ChannelQuietNext, OwnQuietNext, TodoQuietNext,
             PendingQuietNext, ReactionQuietNext DEF QuietInv
<1> QED BY <1>1, <1>2

\* "to prevent faistate => localboot" (jobdb.go, jobs.go, process_act.go): a
\* removal that comes after its marker never sets the machine to localboot, in
\* whatever order the requests of the groomer, of a forward and of a launch that
\* clears away competitors mix with those of everybody else. A client's
\* progress report, which overwrites the marker, and the two handlers that
\* remove by machine while launches are under way are excepted.
THEOREM RemovalsStayQuiet ==
  Messages \cap {"progress", "fju", "hia"} = {} =>
    (Spec => []QuietRemovalsStayQuiet)
<1> SUFFICES ASSUME Messages \cap Disturbing = {}
             PROVE  Spec => []QuietRemovalsStayQuiet
  BY DEF Disturbing
<1> DEFINE Inv == IdInv /\ LaunchInv /\ WindowInv /\ QuietInv
<1>1. Init => Inv
  BY InitIds, LaunchInvInit, WindowInvInit, QuietInvInit
<1>2. Inv /\ [Next]_vars => Inv'
  BY NextIds, LaunchInvNext, WindowInvNext, QuietInvNext
<1>3. Inv => QuietRemovalsStayQuiet
  BY DEF QuietInv, ReactionQuiet, QuietRemovalsStayQuiet
<1> HIDE DEF Inv
<1> QED BY <1>1, <1>2, <1>3, PTL DEF Spec
=============================================================================
