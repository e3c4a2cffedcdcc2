-------------------------- MODULE JobSeries_proofs --------------------------
(***************************************************************************)
(* What JobDB says of periodic series, for every value of its constants:   *)
(* a series ends only when somebody ends it, and the database never holds  *)
(* two of its instances.  An instance leaves the database as an entry of   *)
(* PendingActions, is held by the goroutine that reacts to its removal,    *)
(* and comes back as a request of that goroutine, so the proofs follow it  *)
(* through all of these; a forward takes a copy of it on a second way.     *)
(***************************************************************************)
EXTENDS JobLaunch_proofs

-----------------------------------------------------------------------------
(* The points of a goroutine.                                              *)

\* The job of a request to add one is new, or follows or replaces the job the
\* goroutine holds.
Derived(s, new) ==
  /\ new.id = nextID
  /\ \/ new.root = nextID
     \/ /\ new.root = thread[s].job.root
        /\ \/ thread[s].pc = "forwarding"
           \/ thread[s].pc = "followup" /\ thread[s].job.periodic # 0
  /\ \/ "hia" \in Messages
     \/ new.headertag \in NewTags /\ new.tminus \in TMinuses
     \/ /\ new.headertag = thread[s].job.headertag
        /\ new.tminus = thread[s].job.tminus

\* The points after a reply.
AskingPC == {"ensure", "launch", "grooming"}

\* The requests that end an instance and let its series go on: the end of an
\* action, and what clients and the groomer say of installations.
Warranted(s, r, next) ==
  \/ Messages \cap {"hia", "progress"} # {}
  \/ /\ thread[s].pc = "act" /\ next = "idle"
     /\ r.filter = ById({thread[s].job.id})
  \/ \E x \in thread[s].reply : IsInstall(x)

\* What a goroutine may be told to send on its way.
Proper(s, requests, next) ==
  \A r \in Range(requests) :
    /\ r.op = "query" => r.slot = s /\ requests = <<r>> /\ next \in AskingPC
    /\ r.op = "add" => Derived(s, r.job) /\ nextID' = nextID + 1
    /\ (r.op = "remove" /\ ~r.stop) => Warranted(s, r, next)

\* How a goroutine goes on, with the job it holds or another.
Turn(s, requests, next, job, reply) ==
  /\ requests \in Seq(Request) /\ Proper(s, requests, next)
  /\ thread[s].pc \notin {"send", "await"}
  /\ next \notin {"act", "done"}
  /\ next \in DonePC =>
       requests = <<>> /\ job = thread[s].job /\ thread[s].pc \in DonePC
  /\ thread[s].pc \in {"done", "setlocal"} => next \in DonePC
  /\ (thread[s].pc = "followup" /\ thread[s].job.periodic # 0) =>
       \E r \in Range(requests) :
         r.op = "add" /\ r.job.root = thread[s].job.root
  /\ next = "forwarding" =>
       /\ thread[s].pc = "act" /\ "forward" \in Messages
       /\ job = thread[s].job
       /\ requests = RemoveQuietly(ById({job.id}), "forward", TRUE)
  /\ next \in HereIAmPC => job.root = 0
  /\ \/ job = thread[s].job \/ job = Blank
     \/ job.id = 0 /\ job.root = 0 /\ "hia" \in Messages
  /\ reply \subseteq thread[s].reply
  /\ UNCHANGED <<dbVars, handlerVars, jobDBRequests, disk>>
  /\ nextID' \in {nextID, nextID + 1}

\* The goroutine of a here_i_am that has registered the client holds no job of
\* a series.
CallersHoldNone ==
  \A s \in Slot : (thread[s].pc \in HereIAmPC \/ thread[s].next \in HereIAmPC)
                    => thread[s].job.root = 0

LEMMA ProperNone == \A s, next : Proper(s, <<>>, next) /\ <<>> \in Seq(Request)
BY RangeEmpty, EmptySeq DEF Proper

LEMMA ProperOne ==
  ASSUME NEW s, NEW r \in Request, NEW next,
         r.op = "query" => r.slot = s /\ next \in AskingPC,
         r.op = "add" => Derived(s, r.job) /\ nextID' = nextID + 1,
         (r.op = "remove" /\ ~r.stop) => Warranted(s, r, next)
  PROVE  Proper(s, <<r>>, next) /\ <<r>> \in Seq(Request)
BY RangeOne, OneRequest DEF Proper

LEMMA ProperQuietly ==
  ASSUME NEW s, NEW f \in Filter, NEW marker \in Markers, NEW stop \in BOOLEAN,
         NEW next, ~stop => Warranted(s, RemoveReq(f, stop, TRUE), next)
  PROVE  /\ Proper(s, RemoveQuietly(f, marker, stop), next)
         /\ RemoveQuietly(f, marker, stop) \in Seq(Request)
         /\ RemoveQuietly(f, marker, stop) # <<>>
<1> DEFINE q == ModifyReq(f, [progress |-> marker])
           e == RemoveReq(f, stop, TRUE)
<1>1. q.op = "modify" /\ e.op = "remove" /\ e.stop = stop
  BY DEF ModifyReq, RemoveReq
<1>2. Range(RemoveQuietly(f, marker, stop)) = {q, e}
  BY RangeQuietly
<1>3. RemoveQuietly(f, marker, stop) # <<>>
  BY <1>2, RangeEmpty
<1>4. ~stop => Warranted(s, e, next)
  OBVIOUS
<1> HIDE DEF q, e
<1> QED BY <1>1, <1>2, <1>3, <1>4, RangeQuietly DEF Proper

\* A goroutine that lets go of its job.
LEMMA TurnAway ==
  ASSUME NEW s \in Slot, NEW requests \in Seq(Request),
         Proper(s, requests, "idle"),
         thread[s].pc \notin {"send", "await", "done", "setlocal"},
         (thread[s].pc = "followup" /\ thread[s].job.periodic # 0) =>
            \E r \in Range(requests) :
              r.op = "add" /\ r.job.root = thread[s].job.root,
         UNCHANGED <<dbVars, handlerVars, jobDBRequests, disk>>,
         nextID' \in {nextID, nextID + 1}
  PROVE  Turn(s, requests, "idle", Blank, {})
BY DEF Turn, DonePC, HereIAmPC

\* A goroutine that goes on with what it has received.
LEMMA TurnOn ==
  ASSUME NEW s \in Slot, NEW requests \in Seq(Request), NEW next, NEW job,
         NEW reply \in SUBSET thread[s].reply, Proper(s, requests, next),
         thread[s].pc \notin {"send", "await", "done", "setlocal", "followup"},
         next \in {"grooming", "ensure", "window", "launch"},
         \/ job = Blank
         \/ job.root = 0 /\ job = thread[s].job
         \/ job.id = 0 /\ job.root = 0 /\ "hia" \in Messages,
         UNCHANGED <<dbVars, handlerVars, jobDBRequests, disk>>,
         nextID' \in {nextID, nextID + 1}
  PROVE  Turn(s, requests, next, job, reply)
<1>0. Blank.root = 0
  BY DEF Blank
<1>1. job.root = 0
  BY <1>0
<1>2. /\ next \notin {"act", "done", "forwarding"} \cup DonePC
      /\ reply \subseteq thread[s].reply
      /\ job = thread[s].job \/ job = Blank
         \/ (job.id = 0 /\ job.root = 0 /\ "hia" \in Messages)
  BY DEF DonePC
<1> QED BY <1>1, <1>2 DEF Turn

LEMMA ReceiveTurns ==
  ASSUME TypeOK, TypeOK', NEW s \in Slot, Receive(s)
  PROVE  \E requests, next, job, reply :
           Goto(s, requests, next, job, reply)
             /\ Turn(s, requests, next, job, reply)
<1> DEFINE Proved == \E requests, next, job, reply :
             Goto(s, requests, next, job, reply)
               /\ Turn(s, requests, next, job, reply)
<1> USE DEF Go
<1>0. /\ thread[s].pc = "idle" /\ clock \in Nat /\ nextID \in Nat
      /\ UNCHANGED <<dbVars, handlerVars, jobDBRequests, disk>>
  <2>1. clock \in Nat /\ nextID \in Nat
    BY MaxIDNat DEF TypeOK
  <2>2. /\ thread[s].pc = "idle"
        /\ UNCHANGED <<dbVars, handlerVars, jobDBRequests, disk>>
    BY DEF Receive, ReceiveAdd, ReceiveDelete, ReceiveUpdate, ReceiveProgress,
           ReceiveForeign, ReceiveHereIAm, StartGroom, Arrives, Free
  <2> QED BY <2>1, <2>2
<1>1. ASSUME NEW requests \in Seq(Request), Proper(s, requests, "idle"),
             Go(s, requests, "idle", Blank), nextID' \in {nextID, nextID + 1}
      PROVE  Proved
  BY <1>0, <1>1, TurnAway
<1>2. ASSUME NEW requests \in Seq(Request), NEW next, Proper(s, requests, next),
             next \in {"grooming", "ensure", "window"}, NEW job,
             \/ job = Blank
             \/ job.id = 0 /\ job.root = 0 /\ "hia" \in Messages,
             Go(s, requests, next, job), nextID' = nextID
      PROVE  Proved
  <2>1. Turn(s, requests, next, job, {})
    BY <1>0, <1>2, TurnOn
  <2> QED BY <1>2, <2>1
<1> SUFFICES Proved
  OBVIOUS
<1> HIDE DEF Proved
<1>3. CASE ReceiveAdd(s)
  <2>1. PICK tag \in NewTags, mac \in MAC, t \in clock..MaxTime, p \in Periods,
             tm \in TMinuses :
          Go(s, <<AddReq(WithNewId(NewJob(tag, mac, t, p, tm)))>>, "idle", Blank)
    BY <1>3 DEF ReceiveAdd
  <2> DEFINE new == WithNewId(NewJob(tag, mac, t, p, tm))
  <2>2. /\ new.id = nextID /\ new.root = nextID
        /\ new.headertag = tag /\ new.tminus = tm
    BY DEF WithNewId, NewJob
  <2>3. <<AddReq(new)>> \in Seq(Request)
    BY <2>1, GotoSeq DEF TypeOK
  <2>4. nextID' = nextID + 1
    BY <1>3 DEF ReceiveAdd, TakeId
  <2> HIDE DEF new
  <2>5. Derived(s, new)
    BY <2>2 DEF Derived
  <2>6. /\ AddReq(new) \in Request /\ AddReq(new).op = "add"
        /\ AddReq(new).job = new
    BY <2>3 DEF AddReq
  <2>7. Proper(s, <<AddReq(new)>>, "idle")
    BY <2>4, <2>5, <2>6, ProperOne
  <2> QED BY <1>1, <2>1, <2>3, <2>4, <2>7 DEF new
<1>4. CASE ReceiveDelete(s)
  <2>1. PICK j \in jobDB :
          Go(s, <<RemoveReq(ById({j.id}), TRUE, FALSE)>>, "idle", Blank)
    BY <1>4 DEF ReceiveDelete
  <2> DEFINE q == RemoveReq(ById({j.id}), TRUE, FALSE)
  <2>2. <<q>> \in Seq(Request) /\ q.op = "remove" /\ q.stop
    BY <2>1, GotoSeq DEF TypeOK, RemoveReq
  <2> HIDE DEF q
  <2>3. Proper(s, <<q>>, "idle")
    BY <2>2, ProperOne
  <2> QED BY <1>1, <1>4, <2>1, <2>2, <2>3 DEF ReceiveDelete, q
<1>5. CASE ReceiveUpdate(s)
  <2>1. PICK kind \in {"pause", "resume", "reschedule"}, j \in jobDB :
          Go(s, <<ModifyReq(ById({j.id}), GOsaUpdate(kind))>>, "idle", Blank)
    BY <1>5 DEF ReceiveUpdate
  <2> DEFINE q == ModifyReq(ById({j.id}), GOsaUpdate(kind))
  <2>2. <<q>> \in Seq(Request) /\ q.op = "modify"
    BY <2>1, GotoSeq DEF TypeOK, ModifyReq
  <2> HIDE DEF q
  <2>3. Proper(s, <<q>>, "idle")
    BY <2>2, ProperOne
  <2> QED BY <1>1, <1>5, <2>1, <2>2, <2>3 DEF ReceiveUpdate, q
<1>6. CASE ReceiveProgress(s)
  <2>1. PICK mac \in MAC, p \in Percentages :
          Go(s, <<ModifyReq(BehindProgress(mac, p), [progress |-> p])>> \o
                (IF p = "100" THEN <<RemoveReq(Processing(mac), FALSE, FALSE)>>
                              ELSE <<>>), "idle", Blank)
    BY <1>6 DEF ReceiveProgress
  <2> DEFINE q == ModifyReq(BehindProgress(mac, p), [progress |-> p])
             e == RemoveReq(Processing(mac), FALSE, FALSE)
             end == IF p = "100" THEN <<e>> ELSE <<>>
  <2>2. /\ BehindProgress(mac, p) \in Filter /\ Processing(mac) \in Filter
        /\ [progress |-> p] \in Update
    BY DEF BehindProgress, Processing, Filter, Update, Progress
  <2>3. q \in Request /\ e \in Request /\ q.op = "modify" /\ e.op = "remove"
    BY <2>2 DEF ModifyReq, RemoveReq, Request
  <2> HIDE DEF q, e
  <2>4. /\ <<q>> \in Seq(Request) /\ end \in Seq(Request)
        /\ Range(<<q>>) = {q} /\ Range(end) \subseteq {e}
    BY <2>3, OneRequest, EmptySeq, RangeOne, RangeEmpty
  <2> HIDE DEF end
  <2>5. /\ <<q>> \o end \in Seq(Request)
        /\ Range(<<q>> \o end) \subseteq {q, e}
    <3>1. <<q>> \o end \in Seq(Request)
      BY <2>4, ConcatProperties
    <3>2. Range(<<q>> \o end) = Range(<<q>>) \cup Range(end)
      BY <2>4, RangeConcat
    <3> QED BY <2>4, <3>1, <3>2
  <2>6. "progress" \in Messages
    BY <1>6 DEF ReceiveProgress, Arrives
  <2>7. Proper(s, <<q>> \o end, "idle")
    BY <2>3, <2>5, <2>6 DEF Proper, Warranted
  <2> QED BY <1>1, <1>6, <2>1, <2>5, <2>7 DEF q, e, end, ReceiveProgress
<1>7. CASE ReceiveForeign(s)
  <2>1. PICK mac \in MAC :
          Go(s, RemoveQuietly(Installing(mac, 0), "forward", TRUE), "idle", Blank)
    BY <1>7 DEF ReceiveForeign
  <2>2. Installing(mac, 0) \in Filter
    BY DEF Installing, Filter
  <2> QED BY <1>1, <1>7, <2>1, <2>2, ProperQuietly DEF ReceiveForeign, Markers
<1>8. CASE ReceiveHereIAm(s)
  <2>1. "hia" \in Messages
    BY <1>8 DEF ReceiveHereIAm, Arrives
  <2>2. PICK mac \in MAC : \E tag \in HeaderTag :
          \/ Go(s, RemoveQuietly(Installing(mac, 0), "groom", FALSE), "window",
                Subject(mac, tag))
          \/ Go(s, <<QueryReq(ProcessingTag(mac, tag), s)>>, "ensure",
                Subject(mac, tag))
    <3>1. {"trigger_action_reinstall", "trigger_action_update"} \subseteq HeaderTag
      BY ConstantsOK DEF InstallTags
    <3> QED BY <1>8, <3>1 DEF ReceiveHereIAm
  <2>3. PICK tag \in HeaderTag :
          \/ Go(s, RemoveQuietly(Installing(mac, 0), "groom", FALSE), "window",
                Subject(mac, tag))
          \/ Go(s, <<QueryReq(ProcessingTag(mac, tag), s)>>, "ensure",
                Subject(mac, tag))
    BY <2>2
  <2>4. Installing(mac, 0) \in Filter /\ ProcessingTag(mac, tag) \in Filter
    BY DEF Installing, ProcessingTag, Filter
  <2>5. Subject(mac, tag).id = 0 /\ Subject(mac, tag).root = 0
    BY DEF Subject, Blank
  <2>6. CASE Go(s, RemoveQuietly(Installing(mac, 0), "groom", FALSE), "window",
                Subject(mac, tag))
    <3>1. /\ Proper(s, RemoveQuietly(Installing(mac, 0), "groom", FALSE), "window")
          /\ RemoveQuietly(Installing(mac, 0), "groom", FALSE) \in Seq(Request)
      BY <2>1, <2>4, ProperQuietly DEF Markers, Warranted
    <3> QED BY <1>2, <1>8, <2>1, <2>5, <2>6, <3>1 DEF ReceiveHereIAm
  <2>7. CASE Go(s, <<QueryReq(ProcessingTag(mac, tag), s)>>, "ensure",
                Subject(mac, tag))
    <3> DEFINE q == QueryReq(ProcessingTag(mac, tag), s)
    <3>1. q \in Request /\ q.op = "query" /\ q.slot = s
      BY <2>4 DEF QueryReq, Request
    <3> HIDE DEF q
    <3>2. Proper(s, <<q>>, "ensure") /\ <<q>> \in Seq(Request)
      BY <3>1, ProperOne DEF AskingPC
    <3> QED BY <1>2, <1>8, <2>1, <2>5, <2>7, <3>2 DEF ReceiveHereIAm, q
  <2> QED BY <2>3, <2>6, <2>7
<1>9. CASE StartGroom(s)
  <2> DEFINE q == QueryReq(OlderThan(clock), s)
  <2>1. q \in Request /\ q.op = "query" /\ q.slot = s
    BY <1>0 DEF OlderThan, Filter, QueryReq, Request
  <2>2. Go(s, <<q>>, "grooming", Blank)
    BY <1>9 DEF StartGroom
  <2> HIDE DEF q
  <2>3. Proper(s, <<q>>, "grooming") /\ <<q>> \in Seq(Request)
    BY <2>1, ProperOne DEF AskingPC
  <2> QED BY <1>2, <1>9, <2>2, <2>3 DEF StartGroom
<1> QED BY <1>3, <1>4, <1>5, <1>6, <1>7, <1>8, <1>9 DEF Receive

\* Every action of a goroutine but Send and TakePending, and every message.
LEMMA GoroutineTurns ==
  ASSUME TypeOK, TypeOK', PointsReached, CallersHoldNone, NEW s \in Slot,
         Goroutine(s) \/ Receive(s), ~Send(s), ~TakePending(s)
  PROVE  \E requests, next, job, reply :
           Goto(s, requests, next, job, reply)
             /\ Turn(s, requests, next, job, reply)
<1> DEFINE Proved == \E requests, next, job, reply :
             Goto(s, requests, next, job, reply)
               /\ Turn(s, requests, next, job, reply)
           holds == thread[s].job
<1> USE DEF Go
<1>0. /\ clock \in Nat /\ nextID \in Nat /\ thread[s].reply \subseteq NumberedJob
      /\ thread[s].pc \in HereIAmPC => "hia" \in Messages /\ holds.root = 0
      /\ thread[s].pc = "forwarding" => "forward" \in Messages
      /\ {} \in SUBSET thread[s].reply
  BY MaxIDNat DEF TypeOK, Thread, PointsReached, CallersHoldNone
<1>1. ASSUME NEW requests \in Seq(Request), Proper(s, requests, "idle"),
             Go(s, requests, "idle", Blank), nextID' \in {nextID, nextID + 1},
             thread[s].pc \notin {"send", "await", "done", "setlocal"},
             (thread[s].pc = "followup" /\ holds.periodic # 0) =>
                \E r \in Range(requests) : r.op = "add" /\ r.job.root = holds.root,
             UNCHANGED <<dbVars, handlerVars, jobDBRequests, disk>>
      PROVE  Proved
  BY <1>1, TurnAway
<1>2. ASSUME NEW requests \in Seq(Request), NEW next, Proper(s, requests, next),
             next \in {"grooming", "ensure", "window", "launch"}, NEW job,
             NEW reply \in SUBSET thread[s].reply,
             job = Blank \/ (job.root = 0 /\ job = holds),
             Goto(s, requests, next, job, reply),
             nextID' \in {nextID, nextID + 1},
             thread[s].pc \notin {"send", "await", "done", "setlocal", "followup"},
             UNCHANGED <<dbVars, handlerVars, jobDBRequests, disk>>
      PROVE  Proved
  BY <1>2, TurnOn
<1> SUFFICES Proved
  OBVIOUS
<1>3. CASE ForwardJob(s)
  <2> DEFINE quiet == RemoveQuietly(ById({holds.id}), "forward", TRUE)
  <2>1. ById({holds.id}) \in Filter
    BY <1>3, HoldsJob DEF ForwardJob, JobPC, ById, Filter
  <2>2. /\ Proper(s, quiet, "forwarding") /\ quiet \in Seq(Request)
    BY <2>1, ProperQuietly DEF Markers
  <2>3. /\ thread[s].pc = "act" /\ "forward" \in Messages
        /\ Goto(s, quiet, "forwarding", holds, {})
        /\ UNCHANGED <<dbVars, handlerVars, jobDBRequests, disk>>
        /\ nextID' = nextID
    BY <1>3 DEF ForwardJob, MayForward, envVars
  <2>4. Turn(s, quiet, "forwarding", holds, {})
    BY <1>0, <2>2, <2>3 DEF Turn, HereIAmPC, DonePC
  <2> QED BY <2>3, <2>4
<1>4. CASE ReadState(s) \/ SetLocalboot(s)
  <2>1. \/ Go(s, <<>>, "setlocal", holds)
        \/ Go(s, <<>>, "followup", holds)
    BY <1>4 DEF ReadState, SetLocalboot
  <2>2. /\ thread[s].pc \in {"done", "setlocal"}
        /\ UNCHANGED <<dbVars, handlerVars, jobDBRequests, disk>>
        /\ nextID' = nextID
    BY <1>4 DEF ReadState, SetLocalboot, envVars
  <2>3. ASSUME NEW next \in {"setlocal", "followup"}, Goto(s, <<>>, next, holds, {})
        PROVE  Proved
    <3>1. Turn(s, <<>>, next, holds, {})
      BY <1>0, <2>2, <2>3, ProperNone DEF Turn, HereIAmPC, DonePC
    <3> QED BY <2>3, <3>1
  <2> QED BY <2>1, <2>3
<1> HIDE DEF Proved
<1>5. CASE ForwardDelivered(s)
  <2>1. /\ Go(s, <<>>, "idle", Blank) /\ thread[s].pc = "forwarding"
        /\ UNCHANGED <<dbVars, handlerVars, jobDBRequests, disk>>
        /\ nextID' = nextID
    BY <1>5 DEF ForwardDelivered, envVars
  <2> QED BY <1>1, <2>1, ProperNone
<1>6. CASE ForwardFailed(s)
  <2> DEFINE again == [holds EXCEPT !.status = "waiting",
                                    !.progress = "forward-failed"]
             new == WithNewId(again)
  <2>1. holds \in Job
    BY <1>6, HoldsJob DEF ForwardFailed, JobPC
  <2>2. /\ new.id = nextID /\ new.root \in {nextID, holds.root}
        /\ new.headertag = holds.headertag /\ new.tminus = holds.tminus
    BY <2>1 DEF WithNewId, Job
  <2>3. /\ Go(s, <<AddReq(new)>>, "idle", Blank) /\ thread[s].pc = "forwarding"
        /\ UNCHANGED <<dbVars, handlerVars, jobDBRequests, disk>>
        /\ nextID' = nextID + 1
    BY <1>6 DEF ForwardFailed, TakeId, envVars
  <2> HIDE DEF new
  <2>4. <<AddReq(new)>> \in Seq(Request)
    BY <2>3, GotoSeq DEF TypeOK
  <2>5. /\ AddReq(new) \in Request /\ AddReq(new).op = "add"
        /\ AddReq(new).job = new
    BY <2>4 DEF AddReq
  <2>6. Derived(s, new)
    BY <2>2, <2>3 DEF Derived
  <2>7. Proper(s, <<AddReq(new)>>, "idle")
    BY <2>3, <2>5, <2>6, ProperOne
  <2> QED BY <1>1, <2>3, <2>4, <2>7
<1>7. CASE Act(s)
  <2> DEFINE q == RemoveReq(ById({holds.id}), FALSE, FALSE)
  <2>1. /\ Go(s, <<>>, "idle", Blank) \/ Go(s, <<q>>, "idle", Blank)
        /\ thread[s].pc = "act" /\ nextID' = nextID
        /\ UNCHANGED <<dbVars, handlerVars, jobDBRequests, disk>>
    BY <1>7 DEF Act, envVars
  <2>2. CASE Go(s, <<>>, "idle", Blank)
    BY <1>1, <2>1, <2>2, ProperNone
  <2>3. CASE Go(s, <<q>>, "idle", Blank)
    <3>1. <<q>> \in Seq(Request)
      BY <2>3, GotoSeq DEF TypeOK
    <3>2. q \in Request /\ q.op = "remove" /\ q.filter = ById({holds.id})
      BY <3>1 DEF RemoveReq
    <3> HIDE DEF q
    <3>3. Proper(s, <<q>>, "idle")
      BY <2>1, <3>2, ProperOne DEF Warranted
    <3> QED BY <1>1, <2>1, <2>3, <3>1, <3>3
  <2> QED BY <2>1, <2>2, <2>3
<1>8. CASE FollowUp(s)
  <2>0. /\ thread[s].pc = "followup"
        /\ UNCHANGED <<dbVars, handlerVars, jobDBRequests, disk>>
    BY <1>8 DEF FollowUp, envVars
  <2>1. CASE holds.periodic = 0
    <3>1. Go(s, <<>>, "idle", Blank) /\ nextID' = nextID
      BY <1>8, <2>1 DEF FollowUp
    <3> QED BY <1>1, <2>0, <2>1, <3>1, ProperNone
  <2>2. CASE holds.periodic # 0
    <3> DEFINE new == NextInstance(holds, nextID, clock)
    <3>1. Go(s, <<AddReq(new)>>, "idle", Blank) /\ nextID' = nextID + 1
      BY <1>8, <2>2 DEF FollowUp, TakeId
    <3>2. holds \in Job
      BY <1>8, HoldsJob DEF FollowUp, JobPC
    <3>3. /\ new.id = nextID /\ new.root = holds.root
          /\ new.headertag = holds.headertag /\ new.tminus = holds.tminus
      BY <3>2 DEF NextInstance, Job
    <3> HIDE DEF new
    <3>4. <<AddReq(new)>> \in Seq(Request)
      BY <3>1, GotoSeq DEF TypeOK
    <3>5. /\ AddReq(new) \in Request /\ AddReq(new).op = "add"
          /\ AddReq(new).job = new
      BY <3>4 DEF AddReq
    <3>6. Derived(s, new)
      BY <2>0, <2>2, <3>3 DEF Derived
    <3>7. Proper(s, <<AddReq(new)>>, "idle")
      BY <3>1, <3>5, <3>6, ProperOne
    <3>8. \E r \in Range(<<AddReq(new)>>) : r.op = "add" /\ r.job.root = holds.root
      BY <3>3, <3>5, RangeOne
    <3> QED BY <1>1, <2>0, <3>1, <3>4, <3>7, <3>8
  <2> QED BY <2>1, <2>2
<1>9. CASE EnsureJob(s)
  <2> DEFINE quiet == RemoveQuietly(Installing(holds.macaddress, 0), "groom", TRUE)
             running == [holds EXCEPT !.status = "processing",
                                      !.timestamp = clock]
             new == WithNewId(running)
  <2>0. /\ "hia" \in Messages /\ holds \in Job /\ holds.macaddress \in MAC
        /\ holds.root = 0 /\ thread[s].pc = "ensure"
        /\ UNCHANGED <<dbVars, handlerVars, jobDBRequests, disk>>
    BY <1>0, <1>9, HoldsJob DEF EnsureJob, HereIAmPC, JobPC, envVars
  <2>1. CASE thread[s].reply # {}
    <3>1. Go(s, <<>>, "window", holds) /\ nextID' = nextID
      BY <1>9, <2>1 DEF EnsureJob
    <3> QED BY <1>0, <1>2, <2>0, <3>1, ProperNone
  <2>2. CASE thread[s].reply = {}
    <3>1. Go(s, quiet \o <<AddReq(new)>>, "window", holds) /\ nextID' = nextID + 1
      BY <1>9, <2>2 DEF EnsureJob, TakeId
    <3>2. new.id = nextID /\ new.root = nextID
      BY <2>0 DEF WithNewId, Job
    <3>3. Installing(holds.macaddress, 0) \in Filter
      BY <2>0, FilterTypes DEF Installing, Filter
    <3>4. /\ quiet \in Seq(Request) /\ Proper(s, quiet, "window") /\ quiet # <<>>
      BY <3>3, ProperQuietly DEF Markers
    <3>5. /\ Range(quiet) =
               {ModifyReq(Installing(holds.macaddress, 0), [progress |-> "groom"]),
                RemoveReq(Installing(holds.macaddress, 0), TRUE, TRUE)}
      BY <3>3, RangeQuietly DEF Markers
    <3>6. \A r \in Range(quiet) : r.op # "query"
      <4> DEFINE q == ModifyReq(Installing(holds.macaddress, 0),
                                [progress |-> "groom"])
                 e == RemoveReq(Installing(holds.macaddress, 0), TRUE, TRUE)
      <4>1. q.op = "modify" /\ e.op = "remove" /\ Range(quiet) = {q, e}
        BY <3>5 DEF ModifyReq, RemoveReq
      <4> HIDE DEF q, e, quiet
      <4> QED BY <4>1
    <3>7. new \in NumberedJob
      <4>1. running \in Job
        BY <1>0, <2>0 DEF Job, Status
      <4> QED BY <1>9, <2>2, <4>1, TakeIdType DEF EnsureJob
    <3> HIDE DEF new, quiet, running
    <3>8. AddReq(new) \in Request /\ AddReq(new).op = "add" /\ AddReq(new).job = new
      BY <3>7 DEF AddReq, Request
    <3>9. /\ <<AddReq(new)>> \in Seq(Request)
          /\ quiet \o <<AddReq(new)>> \in Seq(Request)
      BY <3>4, <3>8, OneRequest, ConcatProperties
    <3>10. Range(quiet \o <<AddReq(new)>>) = Range(quiet) \cup {AddReq(new)}
      BY <3>4, <3>8, <3>9, RangeConcat, RangeOne
    <3>11. Derived(s, new)
      BY <2>0, <3>2 DEF Derived
    <3>12. Proper(s, quiet \o <<AddReq(new)>>, "window")
      BY <3>1, <3>4, <3>6, <3>8, <3>10, <3>11 DEF Proper
    <3> QED BY <1>0, <1>2, <2>0, <3>1, <3>9, <3>12
  <2> QED BY <2>1, <2>2
<1>10. CASE QueryWindow(s)
  <2> DEFINE q == QueryReq(HasTminus(holds.macaddress), s)
  <2>1. /\ Go(s, <<q>>, "launch", holds) /\ holds.root = 0 /\ nextID' = nextID
        /\ thread[s].pc = "window"
        /\ UNCHANGED <<dbVars, handlerVars, jobDBRequests, disk>>
    BY <1>0, <1>10 DEF QueryWindow, HereIAmPC, envVars
  <2>2. <<q>> \in Seq(Request) /\ q.op = "query" /\ q.slot = s
    BY <2>1, GotoSeq DEF TypeOK, QueryReq
  <2> HIDE DEF q
  <2>3. Proper(s, <<q>>, "launch")
    BY <2>2, ProperOne DEF AskingPC
  <2> QED BY <1>0, <1>2, <2>1, <2>2, <2>3
<1>11. CASE LaunchWindow(s)
  <2> DEFINE q == ModifyReq(ById(OpenIds(s)), [status |-> "launch"])
  <2>1. /\ Go(s, <<>>, "idle", Blank) \/ Go(s, <<q>>, "idle", Blank)
        /\ thread[s].pc = "launch" /\ nextID' = nextID
        /\ UNCHANGED <<dbVars, handlerVars, jobDBRequests, disk>>
    BY <1>11 DEF LaunchWindow, OpenIds, envVars
  <2>2. CASE Go(s, <<>>, "idle", Blank)
    BY <1>1, <2>1, <2>2, ProperNone
  <2>3. CASE Go(s, <<q>>, "idle", Blank)
    <3>1. <<q>> \in Seq(Request) /\ q.op = "modify"
      BY <2>3, GotoSeq DEF TypeOK, ModifyReq
    <3> HIDE DEF q
    <3>2. Proper(s, <<q>>, "idle")
      BY <3>1, ProperOne
    <3> QED BY <1>1, <2>1, <2>3, <3>1, <3>2
  <2> QED BY <2>1, <2>2, <2>3
<1>12. CASE GroomJob(s)
  <2>0. /\ thread[s].pc = "grooming" /\ nextID' = nextID
        /\ UNCHANGED <<dbVars, handlerVars, jobDBRequests, disk>>
    BY <1>12 DEF GroomJob, envVars
  <2>1. CASE Go(s, <<>>, "idle", Blank)
    BY <1>1, <2>0, <2>1, ProperNone
  <2>2. ASSUME NEW j \in thread[s].reply,
               Goto(s, GroomRequests(j), "grooming", Blank, thread[s].reply \ {j})
        PROVE  Proved
    <3>0. j \in Job /\ j.id \in Nat
      BY <1>0, <2>2 DEF NumberedJob, Job
    <3>1. ById({j.id}) \in Filter
      BY <3>0 DEF ById, Filter
    <3>2. ASSUME Proper(s, GroomRequests(j), "grooming"),
                 GroomRequests(j) \in Seq(Request)
          PROVE  Proved
      BY <1>2, <2>0, <2>2, <3>2
    <3>3. CASE GroomRequests(j) = <<>>
      BY <3>2, <3>3, ProperNone
    <3>4. CASE IsInstall(j)
               /\ GroomRequests(j) = RemoveQuietly(ById({j.id}), "groom", FALSE)
      BY <3>1, <3>2, <3>4, ProperQuietly DEF Warranted, Markers
    <3>5. CASE GroomRequests(j) = <<ModifyReq(ById({j.id}), [status |-> "error"])>>
      <4> DEFINE q == ModifyReq(ById({j.id}), [status |-> "error"])
      <4>1. q \in Request /\ q.op = "modify"
        BY <3>1 DEF ModifyReq, Request, Update, Status
      <4>2. GroomRequests(j) = <<q>>
        BY <3>5
      <4> HIDE DEF q
      <4>3. Proper(s, <<q>>, "grooming") /\ <<q>> \in Seq(Request)
        BY <4>1, ProperOne
      <4> QED BY <3>2, <4>2, <4>3
    <3> QED BY <3>3, <3>4, <3>5 DEF GroomRequests
  <2> QED BY <1>12, <2>1, <2>2 DEF GroomJob
<1>13. CASE Receive(s)
  BY <1>13, ReceiveTurns DEF Proved
<1> QED BY <1>3, <1>4, <1>5, <1>6, <1>7, <1>8, <1>9, <1>10, <1>11, <1>12, <1>13
       DEF Goroutine

-----------------------------------------------------------------------------
(* The steps of the system, by what they do to jobs and requests.          *)

\* The handler answers the goroutine that waits for it.
Answers(t) ==
  /\ HandleRequest /\ Head(jobDBRequests).op = "query"
  /\ Head(jobDBRequests).slot = t
  /\ thread'[t].pc = thread[t].next /\ thread'[t].next = thread[t].next
  /\ thread'[t].job = thread[t].job /\ thread'[t].todo = thread[t].todo
  /\ thread'[t].reply \subseteq jobDB
  /\ \A s \in Slot \ {t} : thread'[s] = thread[s]
  /\ UNCHANGED dbVars

Takes(t, p) ==
  /\ p \in PendingActions /\ PendingActions' = PendingActions \ {p}
  /\ thread[t].pc = "idle"
  /\ \A s \in Slot \ {t} : thread'[s] = thread[s]
  /\ thread'[t].pc = (IF p.job.status = "done" THEN "done" ELSE "act")
  /\ thread'[t].job = p.job /\ thread'[t].next = "idle"
  /\ thread'[t].todo = <<>> /\ thread'[t].reply = {}
  /\ UNCHANGED <<jobDB, launches, cancelled, disk, nextID, own, jobDBRequests>>

\* The handler prepares or sends requests of its own, time passes, the file is
\* written, LDAP is edited.
Aside ==
  /\ UNCHANGED <<jobDB, PendingActions, launches, cancelled, thread, nextID>>
  /\ disk' \in {disk, jobDB}
  /\ \/ SendOwn
     \/ /\ jobDBRequests' = jobDBRequests
        /\ \/ own' = own
           \/ ProcessPendingActions
           \/ \E job \in batch :
                /\ IsInstall(job)
                /\ own' = RemoveQuietly(Installing(job.macaddress, job.id),
                                        "groom", FALSE)

Launch(job) ==
  /\ job \in batch /\ LaunchJob(job)
  /\ UNCHANGED <<thread, jobDBRequests, own, disk, nextID>>

LEMMA StepKinds ==
  ASSUME TypeOK, TypeOK', PointsReached, CallersHoldNone, [Next]_vars, ~Restart
  PROVE  \/ HandleRequest
         \/ \E s \in Slot : Send(s)
         \/ \E s \in Slot : \E p \in PendingActions : Takes(s, p)
         \/ \E s \in Slot : \E requests, next, job, reply :
              Goto(s, requests, next, job, reply)
                /\ Turn(s, requests, next, job, reply)
         \/ \E job \in batch : Launch(job)
         \/ Aside
<1>1. ASSUME NEW s \in Slot, Goroutine(s) \/ Receive(s), ~Send(s),
             ~TakePending(s)
      PROVE  \E requests, next, job, reply :
               Goto(s, requests, next, job, reply)
                 /\ Turn(s, requests, next, job, reply)
  BY <1>1, GoroutineTurns
<1>2. ASSUME NEW s \in Slot, TakePending(s)
      PROVE  \E p \in PendingActions : Takes(s, p)
  <2>1. PICK p \in PendingActions :
          /\ PendingActions' = PendingActions \ {p}
          /\ thread' = [thread EXCEPT ![s] =
               [Idle EXCEPT !.pc = IF p.job.status = "done" THEN "done" ELSE "act",
                            !.job = p.job, !.keep = p.keep]]
    BY <1>2 DEF TakePending
  <2>2. /\ thread[s].pc = "idle" /\ thread \in [Slot -> Thread]
        /\ UNCHANGED <<jobDB, launches, cancelled, disk, nextID, own,
                       jobDBRequests>>
    BY <1>2 DEF TakePending, Free, TypeOK, handlerVars, envVars
  <2>3. Takes(s, p)
    BY <2>1, <2>2 DEF Takes, Idle
  <2> QED BY <2>3
<1>3. ASSUME NEW job \in batch, LaunchNext(job)
      PROVE  Aside \/ Launch(job)
  <2>1. CASE IsInstall(job)
    BY <1>3, <2>1 DEF LaunchNext, Aside, dbVars, envVars
  <2>2. CASE ~IsInstall(job)
    BY <1>3, <2>2 DEF LaunchNext, Launch, envVars
  <2> QED BY <2>1, <2>2
<1>4. LaunchCleared => \E job \in batch : Launch(job)
  BY DEF LaunchCleared, Launch, envVars, TypeOK
<1>5. SendOwn \/ ProcessPendingActions => Aside
  BY DEF SendOwn, ProcessPendingActions, Aside, dbVars, envVars
<1>6. EditLDAP \/ Tick \/ Persist \/ UNCHANGED vars => Aside
  BY DEF EditLDAP, Tick, Persist, vars, Aside, dbVars, handlerVars
<1> QED BY <1>1, <1>2, <1>3, <1>4, <1>5, <1>6 DEF Next, Handler

\* What the handler's step does to each part.
LEMMA HandleKinds ==
  ASSUME TypeOK, HandleRequest
  PROVE  LET r == Head(jobDBRequests) IN
         /\ jobDBRequests # <<>> /\ jobDBRequests' = Tail(jobDBRequests)
         /\ own = <<>> /\ own' = <<>> /\ r \in Request
         /\ UNCHANGED <<disk, nextID>>
         /\ \/ r.op = "add" /\ AddJob(r)
            \/ r.op = "remove" /\ RemoveLocal(r)
            \/ r.op = "modify" /\ Modify(r)
            \/ r.op = "modify" /\ BeginLaunch(r)
            \/ Answers(r.slot)
<1>1. /\ jobDBRequests # <<>> /\ jobDBRequests' = Tail(jobDBRequests)
      /\ own = <<>> /\ own' = <<>> /\ UNCHANGED <<disk, nextID>>
  BY DEF HandleRequest, HandlerReady, envVars
<1>2. Head(jobDBRequests) \in Request
  BY <1>1, HeadUnderWay
<1>3. ASSUME Head(jobDBRequests).op = "query", AnswerQuery(Head(jobDBRequests))
      PROVE  Answers(Head(jobDBRequests).slot)
  <2>1. Head(jobDBRequests).slot \in Slot /\ thread \in [Slot -> Thread]
    BY <1>2, <1>3, RequestFields DEF TypeOK
  <2> QED BY <1>3, <2>1, QuerySubset DEF AnswerQuery, Answers, Thread
<1> QED BY <1>1, <1>2, <1>3 DEF HandleRequest

-----------------------------------------------------------------------------
(* Where a goroutine can stand, and who waits for a reply.                 *)

PointsOK(s) ==
  /\ thread[s].todo # <<>> => thread[s].pc = "send"
  /\ thread[s].next \notin {"act", "done"}
  /\ thread[s].next \in DonePC => thread[s].pc = thread[s].next
  /\ thread[s].next = "forwarding" => thread[s].pc \in {"send", "forwarding"}
  /\ thread[s].pc = "forwarding" => thread[s].next = "forwarding"
  /\ \A r \in Range(thread[s].todo) : r.op = "query" =>
       r.slot = s /\ thread[s].todo = <<r>> /\ thread[s].next \in AskingPC

\* A goroutine has at most one question in the channel, and it waits.
Asks(q, n) == n \in 1..Len(q) /\ q[n].op = "query"

QuestionsOK ==
  /\ \A n \in Nat : Asks(jobDBRequests, n) =>
       thread[jobDBRequests[n].slot].pc = "await"
  /\ \A n, m \in Nat : (Asks(jobDBRequests, n) /\ Asks(jobDBRequests, m)
       /\ jobDBRequests[n].slot = jobDBRequests[m].slot) => n = m
  /\ \A r \in Range(own) : r.op # "query"

PointsInv == CallersHoldNone /\ QuestionsOK /\ \A s \in Slot : PointsOK(s)

LEMMA PointsInit == Init => PointsInv
<1> SUFFICES ASSUME Init PROVE PointsInv
  OBVIOUS
<1>1. /\ \A s \in Slot : thread[s] = Idle
      /\ jobDBRequests = <<>> /\ own = <<>> /\ Len(<<>>) = 0
  BY DEF Init
<1>2. CallersHoldNone
  BY <1>1 DEF CallersHoldNone, Idle, HereIAmPC
<1>3. QuestionsOK
  BY <1>1, RangeEmpty DEF QuestionsOK, Asks
<1>4. \A s \in Slot : PointsOK(s)
  BY <1>1, RangeEmpty DEF PointsOK, Idle, DonePC
<1> QED BY <1>2, <1>3, <1>4 DEF PointsInv

\* The channel after a step has no more questions than before, or one more.
LEMMA AppendQuestion ==
  ASSUME NEW q \in Seq(Request), NEW r \in Request
  PROVE  /\ \A n \in Nat : Asks(Append(q, r), n) =>
              \/ Asks(q, n) /\ Append(q, r)[n] = q[n]
              \/ n = Len(q) + 1 /\ Append(q, r)[n] = r /\ r.op = "query"
         /\ ~Asks(q, Len(q) + 1)
<1>1. /\ Len(q) \in Nat /\ Len(Append(q, r)) = Len(q) + 1
      /\ \A n \in 1..Len(q) : Append(q, r)[n] = q[n]
      /\ Append(q, r)[Len(q) + 1] = r
  BY AppendProperties, LenProperties
<1> QED BY <1>1 DEF Asks

LEMMA TailQuestion ==
  ASSUME NEW q \in Seq(Request), q # <<>>
  PROVE  \A n \in Nat : Asks(Tail(q), n) =>
           Asks(q, n + 1) /\ Tail(q)[n] = q[n + 1]
<1>1. /\ Len(q) \in Nat /\ Len(q) > 0 /\ Len(Tail(q)) = Len(q) - 1
      /\ \A n \in 1..(Len(q) - 1) : Tail(q)[n] = q[n + 1]
  BY HeadTailProperties, LenProperties
<1> QED BY <1>1 DEF Asks

LEMMA GotoPoints ==
  ASSUME TypeOK, PointsInv, NEW s \in Slot, NEW requests, NEW next, NEW job,
         NEW reply, Goto(s, requests, next, job, reply),
         Turn(s, requests, next, job, reply)
  PROVE  PointsInv'
<1>1. /\ \A t \in Slot \ {s} : thread'[t] = thread[t]
      /\ thread'[s].todo = requests /\ thread'[s].next = next
      /\ thread'[s].pc = IF requests = <<>> THEN next ELSE "send"
      /\ (requests = <<>> /\ next = "idle") \/ thread'[s].job = job
  BY GotoEffect
<1>2. /\ requests \in Seq(Request) /\ Proper(s, requests, next)
      /\ UNCHANGED <<handlerVars, jobDBRequests>>
      /\ thread[s].pc # "await"
      /\ next \in HereIAmPC => job.root = 0
  BY DEF Turn
<1>3. CallersHoldNone'
  BY <1>1, <1>2 DEF CallersHoldNone, PointsInv, HereIAmPC
<1>4. QuestionsOK'
  <2>1. ASSUME NEW n \in Nat, Asks(jobDBRequests, n)
        PROVE  thread'[jobDBRequests[n].slot].pc = "await"
    <3>1. thread[jobDBRequests[n].slot].pc = "await"
      BY <2>1 DEF PointsInv, QuestionsOK
    <3>2. jobDBRequests[n].slot \in Slot
      <4>1. jobDBRequests[n] \in Request
        BY <2>1 DEF TypeOK, Asks
      <4> QED BY <2>1, <4>1, RequestFields DEF Asks
    <3> QED BY <1>1, <1>2, <3>1, <3>2
  <2> QED BY <1>2, <2>1 DEF QuestionsOK, PointsInv, handlerVars, Asks
<1>5. PointsOK(s)'
  <2>1. /\ next \notin {"act", "done"}
        /\ next \in DonePC => requests = <<>>
        /\ next = "forwarding" => thread'[s].pc \in {"send", "forwarding"}
    BY <1>1 DEF Turn
  <2>2. \A r \in Range(requests) : r.op = "query" =>
          r.slot = s /\ requests = <<r>> /\ next \in AskingPC
    BY <1>2 DEF Proper
  <2> QED BY <1>1, <2>1, <2>2 DEF PointsOK
<1>6. \A t \in Slot \ {s} : PointsOK(t)'
  BY <1>1 DEF PointsOK, PointsInv
<1> QED BY <1>3, <1>4, <1>5, <1>6 DEF PointsInv

LEMMA SendPoints ==
  ASSUME TypeOK, PointsInv, NEW s \in Slot, Send(s) PROVE PointsInv'
<1> DEFINE todo == thread[s].todo
           q == jobDBRequests
<1>1. /\ \A t \in Slot \ {s} : thread'[t] = thread[t]
      /\ todo \in Seq(Request) /\ todo # <<>> /\ q \in Seq(Request)
      /\ thread'[s].todo = Tail(todo) /\ thread'[s].next = thread[s].next
      /\ thread[s].pc = "send"
      /\ thread'[s].pc = IF Tail(todo) # <<>> THEN "send"
                         ELSE IF thread[s].next = "idle" THEN "idle"
                         ELSE IF Head(todo).op = "query" THEN "await"
                         ELSE thread[s].next
      /\ thread[s].next = "idle" \/ thread'[s].job = thread[s].job
      /\ q' = Append(q, Head(todo)) /\ own' = own
  BY SendEffect DEF TypeOK
<1>2. /\ Head(todo) \in Range(todo) /\ Range(Tail(todo)) \subseteq Range(todo)
      /\ Head(todo) \in Request
  <2>1. todo \in Seq(Request) /\ todo # <<>>
    BY <1>1
  <2> HIDE DEF todo
  <2>2. Head(todo) \in Request
    BY <2>1
  <2> QED BY <2>1, <2>2, RangeHeadTail
<1>3. ASSUME NEW r \in Range(todo), r.op = "query"
      PROVE  /\ r.slot = s /\ Tail(todo) = <<>> /\ Head(todo) = r
             /\ thread[s].next \in AskingPC
  <2>1. r.slot = s /\ todo = <<r>> /\ thread[s].next \in AskingPC
    BY <1>3 DEF PointsInv, PointsOK
  <2> QED BY <2>1
<1> HIDE DEF todo, q
<1>4. CallersHoldNone'
  BY <1>1 DEF CallersHoldNone, PointsInv, HereIAmPC
<1>5. QuestionsOK'
  <2>1. \A n \in Nat : Asks(q', n) =>
          \/ Asks(q, n) /\ q'[n] = q[n]
          \/ n = Len(q) + 1 /\ q'[n] = Head(todo) /\ Head(todo).op = "query"
    <3>1. \A n \in Nat : Asks(Append(q, Head(todo)), n) =>
            \/ Asks(q, n) /\ Append(q, Head(todo))[n] = q[n]
            \/ /\ n = Len(q) + 1 /\ Append(q, Head(todo))[n] = Head(todo)
               /\ Head(todo).op = "query"
      BY <1>1, <1>2, AppendQuestion
    <3> QED BY <1>1, <3>1
  <2>2. ASSUME NEW n \in Nat, Asks(q, n)
        PROVE  q[n].slot \in Slot /\ q[n].slot # s
                 /\ thread'[q[n].slot].pc = "await"
    <3>1. thread[q[n].slot].pc = "await"
      BY <2>2 DEF PointsInv, QuestionsOK, q
    <3>2. q[n].slot \in Slot
      <4>1. q[n] \in Request
        BY <1>1, <2>2 DEF Asks
      <4> QED BY <2>2, <4>1, RequestFields DEF Asks
    <3> QED BY <1>1, <3>1, <3>2
  <2>3. Head(todo).op = "query" => Head(todo).slot = s /\ thread'[s].pc = "await"
    BY <1>1, <1>2, <1>3 DEF AskingPC
  <2>4. \A n \in Nat : Asks(q', n) => thread'[q'[n].slot].pc = "await"
    BY <2>1, <2>2, <2>3
  <2>5. ASSUME NEW n \in Nat, NEW m \in Nat, Asks(q', n), Asks(q', m),
               q'[n].slot = q'[m].slot
        PROVE  n = m
    <3>1. ASSUME Asks(q, n), Asks(q, m), q'[n] = q[n], q'[m] = q[m]
          PROVE  n = m
      BY <2>5, <3>1 DEF PointsInv, QuestionsOK, q
    <3> QED BY <2>1, <2>2, <2>3, <2>5, <3>1
  <2> QED BY <1>1, <2>4, <2>5 DEF QuestionsOK, PointsInv, q
<1>6. PointsOK(s)'
  <2>1. PointsOK(s)
    BY DEF PointsInv
  <2>2. ASSUME NEW r \in Range(Tail(todo)), r.op = "query" PROVE FALSE
    <3>1. Tail(todo) = <<>>
      BY <1>2, <1>3, <2>2
    <3> QED BY <2>2, <3>1, RangeEmpty
  <2>3. thread[s].next \notin DonePC
    BY <1>1, <2>1 DEF PointsOK, DonePC
  <2>4. thread[s].next = "forwarding" => Head(todo).op # "query"
    BY <1>2, <1>3 DEF AskingPC
  <2> QED BY <1>1, <2>1, <2>2, <2>3, <2>4 DEF PointsOK
<1>7. \A t \in Slot \ {s} : PointsOK(t)'
  BY <1>1 DEF PointsOK, PointsInv
<1> QED BY <1>4, <1>5, <1>6, <1>7 DEF PointsInv

LEMMA HandlePoints ==
  ASSUME TypeOK, PointsInv, HandleRequest PROVE PointsInv'
<1> DEFINE q == jobDBRequests
           r == Head(q)
<1>1. /\ q \in Seq(Request) /\ q # <<>> /\ q' = Tail(q) /\ own' = <<>>
      /\ thread' = thread \/ Answers(r.slot)
      /\ r \in Request
  BY HandleKinds DEF TypeOK, AddJob, RemoveLocal, Modify, BeginLaunch
<1>2. \A n \in Nat : Asks(q', n) => Asks(q, n + 1) /\ q'[n] = q[n + 1]
  BY <1>1, TailQuestion
<1>3. r = q[1] /\ Len(q) \in Nat /\ Len(q) # 0
  BY <1>1
<1>4. \A n, m \in Nat : (Asks(q', n) /\ Asks(q', m)
         /\ q'[n].slot = q'[m].slot) => n = m
  <2>1. ASSUME NEW n \in Nat, NEW m \in Nat, Asks(q, n + 1), Asks(q, m + 1),
               q[n + 1].slot = q[m + 1].slot
        PROVE  n = m
    <3>1. n + 1 = m + 1
      BY <2>1 DEF PointsInv, QuestionsOK
    <3> QED BY <3>1
  <2> QED BY <1>2, <2>1
<1>5. \A n \in Nat : Asks(q, n + 1) => thread[q[n + 1].slot].pc = "await"
  BY DEF PointsInv, QuestionsOK
<1>6. CASE thread' = thread
  <2>1. QuestionsOK'
    BY <1>1, <1>2, <1>4, <1>5, <1>6, RangeEmpty DEF QuestionsOK
  <2> QED BY <1>6, <2>1 DEF PointsInv, PointsOK, CallersHoldNone
<1>7. ASSUME NEW t \in Slot, t = r.slot, Answers(r.slot) PROVE PointsInv'
  <2>1. /\ r.op = "query"
        /\ thread'[t].pc = thread[t].next /\ thread'[t].next = thread[t].next
        /\ thread'[t].job = thread[t].job /\ thread'[t].todo = thread[t].todo
        /\ \A s \in Slot \ {t} : thread'[s] = thread[s]
    BY <1>1, <1>7, RequestFields DEF Answers
  <2>2. Asks(q, 1)
    BY <1>3, <2>1 DEF Asks
  <2>3. thread[t].pc = "await"
    BY <1>3, <1>7, <2>2 DEF PointsInv, QuestionsOK
  <2>4. ASSUME NEW n \in Nat, Asks(q', n)
        PROVE  thread'[q'[n].slot].pc = "await"
    <3>1. Asks(q, n + 1) /\ q'[n] = q[n + 1] /\ n # 0
      BY <1>2, <2>4 DEF Asks
    <3>2. q[n + 1].slot # t
      BY <1>3, <1>7, <2>2, <3>1 DEF PointsInv, QuestionsOK
    <3>3. q[n + 1].slot \in Slot
      <4>1. q[n + 1] \in Request
        BY <1>1, <3>1 DEF Asks
      <4> QED BY <3>1, <4>1, RequestFields DEF Asks
    <3> QED BY <1>5, <2>1, <3>1, <3>2, <3>3
  <2>5. QuestionsOK'
    BY <1>1, <1>4, <2>4, RangeEmpty DEF QuestionsOK
  <2>6. PointsOK(t)'
    <3>1. PointsOK(t)
      BY <2>1 DEF PointsInv
    <3>2. thread[t].todo = <<>>
      BY <2>3, <3>1 DEF PointsOK
    <3>3. thread[t].next \notin DonePC \cup {"forwarding"}
      BY <2>3, <3>1 DEF PointsOK, DonePC
    <3> QED BY <2>1, <3>1, <3>2, <3>3, RangeEmpty DEF PointsOK
  <2>7. \A s \in Slot \ {t} : PointsOK(s)'
    BY <2>1 DEF PointsOK, PointsInv
  <2>8. CallersHoldNone'
    BY <2>1 DEF CallersHoldNone, PointsInv
  <2> QED BY <2>5, <2>6, <2>7, <2>8 DEF PointsInv
<1>8. CASE Answers(r.slot)
  <2>1. r.slot \in Slot
    BY <1>1, <1>8, RequestFields DEF Answers
  <2> QED BY <1>7, <1>8, <2>1
<1> QED BY <1>1, <1>6, <1>8

LEMMA TwoElements ==
  ASSUME NEW a, NEW b, <<a, b>> \in Seq(Request)
  PROVE  a \in Request /\ b \in Request
<1>1. Len(<<a, b>>) = 2 /\ <<a, b>>[1] = a /\ <<a, b>>[2] = b
  OBVIOUS
<1> QED BY <1>1

LEMMA PointsNext ==
  ASSUME TypeOK, PointsReached, PointsInv, [Next]_vars PROVE PointsInv'
<1>0. TypeOK' /\ CallersHoldNone
  BY NextType DEF PointsInv
<1>1. CASE HandleRequest
  BY <1>1, HandlePoints
<1>2. CASE \E s \in Slot : Send(s)
  BY <1>2, SendPoints
<1>3. ASSUME NEW s \in Slot, NEW p \in PendingActions, Takes(s, p)
      PROVE  PointsInv'
  <2>1. CallersHoldNone'
    BY <1>0, <1>3 DEF CallersHoldNone, HereIAmPC, Takes
  <2>2. \A t \in Slot : PointsOK(t)'
    BY <1>3, RangeEmpty DEF PointsInv, PointsOK, Takes, DonePC
  <2>3. ASSUME NEW n \in Nat, Asks(jobDBRequests, n)
        PROVE  thread'[jobDBRequests[n].slot].pc = "await"
    <3>1. thread[jobDBRequests[n].slot].pc = "await"
      BY <2>3 DEF PointsInv, QuestionsOK
    <3>2. jobDBRequests[n].slot \in Slot
      <4>1. jobDBRequests[n] \in Request
        BY <2>3 DEF TypeOK, Asks
      <4> QED BY <2>3, <4>1, RequestFields DEF Asks
    <3> QED BY <1>3, <3>1, <3>2 DEF Takes
  <2>4. QuestionsOK'
    BY <1>3, <2>3 DEF QuestionsOK, PointsInv, Takes
  <2> QED BY <2>1, <2>2, <2>4 DEF PointsInv
<1>4. CASE \E s \in Slot : \E requests, next, job, reply :
             Goto(s, requests, next, job, reply)
               /\ Turn(s, requests, next, job, reply)
  BY <1>4, GotoPoints
<1>5. CASE \E job \in batch : Launch(job)
  BY <1>5 DEF PointsInv, Launch, CallersHoldNone, QuestionsOK, PointsOK, Asks
<1>6. CASE Aside
  <2>1. CallersHoldNone' /\ \A s \in Slot : PointsOK(s)'
    BY <1>6 DEF PointsInv, Aside, CallersHoldNone, PointsOK
  <2>2. CASE jobDBRequests' = jobDBRequests /\ Range(own') \subseteq Range(own)
    BY <1>6, <2>1, <2>2 DEF PointsInv, Aside, QuestionsOK, Asks
  <2>3. CASE SendOwn
    <3>1. /\ own \in Seq(Request) /\ own # <<>> /\ own' = Tail(own)
          /\ jobDBRequests \in Seq(Request)
          /\ jobDBRequests' = Append(jobDBRequests, Head(own))
          /\ thread' = thread
      BY <2>3 DEF SendOwn, TypeOK
    <3>2. /\ Head(own) \in Range(own) /\ Range(own') \subseteq Range(own)
          /\ Head(own) \in Request
      BY <3>1, RangeHeadTail
    <3>3. Head(own).op # "query"
      BY <3>2 DEF PointsInv, QuestionsOK
    <3>4. \A n \in Nat : Asks(jobDBRequests', n) =>
            Asks(jobDBRequests, n) /\ jobDBRequests'[n] = jobDBRequests[n]
      BY <3>1, <3>2, <3>3, AppendQuestion
    <3>5. QuestionsOK'
      BY <3>1, <3>2, <3>4 DEF PointsInv, QuestionsOK
    <3> QED BY <2>1, <3>5 DEF PointsInv
  <2>4. CASE jobDBRequests' = jobDBRequests /\ ProcessPendingActions
    <3> DEFINE a == ModifyReq(DueAt(clock), [status |-> "launch"])
               b == ModifyReq(InWindow(clock, {j.tminus : j \in jobDB}),
                              [status |-> "wakeup"])
    <3>1. own' = <<a, b>> /\ a.op = "modify" /\ b.op = "modify"
      BY <2>4 DEF ProcessPendingActions, ModifyReq
    <3> HIDE DEF a, b
    <3>2. own' \in Seq(Request)
      BY <1>0 DEF TypeOK
    <3>3. a \in Request /\ b \in Request
      BY <3>1, <3>2, TwoElements
    <3>4. \A r \in Range(own') : r.op # "query"
      BY <3>1, <3>3, RangeTwo
    <3> QED BY <1>6, <2>1, <2>4, <3>4 DEF PointsInv, Aside, QuestionsOK, Asks
  <2>5. ASSUME NEW job \in batch, jobDBRequests' = jobDBRequests,
               own' = RemoveQuietly(Installing(job.macaddress, job.id),
                                    "groom", FALSE)
        PROVE  PointsInv'
    <3> DEFINE f == Installing(job.macaddress, job.id)
    <3>1. f \in Filter
      BY <2>5 DEF TypeOK, NumberedJob, Job, Installing, Filter
    <3> DEFINE a == ModifyReq(f, [progress |-> "groom"])
               b == RemoveReq(f, FALSE, TRUE)
    <3>2. Range(own') = {a, b}
      BY <2>5, <3>1, RangeQuietly DEF Markers
    <3>3. a.op = "modify" /\ b.op = "remove"
      BY DEF ModifyReq, RemoveReq
    <3> HIDE DEF a, b
    <3>4. \A r \in Range(own') : r.op # "query"
      BY <3>2, <3>3
    <3> QED BY <1>6, <2>1, <2>5, <3>4 DEF PointsInv, Aside, QuestionsOK, Asks
  <2> QED BY <1>6, <2>2, <2>3, <2>4, <2>5 DEF Aside
<1>7. CASE Restart
  <2>1. /\ \A s \in Slot : thread'[s] = Idle
        /\ jobDBRequests' = <<>> /\ own' = <<>> /\ Len(<<>>) = 0
    BY <1>7 DEF Restart
  <2>2. CallersHoldNone'
    BY <2>1 DEF CallersHoldNone, Idle, HereIAmPC
  <2>3. QuestionsOK'
    BY <2>1, RangeEmpty DEF QuestionsOK, Asks
  <2>4. \A s \in Slot : PointsOK(s)'
    BY <2>1, RangeEmpty DEF PointsOK, Idle, DonePC
  <2> QED BY <2>2, <2>3, <2>4 DEF PointsInv
<1> QED BY <1>0, <1>1, <1>2, <1>3, <1>4, <1>5, <1>6, <1>7, StepKinds

-----------------------------------------------------------------------------
(* SeriesGoesOn: an instance of a series is never between two places, the   *)
(* goroutine that reacts to its removal does nothing else until it has the  *)
(* next one to send, and no request is lost on the way.                     *)

Adding(requests, root) ==
  \E r \in Range(requests) : r.op = "add" /\ r.job.root = root

\* A goroutine that has yet to schedule the next instance.
FollowingUp(s, root) ==
  /\ thread[s].pc \in DonePC
  /\ thread[s].job.root = root /\ thread[s].job.periodic # 0

\* Where the instances of a series are.
Alive(root) ==
  \/ \E j \in jobDB : j.root = root
  \/ Adding(jobDBRequests, root) \/ \E s \in Slot : Adding(thread[s].todo, root)
  \/ \E p \in PendingActions :
       p.job.status = "done" /\ p.job.root = root /\ p.job.periodic # 0
  \/ \E s \in Slot : FollowingUp(s, root)

LEMMA InstancesAlive == \A root : Instances(root) # {} <=> Alive(root)
<1> SUFFICES ASSUME NEW root PROVE Instances(root) # {} <=> Alive(root)
  OBVIOUS
<1>1. (\E k \in Arriving : k.root = root) <=>
        Adding(jobDBRequests, root) \/ \E s \in Slot : Adding(thread[s].todo, root)
  BY DEF Arriving, Adds, Adding, Range
<1>2. (\E q \in DoneEntries : q.job.root = root /\ q.job.periodic # 0) <=>
        \/ \E p \in PendingActions :
             p.job.status = "done" /\ p.job.root = root /\ p.job.periodic # 0
        \/ \E s \in Slot : FollowingUp(s, root)
  BY DEF DoneEntries, ThreadsAt, FollowingUp, DonePC
<1>3. Instances(root) # {} <=>
        \/ \E j \in jobDB : j.root = root
        \/ \E k \in Arriving : k.root = root
        \/ \E q \in DoneEntries : q.job.root = root /\ q.job.periodic # 0
  BY DEF Instances
<1> QED BY <1>1, <1>2, <1>3 DEF Alive

LEMMA InstancesAliveNext == (\A root : Instances(root) # {} <=> Alive(root))'
BY InstancesAlive, PTL

\* The series has been ended by somebody, or was of one job.
Ended(root) ==
  \/ root \in cancelled'
  \/ \E j \in jobDB : j.root = root /\ j.periodic = 0

LEMMA HandleSeries ==
  ASSUME TypeOK, TypeOK', PointsInv, HandleRequest, NEW root, Alive(root)
  PROVE  Alive(root)' \/ Ended(root)
<1> DEFINE r == Head(jobDBRequests)
<1>1. /\ jobDBRequests \in Seq(Request) /\ jobDBRequests # <<>> /\ r \in Request
      /\ jobDBRequests' = Tail(jobDBRequests)
      /\ Range(jobDBRequests) = {r} \cup Range(Tail(jobDBRequests))
  BY HandleKinds, RangeHeadTail DEF TypeOK
<1>2. /\ thread' = thread \/ Answers(r.slot)
      /\ r.op = "add" => r.job \in jobDB'
      /\ PendingActions \subseteq PendingActions'
  BY HandleKinds DEF AddJob, RemoveLocal, Modify, BeginLaunch, Answers, dbVars
<1>3. ASSUME NEW s \in Slot
      PROVE  /\ thread'[s].todo = thread[s].todo
             /\ thread[s].pc \in DonePC => thread'[s] = thread[s]
  <2>1. CASE thread' = thread
    BY <2>1
  <2>2. CASE Answers(r.slot)
    <3>1. r.op = "query" /\ r.slot \in Slot
      BY <1>1, <2>2, RequestFields DEF Answers
    <3>2. r = jobDBRequests[1] /\ Len(jobDBRequests) \in Nat \ {0}
      BY <1>1
    <3>3. thread[r.slot].pc = "await"
      BY <3>1, <3>2 DEF PointsInv, QuestionsOK, Asks
    <3> QED BY <2>2, <3>1, <3>3 DEF Answers, DonePC
  <2> QED BY <1>2, <2>1, <2>2
<1>4. CASE Adding(jobDBRequests, root)
  BY <1>1, <1>2, <1>4 DEF Adding, Alive
<1>5. CASE \E s \in Slot : Adding(thread[s].todo, root)
  BY <1>3, <1>5 DEF Adding, Alive
<1>6. CASE \E p \in PendingActions :
             p.job.status = "done" /\ p.job.root = root /\ p.job.periodic # 0
  BY <1>2, <1>6 DEF Alive
<1>7. CASE \E s \in Slot : FollowingUp(s, root)
  BY <1>3, <1>7 DEF FollowingUp, Alive
<1>8. ASSUME NEW j \in jobDB, j.root = root PROVE Alive(root)' \/ Ended(root)
  <2>0. j \in Job
    BY DEF TypeOK, NumberedJob
  <2>1. CASE r.op = "remove" /\ RemoveLocal(r)
    <3>1. CASE j \in jobDB'
      BY <1>8, <3>1 DEF Alive
    <3>2. CASE j \notin jobDB' /\ r.stop
      BY <1>8, <2>1, <3>2 DEF RemoveLocal, Ended
    <3>3. CASE j \notin jobDB' /\ ~r.stop /\ j.periodic # 0
      <4> DEFINE p == [job |-> Done(j, r.stop), keep |-> r.keep, nth |-> 0]
      <4>1. p \in PendingActions'
        BY <2>1, <3>3 DEF RemoveLocal
      <4>2. /\ p.job.status = "done" /\ p.job.root = root
            /\ p.job.periodic = j.periodic
        BY <1>8, <2>0, <3>3 DEF Done, Job
      <4> QED BY <3>3, <4>1, <4>2 DEF Alive
    <3> QED BY <1>8, <3>1, <3>2, <3>3 DEF Ended
  <2>2. CASE r.op = "modify" /\ Modify(r)
    <3>1. j \in jobDB' \/ Apply(j, r.update) \in jobDB'
      BY <2>2 DEF Modify
    <3>2. Apply(j, r.update).root = root
      BY <1>8, <2>0 DEF Apply, Job
    <3> QED BY <1>8, <3>1, <3>2 DEF Alive
  <2>3. CASE j \in jobDB'
    BY <1>8, <2>3 DEF Alive
  <2> QED BY <2>1, <2>2, <2>3, HandleKinds DEF AddJob, BeginLaunch, Answers, dbVars
<1> QED BY <1>4, <1>5, <1>6, <1>7, <1>8 DEF Alive

LEMMA TurnSeries ==
  ASSUME TypeOK, PointsInv, NEW s \in Slot, NEW requests, NEW next, NEW job,
         NEW reply, Goto(s, requests, next, job, reply),
         Turn(s, requests, next, job, reply), NEW root, Alive(root)
  PROVE  Alive(root)'
<1>1. /\ \A t \in Slot \ {s} : thread'[t] = thread[t]
      /\ thread'[s].todo = requests
      /\ thread'[s].pc = IF requests = <<>> THEN next ELSE "send"
      /\ (requests = <<>> /\ next = "idle") \/ thread'[s].job = job
  BY GotoEffect
<1>2. UNCHANGED <<jobDB, PendingActions, jobDBRequests>>
  BY DEF Turn, dbVars
<1>3. thread[s].todo = <<>>
  BY DEF PointsInv, PointsOK, Turn
<1>4. ~Adding(thread[s].todo, root)
  BY <1>3, RangeEmpty DEF Adding
<1>5. FollowingUp(s, root) => FollowingUp(s, root)' \/ Adding(thread'[s].todo, root)
  <2>1. CASE thread[s].pc \in {"done", "setlocal"}
    BY <1>1, <2>1 DEF Turn, FollowingUp, DonePC
  <2>2. CASE FollowingUp(s, root) /\ thread[s].pc = "followup"
    BY <1>1, <2>2 DEF Turn, FollowingUp, Adding
  <2> QED BY <2>1, <2>2 DEF FollowingUp, DonePC
<1>6. \A t \in Slot \ {s} : /\ FollowingUp(t, root) => FollowingUp(t, root)'
                            /\ Adding(thread[t].todo, root) =>
                                 Adding(thread'[t].todo, root)
  BY <1>1 DEF FollowingUp
<1> QED BY <1>2, <1>4, <1>5, <1>6 DEF Alive

LEMMA SendSeries ==
  ASSUME TypeOK, PointsInv, NEW s \in Slot, Send(s), NEW root, Alive(root)
  PROVE  Alive(root)'
<1>1. /\ \A t \in Slot \ {s} : thread'[t] = thread[t]
      /\ thread[s].todo \in Seq(Request) /\ thread[s].todo # <<>>
      /\ thread'[s].todo = Tail(thread[s].todo) /\ thread[s].pc = "send"
      /\ jobDBRequests \in Seq(Request)
      /\ jobDBRequests' = Append(jobDBRequests, Head(thread[s].todo))
      /\ UNCHANGED <<jobDB, PendingActions>>
  BY SendEffect DEF TypeOK
<1>2. /\ Range(thread[s].todo) = {Head(thread[s].todo)} \cup Range(thread'[s].todo)
      /\ Range(jobDBRequests') = Range(jobDBRequests) \cup {Head(thread[s].todo)}
  BY <1>1, RangeHeadTail, RangeAppend
<1>3. /\ Adding(jobDBRequests, root) => Adding(jobDBRequests', root)
      /\ Adding(thread[s].todo, root) =>
           Adding(jobDBRequests', root) \/ Adding(thread'[s].todo, root)
      /\ ~FollowingUp(s, root)
  BY <1>1, <1>2 DEF Adding, FollowingUp, DonePC
<1>4. \A t \in Slot \ {s} : /\ FollowingUp(t, root) => FollowingUp(t, root)'
                            /\ Adding(thread[t].todo, root) =>
                                 Adding(thread'[t].todo, root)
  BY <1>1 DEF FollowingUp
<1> QED BY <1>1, <1>3, <1>4 DEF Alive

LEMMA TakesSeries ==
  ASSUME TypeOK, PointsInv, NEW s \in Slot, NEW p \in PendingActions,
         Takes(s, p), NEW root, Alive(root)
  PROVE  Alive(root)'
<1>1. /\ thread[s].pc = "idle" /\ PendingActions' = PendingActions \ {p}
      /\ \A t \in Slot \ {s} : thread'[t] = thread[t]
      /\ thread'[s].pc = (IF p.job.status = "done" THEN "done" ELSE "act")
      /\ thread'[s].job = p.job
      /\ UNCHANGED <<jobDB, jobDBRequests>>
  BY DEF Takes
<1>2. thread[s].todo = <<>>
  BY <1>1 DEF PointsInv, PointsOK
<1>3. ~Adding(thread[s].todo, root) /\ ~FollowingUp(s, root)
  BY <1>1, <1>2, RangeEmpty DEF Adding, FollowingUp, DonePC
<1>4. (p.job.status = "done" /\ p.job.root = root /\ p.job.periodic # 0) =>
        FollowingUp(s, root)'
  BY <1>1 DEF FollowingUp, DonePC
<1>5. \A t \in Slot \ {s} : /\ FollowingUp(t, root) => FollowingUp(t, root)'
                            /\ Adding(thread[t].todo, root) =>
                                 Adding(thread'[t].todo, root)
  BY <1>1 DEF FollowingUp
<1> QED BY <1>1, <1>3, <1>4, <1>5 DEF Alive

LEMMA StepSeries ==
  ASSUME IdInv, PointsReached, PointsInv, [Next]_vars, ~Restart,
         NEW root, Alive(root)
  PROVE  Alive(root)' \/ Ended(root)
<1>0. TypeOK /\ TypeOK' /\ CallersHoldNone
  BY NextType DEF IdInv, PointsInv
<1>1. CASE HandleRequest
  BY <1>0, <1>1, HandleSeries
<1>2. CASE \E s \in Slot : Send(s)
  BY <1>0, <1>2, SendSeries
<1>3. CASE \E s \in Slot : \E p \in PendingActions : Takes(s, p)
  BY <1>0, <1>3, TakesSeries
<1>4. CASE \E s \in Slot : \E requests, next, job, reply :
             Goto(s, requests, next, job, reply)
               /\ Turn(s, requests, next, job, reply)
  BY <1>0, <1>4, TurnSeries
<1>5. ASSUME NEW job \in batch, Launch(job) PROVE Alive(root)'
  <2>1. /\ UNCHANGED <<thread, jobDBRequests>>
        /\ jobDB' = {j \in jobDB : j.id # job.id} \cup {Launched(job)}
        /\ PendingActions \subseteq PendingActions'
    BY <1>5 DEF Launch, LaunchJob
  <2>2. Launched(job).root = job.root
    BY <1>0 DEF Launched, TypeOK, NumberedJob, Job
  <2>3. \A j \in jobDB : j.id = job.id => j.root = job.root
    BY <1>5 DEF IdInv, HandlerHolds, JobsDistinct
  <2>4. \A j \in jobDB : j.root = root => \E k \in jobDB' : k.root = root
    BY <2>1, <2>2, <2>3
  <2> QED BY <2>1, <2>4 DEF Alive, FollowingUp
<1>6. CASE Aside
  <2>1. Range(jobDBRequests) \subseteq Range(jobDBRequests')
    <3>1. CASE SendOwn
      <4>1. /\ own \in Seq(Request) /\ own # <<>> /\ jobDBRequests \in Seq(Request)
            /\ jobDBRequests' = Append(jobDBRequests, Head(own))
        BY <1>0, <3>1 DEF SendOwn, TypeOK
      <4> QED BY <4>1, RangeHeadTail, RangeAppend
    <3> QED BY <1>6, <3>1 DEF Aside
  <2> QED BY <1>6, <2>1 DEF Aside, Alive, Adding, FollowingUp
<1> QED BY <1>0, <1>1, <1>2, <1>3, <1>4, <1>5, <1>6, StepKinds

\* A series of which the database, the channel, the action loop or a goroutine
\* holds an instance has one in the next state too, unless stop_periodic=true
\* ends it, its job is not periodic or the server restarts from an older file
\* (JobsRemoveLocal, the done branch of process_act.go).
THEOREM SeriesKept == Spec => SeriesGoesOn
<1> DEFINE Inv == IdInv /\ LaunchInv /\ PointsInv
           Kept == Restart \/ \A root \in 1..MaxID :
                     (Instances(root) # {} /\ Instances(root)' = {}) =>
                       \/ root \in cancelled'
                       \/ \E j \in jobDB : j.root = root /\ j.periodic = 0
<1>1. Init => Inv
  BY InitIds, LaunchInvInit, PointsInit
<1>2. Inv /\ [Next]_vars => Inv'
  BY NextIds, LaunchInvNext, PointsNext DEF LaunchInv
<1>3. Inv /\ [Next]_vars => [Kept]_vars
  <2> SUFFICES ASSUME Inv, [Next]_vars, ~Restart, NEW root \in 1..MaxID,
                      Instances(root) # {}, Instances(root)' = {}
               PROVE  Ended(root)
    BY DEF Ended
  <2>1. Alive(root)
    BY InstancesAlive
  <2>2. ~Alive(root)'
    BY InstancesAliveNext
  <2> QED BY <2>1, <2>2, StepSeries DEF LaunchInv
<1> HIDE DEF Kept, Inv
<1>4. Spec => [][Kept]_vars
  BY <1>1, <1>2, <1>3, PTL DEF Spec
<1> QED BY <1>4 DEF SeriesGoesOn, Kept

-----------------------------------------------------------------------------
(* AtMostOneInstance.  A series is carried by its job in the database and   *)
(* by at most one other holder: a removal it follows, a request to add it   *)
(* or, with forwarding, an action that may bring it back.  The forwarded    *)
(* job is the delicate case: it is in the database and on its way at the    *)
(* same time, and only the order of the requests in the channel keeps the   *)
(* old job from meeting the new one.                                        *)

Forwards == "forward" \in Messages

\* What must not be combined with forwarding: a job that is launched twice is
\* forwarded twice, and a removal that lets the series go on while the job is
\* on its way to a peer leaves both with a next instance.
ForwardsAlone ==
  Forwards => /\ Messages \cap {"progress", "hia", "resume", "reschedule"} = {}
              /\ NewTags \cap InstallTags = {}
              /\ TMinuses \subseteq {0}

Plain(x) == ~IsInstall(x) /\ x.tminus = 0

\* A series is named by the id of its first job.
Sane(x) == x.root <= x.id /\ x.id < nextID /\ (Forwards => Plain(x))

SeenInv ==
  /\ \A x \in jobDB \cup disk : Sane(x)
  /\ \A r \in UnderWay : r.op = "add" => Sane(r.job)
  /\ \A p \in PendingActions : Sane(p.job)
  /\ \A s \in Slot : /\ Sane(thread[s].job)
                     /\ \A x \in thread[s].reply : Forwards => Plain(x)

\* Entries of PendingActions and goroutines that may bring a job back: the
\* ones that act, and may forward it in vain, and the ones that follow it up.
Live(p) == Forwards /\ p.job.status # "done"
Follows(p) == p.job.status = "done" /\ p.job.periodic # 0
LiveAt(s) == Forwards /\ (thread[s].pc = "act" \/ thread[s].next = "forwarding")
FollowsAt(s) == thread[s].pc \in DonePC /\ thread[s].job.periodic # 0

LiveJobs == {p.job : p \in {x \in PendingActions : Live(x)}}
              \cup {thread[s].job : s \in {t \in Slot : LiveAt(t)}}
FollowJobs == {p.job : p \in {x \in PendingActions : Follows(x)}}
                \cup {thread[s].job : s \in {t \in Slot : FollowsAt(t)}}

\* The holders of a series outside the database.
PendingOf(root) ==
  {p \in PendingActions : (Live(p) \/ Follows(p)) /\ p.job.root = root}
HoldersOf(root) ==
  {s \in Slot : (LiveAt(s) \/ FollowsAt(s)) /\ thread[s].job.root = root}
AddsOf(root) == {r \in UnderWay : r.op = "add" /\ r.job.root = root}

Carries(root) ==
       {<<"pending", p>> : p \in PendingOf(root)}
  \cup {<<"thread", s>> : s \in HoldersOf(root)}
  \cup {<<"add", r.job.id>> : r \in AddsOf(root)}

Once(S) == \A x, y \in S : x = y

Ran(i) == i \in 1..MaxID /\ launches[i] > 0

Removes(r, i) == r.op = "remove" /\ r.filter = ById({i})

CarriedOnce == \A root \in Nat : Once(Carries(root))

StoredOnce ==
  /\ \A j, k \in jobDB : j.root = k.root => j = k
  /\ \A j, k \in disk : j.root = k.root => j = k

\* A job of the database has no follow-up, and what acts on its series acts on
\* the job itself.
StoredApart ==
  \A j \in jobDB : /\ \A f \in FollowJobs : f.root # j.root
                   /\ \A l \in LiveJobs : l.root = j.root <=> l.id = j.id

LiveRan == \A l \in LiveJobs : Ran(l.id)

\* A goroutine that forwards has sent for the removal of the job, or will.
ForwardsRemove ==
  \A s \in Slot : (Forwards /\ thread[s].next = "forwarding") =>
    \A j \in jobDB : j.id = thread[s].job.id =>
      \E r \in Range(jobDBRequests) \cup Range(thread[s].todo) : Removes(r, j.id)

\* A job whose series is about to be added is removed before that.
AddsWaitFor(j) ==
  /\ \A n \in 1..Len(jobDBRequests) :
       (jobDBRequests[n].op = "add" /\ jobDBRequests[n].job.root = j.root) =>
         /\ Forwards /\ Ran(j.id)
         /\ \E m \in 1..(n - 1) : Removes(jobDBRequests[m], j.id)
  /\ \A s \in Slot : \A r \in Range(thread[s].todo) :
       (r.op = "add" /\ r.job.root = j.root) =>
         /\ Forwards /\ Ran(j.id)
         /\ \E q \in Range(jobDBRequests) : Removes(q, j.id)

AddsWait == \A j \in jobDB : AddsWaitFor(j)

\* The action is over and nothing else carries the series.
Spent(i) == Ran(i) /\ \A j \in jobDB : j.id = i => Carries(j.root) = {}

RemovalsSpent ==
  Forwards => \A r \in UnderWay : (r.op = "remove" /\ ~r.stop) =>
                \E i \in 1..MaxID : r.filter = ById({i}) /\ Spent(i)

Single == /\ CarriedOnce /\ StoredOnce /\ StoredApart /\ LiveRan
          /\ ForwardsRemove /\ AddsWait /\ RemovalsSpent

\* What is proved already.
Foundations ==
  /\ IdInv /\ LaunchInv /\ PointsInv
  /\ Forwards => OnceInv

LEMMA FoundationsNext ==
  ASSUME ForwardsAlone, Foundations, [Next]_vars PROVE Foundations'
<1>1. TypeOK /\ PointsReached
  BY DEF Foundations, LaunchInv
<1>2. IdInv' /\ LaunchInv' /\ PointsInv'
  BY <1>1, NextIds, LaunchInvNext, PointsNext DEF Foundations
<1>3. Forwards => OnceInv'
  BY OnceInvNext DEF Foundations, ForwardsAlone
<1> QED BY <1>2, <1>3 DEF Foundations, Forwards

\* Where the adds of a step come from.
LEMMA AddOrigin ==
  ASSUME Foundations, TypeOK', [Next]_vars, ~Restart,
         NEW q \in UnderWay', q.op = "add", q \notin UnderWay
  PROVE  \E s \in Slot : \E requests, next, job, reply :
           /\ Goto(s, requests, next, job, reply)
           /\ Turn(s, requests, next, job, reply)
           /\ q \in Range(requests) /\ Derived(s, q.job)
<1>0. TypeOK /\ PointsReached /\ CallersHoldNone /\ HandlerHolds
  BY DEF Foundations, LaunchInv, PointsInv, IdInv
<1>1. CASE HandleRequest \/ SendOwn
  BY <1>0, <1>1, HandlerRequests
<1>2. CASE \E s \in Slot : Send(s)
  BY <1>0, <1>2, SendRequests
<1>3. ASSUME NEW s \in Slot, NEW p \in PendingActions, Takes(s, p)
      PROVE  FALSE
  <2>1. /\ Range(thread'[s].todo) = {} /\ UNCHANGED <<own, jobDBRequests>>
        /\ \A t \in Slot \ {s} : thread'[t] = thread[t]
    BY <1>3, RangeEmpty DEF Takes
  <2> QED BY <2>1 DEF UnderWay
<1>4. ASSUME NEW s \in Slot, NEW requests, NEW next, NEW job, NEW reply,
             Goto(s, requests, next, job, reply),
             Turn(s, requests, next, job, reply)
      PROVE  q \in Range(requests) /\ Derived(s, q.job)
  <2>1. q \in Range(requests)
    BY <1>0, <1>4, GotoRequests DEF Turn, handlerVars
  <2> QED BY <1>4, <2>1 DEF Turn, Proper
<1>5. ASSUME NEW job \in batch, Launch(job) PROVE FALSE
  BY <1>5 DEF Launch, UnderWay
<1>6. CASE Aside /\ ~SendOwn
  <2>1. UNCHANGED <<jobDBRequests, thread>> /\ q \in Range(own')
    BY <1>6 DEF Aside, UnderWay
  <2>2. own \in Seq(Request) /\ own' \in Seq(Request)
    BY <1>0 DEF TypeOK
  <2>3. HandlerHolds'
    <3>1. CASE own' = own
      BY <1>6, <2>1, <3>1 DEF UnderWay
    <3>2. CASE ProcessPendingActions
      <4> DEFINE a == ModifyReq(DueAt(clock), [status |-> "launch"])
                 b == ModifyReq(InWindow(clock, {j.tminus : j \in jobDB}),
                                [status |-> "wakeup"])
      <4>1. own' = <<a, b>> /\ a.op = "modify" /\ b.op = "modify"
        BY <3>2 DEF ProcessPendingActions, ModifyReq
      <4> HIDE DEF a, b
      <4>2. a \in Request /\ b \in Request
        BY <2>2, <4>1, TwoElements
      <4> QED BY <2>1, <4>1, <4>2, RangeTwo
    <3>3. ASSUME NEW job \in batch,
                 own' = RemoveQuietly(Installing(job.macaddress, job.id),
                                      "groom", FALSE)
          PROVE  FALSE
      <4> DEFINE f == Installing(job.macaddress, job.id)
                 a == ModifyReq(f, [progress |-> "groom"])
                 b == RemoveReq(f, FALSE, TRUE)
      <4>1. own' = <<a, b>> /\ a.op = "modify" /\ b.op = "remove"
        BY <3>3 DEF RemoveQuietly, ModifyReq, RemoveReq
      <4> HIDE DEF a, b
      <4>2. a \in Request /\ b \in Request
        BY <2>2, <4>1, TwoElements
      <4> QED BY <2>1, <4>1, <4>2, RangeTwo
    <3> QED BY <1>6, <3>1, <3>2, <3>3 DEF Aside
  <2> QED BY <2>1, <2>3 DEF HandlerHolds, Range
<1> QED BY <1>0, <1>1, <1>2, <1>3, <1>4, <1>5, <1>6, StepKinds

\* The handler's step leaves the goroutines with what they hold.
LEMMA HandleHolders ==
  ASSUME TypeOK, PointsInv, HandleRequest, NEW s \in Slot
  PROVE  /\ thread'[s].job = thread[s].job /\ thread'[s].todo = thread[s].todo
         /\ thread'[s].next = thread[s].next
         /\ thread'[s].reply \subseteq jobDB \cup thread[s].reply
         /\ LiveAt(s)' => LiveAt(s)
         /\ FollowsAt(s)' => FollowsAt(s)
<1> DEFINE r == Head(jobDBRequests)
<1>1. /\ jobDBRequests \in Seq(Request) /\ jobDBRequests # <<>> /\ r \in Request
      /\ thread' = thread \/ Answers(r.slot)
  BY HandleKinds DEF TypeOK, AddJob, RemoveLocal, Modify, BeginLaunch
<1>2. CASE thread' = thread
  BY <1>2 DEF LiveAt, FollowsAt
<1>3. CASE Answers(r.slot)
  <2>1. r.op = "query" /\ r.slot \in Slot
    BY <1>1, <1>3, RequestFields DEF Answers
  <2>2. r = jobDBRequests[1] /\ Len(jobDBRequests) \in Nat \ {0}
    BY <1>1
  <2>3. thread[r.slot].pc = "await"
    BY <2>1, <2>2 DEF PointsInv, QuestionsOK, Asks
  <2>4. thread[r.slot].next \notin {"act"} \cup DonePC
    BY <2>1, <2>3 DEF PointsInv, PointsOK, DonePC
  <2>5. CASE s = r.slot
    BY <1>3, <2>3, <2>4, <2>5 DEF Answers, LiveAt, FollowsAt
  <2>6. CASE s # r.slot
    BY <1>3, <2>6 DEF Answers, LiveAt, FollowsAt
  <2> QED BY <2>5, <2>6
<1> QED BY <1>1, <1>2, <1>3

LEMMA TurnHolders ==
  ASSUME TypeOK, PointsInv, NEW s \in Slot, NEW requests, NEW next, NEW job,
         NEW reply, Goto(s, requests, next, job, reply),
         Turn(s, requests, next, job, reply)
  PROVE  /\ LiveAt(s)' => /\ LiveAt(s) /\ thread'[s].job = thread[s].job
                          /\ thread'[s].next = "forwarding"
                          /\ thread[s].pc = "act"
         /\ FollowsAt(s)' => /\ FollowsAt(s) /\ thread'[s].job = thread[s].job
                             /\ requests = <<>>
<1>1. /\ thread'[s].todo = requests /\ thread'[s].next = next
      /\ thread'[s].pc = IF requests = <<>> THEN next ELSE "send"
      /\ (requests = <<>> /\ next = "idle") \/ thread'[s].job = job
  BY GotoEffect
<1>2. ASSUME LiveAt(s)' PROVE /\ LiveAt(s) /\ thread'[s].job = thread[s].job
                              /\ next = "forwarding" /\ thread[s].pc = "act"
  <2>1. next = "forwarding"
    BY <1>1, <1>2 DEF LiveAt, Turn
  <2> QED BY <1>1, <1>2, <2>1 DEF LiveAt, Turn
<1>3. ASSUME FollowsAt(s)' PROVE /\ FollowsAt(s) /\ requests = <<>>
                                 /\ thread'[s].job = thread[s].job
  <2>1. next \in DonePC /\ requests = <<>>
    BY <1>1, <1>3 DEF FollowsAt, DonePC, Turn
  <2> QED BY <1>1, <1>3, <2>1 DEF FollowsAt, Turn, DonePC
<1> QED BY <1>1, <1>2, <1>3

\* What a goroutine holds after a step it held before, or takes.
LEMMA HolderOrigin ==
  ASSUME Foundations, TypeOK', [Next]_vars, ~Restart, NEW s \in Slot
  PROVE  /\ LiveAt(s)' =>
              \/ LiveAt(s) /\ thread'[s].job = thread[s].job
              \/ \E p \in PendingActions :
                   Takes(s, p) /\ Live(p) /\ thread'[s].job = p.job
         /\ FollowsAt(s)' =>
              \/ FollowsAt(s) /\ thread'[s].job = thread[s].job
              \/ \E p \in PendingActions :
                   Takes(s, p) /\ Follows(p) /\ thread'[s].job = p.job
<1>0. TypeOK /\ PointsReached /\ CallersHoldNone /\ PointsInv
  BY DEF Foundations, LaunchInv, PointsInv
<1>1. CASE HandleRequest
  BY <1>0, <1>1, HandleHolders
<1>2. ASSUME NEW t \in Slot, Send(t)
      PROVE  /\ LiveAt(s)' => LiveAt(s) /\ thread'[s].job = thread[s].job
             /\ FollowsAt(s)' => FollowsAt(s) /\ thread'[s].job = thread[s].job
  <2>1. CASE s # t
    BY <1>0, <1>2, <2>1, SendEffect DEF LiveAt, FollowsAt
  <2>2. CASE s = t
    <3>1. /\ thread[s].pc = "send" /\ thread[s].next \notin {"act"} \cup DonePC
      BY <1>0, <1>2, <2>2, SendEffect DEF PointsInv, PointsOK, DonePC
    <3>2. /\ thread'[s].pc \in {"send", "idle", "await", thread[s].next}
          /\ thread'[s].next = thread[s].next
          /\ thread[s].next = "idle" \/ thread'[s].job = thread[s].job
      BY <1>0, <1>2, <2>2, SendEffect
    <3> QED BY <3>1, <3>2 DEF LiveAt, FollowsAt, DonePC
  <2> QED BY <2>1, <2>2
<1>3. ASSUME NEW t \in Slot, NEW p \in PendingActions, Takes(t, p)
      PROVE  /\ LiveAt(s)' =>
                  \/ LiveAt(s) /\ thread'[s].job = thread[s].job
                  \/ Takes(s, p) /\ Live(p) /\ thread'[s].job = p.job
             /\ FollowsAt(s)' =>
                  \/ FollowsAt(s) /\ thread'[s].job = thread[s].job
                  \/ Takes(s, p) /\ Follows(p) /\ thread'[s].job = p.job
  <2>1. CASE s # t
    BY <1>3, <2>1 DEF Takes, LiveAt, FollowsAt
  <2>2. CASE s = t
    BY <1>3, <2>2 DEF Takes, LiveAt, FollowsAt, Live, Follows, DonePC
  <2> QED BY <2>1, <2>2
<1>4. ASSUME NEW t \in Slot, NEW requests, NEW next, NEW job, NEW reply,
             Goto(t, requests, next, job, reply),
             Turn(t, requests, next, job, reply)
      PROVE  /\ LiveAt(s)' => LiveAt(s) /\ thread'[s].job = thread[s].job
             /\ FollowsAt(s)' => FollowsAt(s) /\ thread'[s].job = thread[s].job
  <2>1. CASE s # t
    BY <1>0, <1>4, <2>1, GotoEffect DEF LiveAt, FollowsAt
  <2>2. CASE s = t
    BY <1>0, <1>4, <2>2, TurnHolders
  <2> QED BY <2>1, <2>2
<1>5. CASE Aside \/ \E job \in batch : Launch(job)
  BY <1>5 DEF Aside, Launch, LiveAt, FollowsAt
<1> QED BY <1>0, <1>1, <1>2, <1>3, <1>4, <1>5, StepKinds

\* Where the entries of PendingActions come from.
LEMMA PendingOrigin ==
  ASSUME Foundations, TypeOK', [Next]_vars, ~Restart,
         NEW p \in PendingActions', p \notin PendingActions
  PROVE  \/ /\ HandleRequest /\ Head(jobDBRequests).op = "remove"
            /\ RemoveLocal(Head(jobDBRequests))
            /\ \E j \in Query(jobDB, Head(jobDBRequests).filter) :
                 p = [job |-> Done(j, Head(jobDBRequests).stop),
                      keep |-> Head(jobDBRequests).keep, nth |-> 0]
         \/ /\ HandleRequest /\ Head(jobDBRequests).op = "modify"
            /\ p.job.status = "wakeup"
            /\ \E j \in jobDB : /\ Accepts(Head(jobDBRequests).filter, j)
                                /\ p.job = Apply(j, Head(jobDBRequests).update)
            /\ "status" \in DOMAIN Head(jobDBRequests).update
            /\ Head(jobDBRequests).update.status = "wakeup"
         \/ \E job \in batch : Launch(job) /\ p.job = Launched(job)
<1>0. TypeOK /\ PointsReached /\ CallersHoldNone /\ PointsInv
  BY DEF Foundations, LaunchInv, PointsInv
<1>1. CASE HandleRequest
  <2> DEFINE r == Head(jobDBRequests)
  <2>1. CASE r.op = "remove" /\ RemoveLocal(r)
    BY <1>1, <2>1 DEF RemoveLocal
  <2>2. CASE r.op = "modify" /\ Modify(r)
    <3>1. PICK j \in Query(jobDB, r.filter) :
            /\ "status" \in DOMAIN r.update /\ r.update.status = "wakeup"
            /\ p.job = Apply(j, r.update)
      BY <2>2 DEF Modify
    <3>2. j \in jobDB /\ Accepts(r.filter, j) /\ j \in Job
      BY <1>0 DEF Query, TypeOK, NumberedJob
    <3>3. p.job.status = "wakeup"
      BY <3>1, <3>2 DEF Apply, Job
    <3> QED BY <1>1, <2>2, <3>1, <3>2, <3>3
  <2> QED BY <1>0, <1>1, <2>1, <2>2, HandleKinds
         DEF AddJob, BeginLaunch, Answers, dbVars
<1>2. ~(\E s \in Slot : Send(s))
  BY <1>0, SendEffect
<1>3. ~Aside /\ \A s \in Slot : \A x \in PendingActions : ~Takes(s, x)
  BY DEF Aside, Takes
<1>4. ASSUME NEW s, NEW requests, NEW next, NEW job, NEW reply,
             Turn(s, requests, next, job, reply)
      PROVE  FALSE
  BY <1>4 DEF Turn, dbVars
<1>5. ASSUME NEW job \in batch, Launch(job) PROVE p.job = Launched(job)
  BY <1>5 DEF Launch, LaunchJob
<1> QED BY <1>0, <1>1, <1>2, <1>3, <1>4, <1>5, StepKinds

\* What a goroutine holds and has been told after a step.
LEMMA ThreadOrigin ==
  ASSUME Foundations, TypeOK', [Next]_vars, ~Restart, NEW s \in Slot
  PROVE  /\ \/ thread'[s].job \in {thread[s].job, Blank}
            \/ \E p \in PendingActions : thread'[s].job = p.job
            \/ /\ thread'[s].job.id = 0 /\ thread'[s].job.root = 0
               /\ "hia" \in Messages
         /\ thread'[s].reply \subseteq thread[s].reply \cup jobDB
         /\ nextID' \in {nextID, nextID + 1} /\ disk' \in {disk, jobDB}
<1>0. TypeOK /\ PointsReached /\ CallersHoldNone /\ PointsInv
  BY DEF Foundations, LaunchInv, PointsInv
<1>1. CASE HandleRequest
  BY <1>0, <1>1, HandleHolders, HandleKinds
<1>2. ASSUME NEW t \in Slot, Send(t)
      PROVE  /\ thread'[s].job \in {thread[s].job, Blank}
             /\ thread'[s].reply \subseteq thread[s].reply
             /\ nextID' = nextID /\ disk' = disk
  <2>1. CASE s # t
    BY <1>0, <1>2, <2>1, SendEffect
  <2>2. CASE s = t
    <3>1. Idle.job = Blank /\ Idle.reply = {}
      BY DEF Idle
    <3> QED BY <1>0, <1>2, <2>2, <3>1, SendEffect
  <2> QED BY <2>1, <2>2
<1>3. ASSUME NEW t \in Slot, NEW p \in PendingActions, Takes(t, p)
      PROVE  /\ thread'[s].job \in {thread[s].job, p.job}
             /\ thread'[s].reply \subseteq thread[s].reply
             /\ nextID' = nextID /\ disk' = disk
  BY <1>3 DEF Takes
<1>4. ASSUME NEW t \in Slot, NEW requests, NEW next, NEW job, NEW reply,
             Goto(t, requests, next, job, reply),
             Turn(t, requests, next, job, reply)
      PROVE  /\ \/ thread'[s].job \in {thread[s].job, Blank}
                \/ /\ thread'[s].job.id = 0 /\ thread'[s].job.root = 0
                   /\ "hia" \in Messages
             /\ thread'[s].reply \subseteq thread[s].reply
             /\ nextID' \in {nextID, nextID + 1} /\ disk' = disk
  <2>0. nextID' \in {nextID, nextID + 1} /\ disk' = disk
    BY <1>4 DEF Turn
  <2>1. CASE s # t
    BY <1>0, <1>4, <2>0, <2>1, GotoEffect
  <2>2. CASE s = t
    <3>1. Idle.job = Blank /\ Idle.reply = {}
      BY DEF Idle
    <3>2. \/ thread'[s] = Idle
          \/ thread'[s].job = job /\ thread'[s].reply = reply
      BY <1>0, <1>4, <2>2, GotoEffect
    <3>3. /\ \/ job = thread[s].job \/ job = Blank
             \/ job.id = 0 /\ job.root = 0 /\ "hia" \in Messages
          /\ reply \subseteq thread[s].reply
      BY <1>4, <2>2 DEF Turn
    <3> QED BY <2>0, <3>1, <3>2, <3>3
  <2> QED BY <2>1, <2>2
<1>5. CASE Aside \/ \E job \in batch : Launch(job)
  BY <1>5 DEF Aside, Launch
<1> QED BY <1>0, <1>1, <1>2, <1>3, <1>4, <1>5, StepKinds

LEMMA BlankPlain == Blank.root = 0 /\ Blank.id = 0 /\ Plain(Blank)
<1>1. Blank.root = 0 /\ Blank.id = 0 /\ Blank.tminus = 0 /\ Blank.headertag = ""
  BY DEF Blank
<1>2. "" \notin InstallTags
  BY ConstantsOK
<1> QED BY <1>1, <1>2 DEF Plain, IsInstall

LEMMA SeenInit == Init => SeenInv
<1> SUFFICES ASSUME Init PROVE SeenInv
  OBVIOUS
<1>1. UnderWay = {}
  BY RangeEmpty DEF Init, UnderWay, Idle
<1>3. \A s \in Slot : thread[s].job = Blank /\ thread[s].reply = {}
  BY DEF Init, Idle
<1>4. nextID = 1
  BY DEF Init
<1>5. Sane(Blank)
  BY <1>4, BlankPlain DEF Sane
<1> QED BY <1>1, <1>3, <1>5 DEF Init, SeenInv

LEMMA SeenRestart ==
  ASSUME Foundations, Foundations', SeenInv, Restart PROVE SeenInv'
<1>1. /\ \A s \in Slot : thread'[s] = Idle
      /\ jobDBRequests' = <<>> /\ own' = <<>> /\ PendingActions' = {}
      /\ jobDB' = disk /\ disk' = disk
  BY DEF Restart
<1>2. UnderWay' = {}
  BY <1>1, RangeEmpty DEF UnderWay, Idle
<1>3. nextID' > 0
  BY MaxIDNat DEF Foundations, LaunchInv, TypeOK
<1>4. /\ Blank.root <= Blank.id /\ Blank.id < nextID'
      /\ Forwards => Plain(Blank)
  BY <1>3, MaxIDNat, BlankPlain DEF Foundations, LaunchInv, TypeOK
<1>5. \A x \in disk : x.root <= x.id /\ x.id < nextID' /\ (Forwards => Plain(x))
  BY <1>1 DEF SeenInv, Sane, Foundations, IdInv, JobsDistinct
<1>6. \A s \in Slot : thread'[s].job = Blank /\ thread'[s].reply = {}
  BY <1>1 DEF Idle
<1> QED BY <1>1, <1>2, <1>4, <1>5, <1>6 DEF SeenInv, Sane

LEMMA SeenNext ==
  ASSUME ForwardsAlone, Foundations, SeenInv, [Next]_vars PROVE SeenInv'
<1>0. /\ TypeOK /\ TypeOK' /\ PointsReached /\ Foundations' /\ LaunchInv /\ IdInv
      /\ PointsInv /\ CallersHoldNone
  BY FoundationsNext DEF Foundations, LaunchInv, PointsInv
<1>1. CASE Restart
  BY <1>0, <1>1, SeenRestart
<1>2. CASE ~Restart
  <2>0. nextID \in Nat /\ nextID' \in Nat /\ nextID <= nextID'
    BY <1>0, <1>2, NextIDMonotone
  <2> DEFINE Fits(x) == x.root <= x.id /\ x.id < nextID' /\ (Forwards => Plain(x))
  <2>1. ASSUME NEW x, Sane(x), x.id \in Nat PROVE Fits(x)
    BY <2>0, <2>1 DEF Sane
  <2>2. \A x \in jobDB \cup disk \cup {p.job : p \in PendingActions} :
          x \in Job /\ Fits(x)
    <3>1. \A x \in Job : x.id \in Nat
      BY DEF Job
    <3>2. /\ \A x \in jobDB \cup disk : x \in Job
          /\ \A p \in PendingActions : p.job \in Job
      BY <1>0 DEF TypeOK, NumberedJob, Pending
    <3> QED BY <2>1, <3>1, <3>2 DEF SeenInv
  <2>3. /\ \A s \in Slot : Fits(thread[s].job)
        /\ \A r \in UnderWay : r.op = "add" => Fits(r.job)
    <3>1. \A s \in Slot : thread[s].job.id \in Nat
      BY <1>0, IdsNat DEF IdsAreNat
    <3>2. \A r \in UnderWay : r.op = "add" => r.job.id \in Nat
      BY <1>0, UnderWayRequests, RequestFields DEF NumberedJob, Job
    <3> QED BY <2>1, <3>1, <3>2 DEF SeenInv
  <2> HIDE DEF Fits
  <2>4. ASSUME NEW x, NEW y, Fits(x), y.root = x.root, y.id = x.id,
               y.headertag = x.headertag, y.tminus = x.tminus
        PROVE  Fits(y)
    BY <2>4 DEF Fits, Plain, IsInstall
  <2>5. Fits(Blank)
    <3>1. nextID' > 0
      BY <1>0, MaxIDNat DEF TypeOK
    <3> QED BY <2>0, <3>1, BlankPlain DEF Fits
  <2>6. \A k \in jobDB' : Fits(k)
    <3> SUFFICES ASSUME NEW k \in jobDB' PROVE Fits(k)
      OBVIOUS
    <3>1. CASE \E j \in jobDB : SameJob(j, k)
      BY <2>2, <2>4, <3>1 DEF SameJob
    <3>2. CASE \E r \in UnderWay : r.op = "add" /\ k = r.job
      BY <2>3, <3>2
    <3> QED BY <1>0, <1>2, <3>1, <3>2, JobOrigin
  <2>7. \A p \in PendingActions' : Fits(p.job)
    <3> SUFFICES ASSUME NEW p \in PendingActions', p \notin PendingActions
                 PROVE  Fits(p.job)
      BY <2>2
    <3> DEFINE r == Head(jobDBRequests)
    <3>1. ASSUME NEW j \in jobDB, NEW stop, p.job = Done(j, stop)
          PROVE  Fits(p.job)
      <4>1. j \in Job /\ Fits(j)
        BY <2>2
      <4>2. /\ p.job.root = j.root /\ p.job.id = j.id
            /\ p.job.headertag = j.headertag /\ p.job.tminus = j.tminus
        BY <3>1, <4>1 DEF Done, Job
      <4> QED BY <2>4, <4>1, <4>2
    <3>2. ASSUME NEW j \in jobDB, NEW u, p.job = Apply(j, u)
          PROVE  Fits(p.job)
      <4>1. j \in Job /\ Fits(j)
        BY <2>2
      <4>2. /\ p.job.root = j.root /\ p.job.id = j.id
            /\ p.job.headertag = j.headertag /\ p.job.tminus = j.tminus
        BY <3>2, <4>1 DEF Apply, Job
      <4> QED BY <2>4, <4>1, <4>2
    <3>3. ASSUME NEW j \in batch, p.job = Launched(j)
          PROVE  Fits(p.job)
      <4>1. j \in Job /\ Fits(j)
        BY <1>0, <2>2 DEF IdInv, HandlerHolds
      <4>2. /\ p.job.root = j.root /\ p.job.id = j.id
            /\ p.job.headertag = j.headertag /\ p.job.tminus = j.tminus
        BY <3>3, <4>1 DEF Launched, Job
      <4> QED BY <2>4, <4>1, <4>2
    <3>4. Query(jobDB, r.filter) \subseteq jobDB
      BY DEF Query
    <3> QED BY <1>0, <1>2, <3>1, <3>2, <3>3, <3>4, PendingOrigin
  <2>8. \A s \in Slot : Fits(thread'[s].job)
    <3> SUFFICES ASSUME NEW s \in Slot PROVE Fits(thread'[s].job)
      OBVIOUS
    <3>1. CASE thread'[s].job \in {thread[s].job, Blank}
      BY <2>3, <2>5, <3>1
    <3>2. CASE \E p \in PendingActions : thread'[s].job = p.job
      BY <2>2, <3>2
    <3>3. CASE /\ thread'[s].job.id = 0 /\ thread'[s].job.root = 0
               /\ "hia" \in Messages
      <4>1. ~Forwards /\ nextID' > 0
        BY <1>0, <3>3, MaxIDNat DEF ForwardsAlone, TypeOK
      <4> QED BY <3>3, <4>1 DEF Fits
    <3> QED BY <1>0, <1>2, <3>1, <3>2, <3>3, ThreadOrigin
  <2>9. \A q \in UnderWay' : q.op = "add" => Fits(q.job)
    <3> SUFFICES ASSUME NEW q \in UnderWay', q.op = "add", q \notin UnderWay
                 PROVE  Fits(q.job)
      BY <2>3
    <3>1. PICK s \in Slot : \E requests, next, job, reply :
            /\ Turn(s, requests, next, job, reply)
            /\ q \in Range(requests) /\ Derived(s, q.job)
      BY <1>0, <1>2, AddOrigin
    <3>2. nextID' = nextID + 1 /\ Derived(s, q.job)
      BY <3>1 DEF Turn, Proper
    <3>3. Sane(thread[s].job)
      BY DEF SeenInv
    <3>4. q.job.root <= q.job.id /\ q.job.id < nextID'
      <4>1. thread[s].job.root \in Nat /\ thread[s].job.id \in Nat
        <5>1. thread[s].job \in Job \cup {Blank} /\ Blank.root = 0 /\ Blank.id = 0
          BY <1>0 DEF TypeOK, Thread, Blank
        <5> QED BY <5>1 DEF Job
      <4> QED BY <2>0, <3>2, <3>3, <4>1 DEF Derived, Sane
    <3>5. ASSUME Forwards PROVE Plain(q.job)
      <4>1. "hia" \notin Messages
        BY <3>5 DEF ForwardsAlone
      <4>2. CASE q.job.headertag \in NewTags /\ q.job.tminus \in TMinuses
        BY <3>5, <4>2 DEF ForwardsAlone, Plain, IsInstall
      <4>3. CASE /\ q.job.headertag = thread[s].job.headertag
                 /\ q.job.tminus = thread[s].job.tminus
        BY <3>3, <3>5, <4>3 DEF Sane, Plain, IsInstall
      <4> QED BY <3>2, <4>1, <4>2, <4>3 DEF Derived
    <3> QED BY <3>4, <3>5 DEF Fits
  <2>10. ASSUME NEW s \in Slot
         PROVE  /\ \A x \in thread'[s].reply : Forwards => Plain(x)
                /\ disk' \in {disk, jobDB}
    <3>1. /\ thread'[s].reply \subseteq thread[s].reply \cup jobDB
          /\ disk' \in {disk, jobDB}
      BY <1>0, <1>2, ThreadOrigin
    <3> QED BY <3>1 DEF SeenInv, Sane
  <2>11. disk' \in {disk, jobDB}
    <3>1. ASSUME NEW s, NEW requests, NEW next, NEW job, NEW reply,
                 Turn(s, requests, next, job, reply)
          PROVE  disk' = disk
      BY <3>1 DEF Turn
    <3>2. ASSUME NEW s \in Slot, Send(s) PROVE disk' = disk
      BY <1>0, <3>2, SendEffect
    <3> QED BY <1>0, <1>2, <3>1, <3>2, StepKinds, HandleKinds
           DEF Takes, Launch, Aside
  <2>12. \A x \in jobDB' \cup disk' : Fits(x)
    BY <2>2, <2>6, <2>11
  <2> QED BY <2>7, <2>8, <2>9, <2>10, <2>12 DEF SeenInv, Sane, Fits
<1> QED BY <1>1, <1>2

-----------------------------------------------------------------------------
(* How the holders of a series change in a step.                            *)

SeriesStep ==
  /\ ForwardsAlone /\ Foundations /\ Foundations' /\ SeenInv /\ SeenInv' /\ Single
  /\ [Next]_vars /\ ~Restart

LEMMA StepParts ==
  ASSUME SeriesStep
  PROVE  /\ TypeOK /\ TypeOK' /\ PointsReached /\ PointsInv /\ PointsInv'
         /\ CallersHoldNone /\ IdInv /\ IdInv' /\ LaunchInv /\ HandlerHolds
         /\ Forwards => OnceInv /\ OnceInv'
         /\ CarriedOnce /\ StoredOnce /\ StoredApart /\ LiveRan
         /\ ForwardsRemove /\ AddsWait /\ RemovalsSpent
BY DEF SeriesStep, Foundations, LaunchInv, PointsInv, IdInv, Single, Forwards

LEMMA JobsStand == IdInv => \A j \in jobDB : ~Coming(j.id)
BY JobsSettled DEF Settled

LEMMA JobsStandNext == (IdInv => \A j \in jobDB : ~Coming(j.id))'
BY JobsStand, PTL

\* Jobs that have been launched are not on their way into the database.
LEMMA RanSettled ==
  ASSUME Foundations, Forwards, NEW i, Ran(i)
  PROVE  i \in Nat /\ Settled(i)
<1>1. i \in 1..MaxID /\ launches[i] > 0 /\ OnceInv
  BY DEF Ran, Foundations
<1>2. i \in Nat /\ nextID \in Nat
  BY <1>1, MaxIDNat DEF Foundations, LaunchInv, TypeOK
<1>3. ~(i >= nextID \/ Coming(i))
  BY <1>1 DEF OnceInv
<1> QED BY <1>2, <1>3 DEF Settled

LEMMA RanStays == ASSUME SeriesStep, NEW i, Ran(i) PROVE Ran(i)'
<1>0. /\ TypeOK /\ TypeOK' /\ PointsReached /\ CallersHoldNone
      /\ launches \in [1..MaxID -> Nat]
  BY StepParts DEF TypeOK
<1>1. ASSUME NEW job \in batch, Launch(job) PROVE launches'[i] > 0
  <2>1. launches' = [launches EXCEPT ![job.id] = @ + 1]
    BY <1>1 DEF Launch, LaunchJob
  <2> QED BY <1>0, <2>1 DEF Ran
<1>2. ASSUME NEW s, NEW requests, NEW next, NEW job, NEW reply,
             Turn(s, requests, next, job, reply)
      PROVE  launches' = launches
  BY <1>2 DEF Turn, dbVars
<1>3. ASSUME NEW s \in Slot, Send(s) PROVE launches' = launches
  BY <1>0, <1>3, SendEffect
<1>4. HandleRequest => launches' = launches
  BY <1>0, HandleKinds
     DEF AddJob, RemoveLocal, Modify, BeginLaunch, Answers, dbVars
<1>5. launches' = launches => Ran(i)'
  BY DEF Ran
<1>6. launches'[i] > 0 => Ran(i)'
  BY DEF Ran
<1> QED BY <1>0, <1>1, <1>2, <1>3, <1>4, <1>5, <1>6, StepKinds
       DEF Takes, Aside, SeriesStep

\* Who carries a series beside its job acts on the job.
LEMMA CarriedBeside ==
  ASSUME Foundations, Single, NEW j \in jobDB, NEW x \in Carries(j.root)
  PROVE  Forwards /\ Ran(j.id)
<1>1. ASSUME NEW l \in LiveJobs, l.root = j.root PROVE Ran(j.id)
  <2>1. l.id = j.id /\ Ran(l.id)
    BY <1>1 DEF Single, StoredApart, LiveRan
  <2> QED BY <2>1
<1>2. \A f \in FollowJobs : f.root # j.root
  BY DEF Single, StoredApart
<1>3. ASSUME NEW p \in PendingOf(j.root) PROVE Forwards /\ Ran(j.id)
  <2>1. p \in PendingActions /\ p.job.root = j.root /\ (Live(p) \/ Follows(p))
    BY DEF PendingOf
  <2>2. Follows(p) => p.job \in FollowJobs
    BY <2>1 DEF FollowJobs
  <2>3. Live(p) => p.job \in LiveJobs /\ Forwards
    BY <2>1 DEF LiveJobs, Live
  <2> QED BY <1>1, <1>2, <2>1, <2>2, <2>3
<1>4. ASSUME NEW s \in HoldersOf(j.root) PROVE Forwards /\ Ran(j.id)
  <2>1. s \in Slot /\ thread[s].job.root = j.root /\ (LiveAt(s) \/ FollowsAt(s))
    BY DEF HoldersOf
  <2>2. FollowsAt(s) => thread[s].job \in FollowJobs
    BY <2>1 DEF FollowJobs
  <2>3. LiveAt(s) => thread[s].job \in LiveJobs /\ Forwards
    BY <2>1 DEF LiveJobs, LiveAt
  <2> QED BY <1>1, <1>2, <2>1, <2>2, <2>3
<1>5. ASSUME NEW r \in AddsOf(j.root) PROVE Forwards /\ Ran(j.id)
  <2>1. r \in UnderWay /\ r.op = "add" /\ r.job.root = j.root
    BY DEF AddsOf
  <2>2. CASE r \in Range(jobDBRequests)
    <3>1. PICK n \in 1..Len(jobDBRequests) : r = jobDBRequests[n]
      BY <2>2 DEF Range, Foundations, LaunchInv, TypeOK
    <3> QED BY <2>1, <3>1 DEF Single, AddsWait, AddsWaitFor
  <2>3. CASE \E s \in Slot : r \in Range(thread[s].todo)
    BY <2>1, <2>3 DEF Single, AddsWait, AddsWaitFor
  <2>4. r \notin Range(own)
    BY <2>1 DEF Range, Foundations, IdInv, HandlerHolds
  <2> QED BY <2>1, <2>2, <2>3, <2>4 DEF UnderWay
<1> QED BY <1>3, <1>4, <1>5 DEF Carries

\* The holders a step makes of a series.
LEMMA CarriesGrows ==
  ASSUME SeriesStep, NEW root, NEW x \in Carries(root)', x \notin Carries(root)
  PROVE  \/ \E p \in PendingActions' :
              /\ p \notin PendingActions /\ p.job.root = root
              /\ Live(p) \/ Follows(p)
              /\ x = <<"pending", p>>
         \/ \E s \in Slot : \E p \in PendingOf(root) :
              Takes(s, p) /\ x = <<"thread", s>>
         \/ \E q \in UnderWay' : /\ q \notin UnderWay /\ q.op = "add"
                                 /\ q.job.root = root /\ x = <<"add", q.job.id>>
<1>1. ASSUME NEW p \in PendingActions', Live(p) \/ Follows(p), p.job.root = root,
             x = <<"pending", p>>
      PROVE  p \notin PendingActions
  BY <1>1 DEF Carries, PendingOf
<1>2. ASSUME NEW s \in HoldersOf(root)', x = <<"thread", s>>
      PROVE  \E p \in PendingOf(root) : Takes(s, p)
  <2>1. /\ s \in Slot /\ thread'[s].job.root = root
        /\ LiveAt(s)' \/ FollowsAt(s)'
    BY DEF HoldersOf
  <2>2. s \notin HoldersOf(root)
    BY <1>2 DEF Carries
  <2>3. ~((LiveAt(s) \/ FollowsAt(s)) /\ thread'[s].job = thread[s].job)
    BY <2>1, <2>2 DEF HoldersOf
  <2>4. PICK p \in PendingActions :
          Takes(s, p) /\ (Live(p) \/ Follows(p)) /\ thread'[s].job = p.job
    BY <2>1, <2>3, StepParts, HolderOrigin DEF SeriesStep
  <2> QED BY <2>1, <2>4 DEF PendingOf
<1>3. ASSUME NEW q \in AddsOf(root)', x = <<"add", q.job.id>>
      PROVE  q \in UnderWay' /\ q \notin UnderWay /\ q.op = "add"
               /\ q.job.root = root
  BY <1>3 DEF Carries, AddsOf
<1>4. \/ \E p \in PendingActions' : /\ Live(p) \/ Follows(p)
                                    /\ p.job.root = root /\ x = <<"pending", p>>
      \/ \E s \in HoldersOf(root)' : x = <<"thread", s>>
      \/ \E q \in AddsOf(root)' : x = <<"add", q.job.id>>
  BY DEF Carries, PendingOf, Live, Follows
<1>5. \A s \in HoldersOf(root)' : s \in Slot
  BY DEF HoldersOf
<1> QED BY <1>1, <1>2, <1>3, <1>4, <1>5

\* A series that nothing carried is carried: it is new, its job has been
\* removed, or its job has been launched for the first time.
Begins(root) ==
  \/ root = nextID
  \/ \E j \in jobDB : j.root = root /\ \A k \in jobDB' : k.root # root
  \/ Forwards /\ \E j \in jobDB : j.root = root /\ launches[j.id] = 0

Moves(root) ==
  \/ Carries(root)' \subseteq Carries(root)
  \/ \E x \in Carries(root) : \E y :
       Carries(root)' \subseteq (Carries(root) \ {x}) \cup {y}
  \/ /\ Carries(root) = {} /\ Begins(root)
     /\ \E y : Carries(root)' \subseteq {y}

LEMMA TakesMoves ==
  ASSUME SeriesStep, NEW root, NEW s \in Slot, NEW p \in PendingOf(root),
         Takes(s, p)
  PROVE  Moves(root)
<1>1. /\ p \in PendingActions /\ PendingActions' = PendingActions \ {p}
      /\ jobDBRequests' = jobDBRequests /\ own' = own
      /\ thread[s].pc = "idle" /\ thread'[s].pc # "idle"
      /\ thread'[s].todo = <<>>
      /\ \A t \in Slot \ {s} : thread'[t] = thread[t]
  BY DEF Takes, PendingOf
<1>2. <<"pending", p>> \in Carries(root)
  BY DEF Carries
<1>3. UnderWay' \subseteq UnderWay
  BY <1>1, RangeEmpty DEF UnderWay
<1>4. ASSUME NEW x \in Carries(root)', x \notin Carries(root)
      PROVE  x = <<"thread", s>>
  <2>1. PICK t \in Slot : \E b \in PendingOf(root) :
          Takes(t, b) /\ x = <<"thread", t>>
    BY <1>1, <1>3, <1>4, CarriesGrows
  <2>2. thread'[t] # thread[t]
    BY <2>1 DEF Takes
  <2> QED BY <1>1, <2>1, <2>2
<1>5. <<"pending", p>> \notin Carries(root)'
  BY <1>1 DEF Carries, PendingOf
<1>6. Carries(root)' \subseteq
        (Carries(root) \ {<<"pending", p>>}) \cup {<<"thread", s>>}
  BY <1>4, <1>5
<1> QED BY <1>2, <1>6 DEF Moves

\* A series with a number yet to be given has no holders.
LEMMA NewCarriesNone ==
  ASSUME Foundations, SeenInv PROVE Carries(nextID) = {}
<1>1. /\ \A p \in PendingActions : p.job.root \in Nat /\ p.job.id \in Nat
      /\ \A s \in Slot : thread[s].job.root \in Nat /\ thread[s].job.id \in Nat
      /\ \A r \in UnderWay : r.op = "add" => r.job.root \in Nat /\ r.job.id \in Nat
      /\ nextID \in Nat
  <2>0. TypeOK /\ \A j \in Job : j.root \in Nat /\ j.id \in Nat
    BY DEF Foundations, LaunchInv, Job
  <2>1. \A p \in PendingActions : p.job \in Job
    BY <2>0 DEF TypeOK, Pending
  <2>2. \A s \in Slot : thread[s].job \in Job \cup {Blank}
    BY <2>0 DEF TypeOK, Thread
  <2>3. \A r \in UnderWay : r.op = "add" => r.job \in Job
    BY <2>0, UnderWayRequests, RequestFields DEF NumberedJob
  <2>4. nextID \in Nat
    BY <2>0, MaxIDNat DEF TypeOK
  <2> QED BY <2>0, <2>1, <2>2, <2>3, <2>4, BlankPlain
<1>2. /\ \A p \in PendingActions : p.job.root # nextID
      /\ \A s \in Slot : thread[s].job.root # nextID
      /\ \A r \in UnderWay : r.op = "add" => r.job.root # nextID
  BY <1>1 DEF SeenInv, Sane
<1> QED BY <1>2 DEF Carries, PendingOf, HoldersOf, AddsOf

LEMMA TurnMoves ==
  ASSUME SeriesStep, NEW root, NEW q \in UnderWay', q \notin UnderWay,
         q.op = "add", q.job.root = root
  PROVE  Moves(root)
<1>0. /\ TypeOK /\ TypeOK' /\ PointsInv /\ PointsReached
  BY StepParts
<1>1. PICK s \in Slot : \E requests, next, job, reply :
        /\ Goto(s, requests, next, job, reply)
        /\ Turn(s, requests, next, job, reply)
        /\ q \in Range(requests) /\ Derived(s, q.job)
  BY <1>0, AddOrigin DEF SeriesStep
<1>2. PICK requests, next, job, reply :
        /\ Goto(s, requests, next, job, reply)
        /\ Turn(s, requests, next, job, reply)
        /\ q \in Range(requests) /\ Derived(s, q.job)
  BY <1>1
<1>3. PendingActions' = PendingActions /\ UnderWay' \subseteq UnderWay \cup Range(requests)
  BY <1>0, <1>2, GotoRequests DEF Turn, dbVars, handlerVars
<1>4. ASSUME NEW x \in Carries(root)', x \notin Carries(root)
      PROVE  x = <<"add", nextID>>
  <2>1. ASSUME NEW t \in Slot, NEW p \in PendingOf(root), Takes(t, p) PROVE FALSE
    BY <1>3, <2>1 DEF Takes
  <2>2. PICK a \in UnderWay' : /\ a \notin UnderWay /\ a.op = "add"
                               /\ x = <<"add", a.job.id>>
    BY <1>3, <1>4, <2>1, CarriesGrows
  <2>3. a \in Range(requests)
    BY <1>3, <2>2
  <2>4. a.job.id = nextID
    BY <1>2, <2>2, <2>3 DEF Turn, Proper, Derived
  <2> QED BY <2>2, <2>4
<1>5. CASE root = nextID
  <2>1. Carries(root) = {}
    BY <1>5, NewCarriesNone DEF SeriesStep
  <2>2. Carries(root)' \subseteq {<<"add", nextID>>}
    BY <1>4, <2>1
  <2> QED BY <1>5, <2>1, <2>2 DEF Moves, Begins
<1>6. CASE root # nextID
  <2>1. /\ root = thread[s].job.root
        /\ \/ thread[s].pc = "forwarding"
           \/ thread[s].pc = "followup" /\ thread[s].job.periodic # 0
    BY <1>2, <1>6 DEF Derived
  <2>2. LiveAt(s) \/ FollowsAt(s)
    <3>1. thread[s].pc = "forwarding" => LiveAt(s)
      BY <1>0 DEF LiveAt, Forwards, PointsReached, PointsInv, PointsOK
    <3> QED BY <2>1, <3>1 DEF FollowsAt, DonePC
  <2>3. <<"thread", s>> \in Carries(root)
    BY <2>1, <2>2 DEF Carries, HoldersOf
  <2>4. ~LiveAt(s)' /\ ~FollowsAt(s)'
    <3>1. requests # <<>>
      BY <1>2, RangeEmpty
    <3> QED BY <1>0, <1>2, <2>1, <3>1, TurnHolders
  <2>5. <<"thread", s>> \notin Carries(root)'
    BY <2>4 DEF Carries, HoldersOf
  <2>6. Carries(root)' \subseteq
          (Carries(root) \ {<<"thread", s>>}) \cup {<<"add", nextID>>}
    BY <1>4, <2>5
  <2> QED BY <2>3, <2>6 DEF Moves
<1> QED BY <1>5, <1>6

\* The job of a waiting or woken instance has not been launched.
LEMMA BatchFresh ==
  ASSUME SeriesStep, Forwards, NEW job \in batch
  PROVE  job \in jobDB /\ launches[job.id] = 0
BY StepParts DEF HandlerHolds, OnceInv

LEMMA NotBeside ==
  ASSUME SeriesStep, NEW j \in jobDB, ~Forwards \/ launches[j.id] = 0
  PROVE  Carries(j.root) = {}
<1> SUFFICES ASSUME NEW x \in Carries(j.root) PROVE FALSE
  OBVIOUS
<1>1. Forwards /\ Ran(j.id)
  BY CarriedBeside DEF SeriesStep
<1> QED BY <1>1 DEF Ran

LEMMA LaunchMoves ==
  ASSUME SeriesStep, Forwards, NEW job \in batch, Launch(job)
  PROVE  Moves(job.root)
<1> DEFINE p == [job |-> Launched(job), keep |-> FALSE, nth |-> launches[job.id] + 1]
           root == job.root
<1>1. /\ PendingActions' = PendingActions \cup {p}
      /\ thread' = thread /\ own' = own /\ jobDBRequests' = jobDBRequests
  BY DEF Launch, LaunchJob
<1>2. job \in jobDB /\ launches[job.id] = 0
  BY BatchFresh
<1>3. Carries(root) = {}
  BY <1>2, NotBeside
<1>4. UnderWay' = UnderWay
  BY <1>1 DEF UnderWay
<1>5. ASSUME NEW x \in Carries(root)' PROVE x = <<"pending", p>>
  <2>1. ASSUME NEW t \in Slot, NEW b \in PendingOf(root), Takes(t, b) PROVE FALSE
    BY <1>1, <2>1 DEF Takes, PendingOf
  <2> QED BY <1>1, <1>3, <1>4, <1>5, <2>1, CarriesGrows
<1>6. Begins(root)
  BY <1>2 DEF Begins
<1> QED BY <1>3, <1>5, <1>6 DEF Moves

LEMMA RemoveMoves ==
  ASSUME SeriesStep, HandleRequest, Head(jobDBRequests).op = "remove",
         RemoveLocal(Head(jobDBRequests)), ~Head(jobDBRequests).stop,
         NEW j \in Query(jobDB, Head(jobDBRequests).filter)
  PROVE  Moves(j.root)
<1> DEFINE r == Head(jobDBRequests)
           p == [job |-> Done(j, r.stop), keep |-> r.keep, nth |-> 0]
           root == j.root
<1>0. /\ TypeOK /\ PointsInv /\ r \in UnderWay /\ j \in jobDB
      /\ Accepts(r.filter, j)
  BY StepParts, HeadUnderWay DEF HandleRequest, Query
<1>1. /\ jobDB' = jobDB \ Query(jobDB, r.filter)
      /\ PendingActions' = PendingActions \cup
           {[job |-> Done(k, r.stop), keep |-> r.keep, nth |-> 0] :
              k \in Query(jobDB, r.filter)}
      /\ thread' = thread
  BY DEF RemoveLocal
<1>2. UnderWay' \subseteq UnderWay
  BY <1>0, HandlerRequests
<1>3. \A k \in jobDB : k.root = root => k = j
  BY <1>0, StepParts DEF StoredOnce
<1>4. Carries(root) = {}
  <2>1. CASE ~Forwards
    BY <1>0, <2>1, NotBeside
  <2>2. CASE Forwards
    <3>1. PICK i \in 1..MaxID : r.filter = ById({i}) /\ Spent(i)
      BY <1>0, <2>2, StepParts DEF RemovalsSpent
    <3>2. j.id = i
      <4>1. r.filter.kind = "ids" /\ r.filter.ids = {i}
        BY <3>1 DEF ById
      <4> QED BY <1>0, <4>1 DEF Accepts
    <3> QED BY <1>0, <3>1, <3>2 DEF Spent
  <2> QED BY <2>1, <2>2
<1>5. ASSUME NEW x \in Carries(root)' PROVE x = <<"pending", p>>
  <2>1. ASSUME NEW t \in Slot, NEW b \in PendingOf(root), Takes(t, b) PROVE FALSE
    BY <1>1, <2>1 DEF Takes, PendingOf
  <2>2. PICK a \in PendingActions' :
          a \notin PendingActions /\ a.job.root = root /\ x = <<"pending", a>>
    BY <1>2, <1>4, <1>5, <2>1, CarriesGrows
  <2>3. PICK k \in Query(jobDB, r.filter) :
          a = [job |-> Done(k, r.stop), keep |-> r.keep, nth |-> 0]
    BY <1>1, <2>2
  <2>4. k \in jobDB /\ k \in Job
    BY <1>0 DEF Query, TypeOK, NumberedJob
  <2>5. a.job.root = k.root
    BY <2>3, <2>4 DEF Done, Job
  <2>6. k = j
    BY <1>3, <2>2, <2>4, <2>5
  <2> QED BY <2>2, <2>3, <2>6
<1>6. \A k \in jobDB' : k.root # root
  BY <1>1, <1>3
<1> QED BY <1>0, <1>4, <1>5, <1>6 DEF Moves, Begins

\* Every step moves every series.
LEMMA SeriesMoves == ASSUME SeriesStep, NEW root \in Nat PROVE Moves(root)
<1>0. /\ TypeOK /\ TypeOK' /\ PointsReached /\ HandlerHolds
  BY StepParts
<1>1. CASE Carries(root)' \subseteq Carries(root)
  BY <1>1 DEF Moves
<1>2. ASSUME NEW x \in Carries(root)', x \notin Carries(root)
      PROVE  Moves(root)
  <2>1. CASE \E s \in Slot : \E p \in PendingOf(root) : Takes(s, p)
    BY <2>1, TakesMoves
  <2>2. CASE \E q \in UnderWay' : q \notin UnderWay /\ q.op = "add"
                                  /\ q.job.root = root
    BY <2>2, TurnMoves
  <2>3. ASSUME NEW p \in PendingActions', p \notin PendingActions,
               p.job.root = root, Live(p) \/ Follows(p)
        PROVE  Moves(root)
    <3> DEFINE r == Head(jobDBRequests)
    <3>1. ASSUME NEW j \in Query(jobDB, r.filter), HandleRequest,
                 r.op = "remove", RemoveLocal(r),
                 p = [job |-> Done(j, r.stop), keep |-> r.keep, nth |-> 0]
          PROVE  Moves(root)
      <4>1. j \in Job
        BY <1>0 DEF Query, TypeOK, NumberedJob
      <4>2. /\ p.job.root = j.root /\ p.job.status = "done"
            /\ r.stop => p.job.periodic = 0
        BY <3>1, <4>1 DEF Done, Job
      <4>3. ~r.stop
        BY <2>3, <4>2 DEF Live, Follows
      <4>4. j.root = root
        BY <2>3, <4>2
      <4> QED BY <3>1, <4>3, <4>4, RemoveMoves
    <3>2. ASSUME HandleRequest, r.op = "modify", p.job.status = "wakeup",
                 NEW j \in jobDB, Accepts(r.filter, j),
                 "status" \in DOMAIN r.update, r.update.status = "wakeup"
          PROVE  FALSE
      <4>1. Forwards
        BY <2>3, <3>2 DEF Live, Follows
      <4>2. r \in UnderWay
        BY <1>0, <3>2, HeadUnderWay DEF HandleRequest
      <4>3. OrderlyModify(r.filter, r.update)
        BY <3>2, <4>2, StepParts DEF LaunchInv, RequestsOrderly, Orderly
      <4>4. r.filter.kind = "tminus"
        BY <3>2, <4>3 DEF OrderlyModify
      <4>5. j.tminus # 0
        BY <3>2, <4>4 DEF Accepts
      <4> QED BY <4>1, <4>5 DEF SeriesStep, SeenInv, Sane, Plain
    <3>3. ASSUME NEW job \in batch, Launch(job), p.job = Launched(job)
          PROVE  Moves(root)
      <4>1. job \in Job
        BY <1>0 DEF TypeOK, NumberedJob
      <4>2. p.job.status = "processing" /\ p.job.root = job.root
        BY <3>3, <4>1 DEF Launched, Job
      <4>3. Forwards
        BY <2>3, <4>2 DEF Live, Follows
      <4> QED BY <2>3, <3>3, <4>2, <4>3, LaunchMoves
    <3> QED BY <1>0, <2>3, <3>1, <3>2, <3>3, PendingOrigin DEF SeriesStep
  <2> QED BY <1>2, <2>1, <2>2, <2>3, CarriesGrows
<1> QED BY <1>1, <1>2

LEMMA CarriedOnceNext == ASSUME SeriesStep PROVE CarriedOnce'
<1> SUFFICES ASSUME NEW root \in Nat PROVE Once(Carries(root)')
  BY DEF CarriedOnce, Once
<1>1. Once(Carries(root)) /\ Moves(root)
  BY SeriesMoves, StepParts DEF CarriedOnce
<1> QED BY <1>1 DEF Once, Moves

-----------------------------------------------------------------------------
(* The rest of Single is kept.                                              *)

LEMMA NoHolders ==
  ASSUME NEW root, Carries(root) = {}
  PROVE  /\ \A x \in LiveJobs \cup FollowJobs : x.root # root
         /\ \A r \in UnderWay : r.op = "add" => r.job.root # root
<1>1. ASSUME NEW x \in LiveJobs \cup FollowJobs, x.root = root PROVE FALSE
  <2>1. CASE \E p \in PendingActions : (Live(p) \/ Follows(p)) /\ x = p.job
    BY <1>1, <2>1 DEF Carries, PendingOf
  <2>2. CASE \E s \in Slot : (LiveAt(s) \/ FollowsAt(s)) /\ x = thread[s].job
    BY <1>1, <2>2 DEF Carries, HoldersOf
  <2> QED BY <1>1, <2>1, <2>2 DEF LiveJobs, FollowJobs
<1>2. ASSUME NEW r \in UnderWay, r.op = "add", r.job.root = root PROVE FALSE
  <2>1. r \in AddsOf(root)
    BY <1>2 DEF AddsOf
  <2> QED BY <2>1 DEF Carries
<1> QED BY <1>1, <1>2

LEMMA NoHoldersNext ==
  ASSUME NEW root
  PROVE  (Carries(root) = {} =>
            /\ \A x \in LiveJobs \cup FollowJobs : x.root # root
            /\ \A r \in UnderWay : r.op = "add" => r.job.root # root)'
<1>1. Carries(root) = {} =>
        /\ \A x \in LiveJobs \cup FollowJobs : x.root # root
        /\ \A r \in UnderWay : r.op = "add" => r.job.root # root
  BY NoHolders
<1> QED BY <1>1, PTL

\* A job enters the database when its series has no other instance.
LEMMA AddedAlone ==
  ASSUME SeriesStep, HandleRequest, Head(jobDBRequests).op = "add",
         NEW a, a = Head(jobDBRequests).job
  PROVE  /\ jobDB' = jobDB \cup {a} /\ LiveJobs' = LiveJobs
         /\ Coming(a.id)
         /\ \A j \in jobDB : j.root # a.root
         /\ Carries(a.root)' = {}
<1> DEFINE r == Head(jobDBRequests)
           root == a.root
<1>0. /\ TypeOK /\ AddJob(r) /\ r \in UnderWay /\ UnderWay' \subseteq UnderWay
      /\ jobDBRequests \in Seq(Request) /\ jobDBRequests # <<>>
  BY StepParts, HandleKinds, HeadUnderWay, HandlerRequests
     DEF HandleRequest, TypeOK, Answers
<1>1. /\ jobDB' = jobDB \cup {a} /\ PendingActions' = PendingActions
      /\ thread' = thread
  BY <1>0 DEF AddJob
<1>2. LiveJobs' = LiveJobs
  BY <1>1 DEF LiveJobs, Live, LiveAt
<1>3. Coming(a.id)
  BY <1>0 DEF Coming
<1>4. ASSUME NEW j \in jobDB, j.root = root PROVE FALSE
  <2>1. Len(jobDBRequests) \in Nat \ {0} /\ r = jobDBRequests[1]
    BY <1>0
  <2>2. 1 \in 1..Len(jobDBRequests) /\ \A m : m \notin 1..(1 - 1)
    BY <2>1
  <2> QED BY <1>4, <2>1, <2>2, StepParts DEF AddsWait, AddsWaitFor
<1>5. <<"add", a.id>> \in Carries(root)
  BY <1>0 DEF Carries, AddsOf
<1>6. Once(Carries(root))
  <2>1. r.job \in NumberedJob
    BY <1>0, HeadUnderWay, RequestFields
  <2>2. root \in Nat
    BY <2>1 DEF NumberedJob, Job
  <2> QED BY <2>2, StepParts DEF CarriedOnce
<1>7. Carries(root)' \subseteq Carries(root)
  <2>1. ASSUME NEW t \in Slot, NEW p \in PendingOf(root), Takes(t, p) PROVE FALSE
    BY <1>1, <2>1 DEF Takes, PendingOf
  <2> QED BY <1>0, <1>1, <2>1, CarriesGrows
<1>8. <<"add", a.id>> \notin Carries(root)'
  <2>1. ~Coming(a.id)'
    BY <1>1, StepParts, JobsStandNext
  <2> QED BY <2>1 DEF Carries, AddsOf, Coming
<1>9. Carries(root)' = {}
  BY <1>5, <1>6, <1>7, <1>8 DEF Once
<1> QED BY <1>1, <1>2, <1>3, <1>4, <1>9

\* The jobs of the database were there before, or are added so.
LEMMA StoredOrigin ==
  ASSUME SeriesStep, NEW k \in jobDB'
  PROVE  \/ \E j \in jobDB : SameJob(j, k)
         \/ /\ HandleRequest /\ Head(jobDBRequests).op = "add"
            /\ k = Head(jobDBRequests).job
            /\ jobDB' = jobDB \cup {k} /\ LiveJobs' = LiveJobs
            /\ Coming(k.id)
            /\ \A j \in jobDB : j.root # k.root
            /\ Carries(k.root)' = {}
BY StepParts, JobOrigin, AddedAlone DEF SeriesStep

LEMMA StoredOnceNext == ASSUME SeriesStep PROVE StoredOnce'
<1>1. ASSUME NEW j \in jobDB', NEW k \in jobDB', j.root = k.root PROVE j = k
  <2>1. CASE \E x, y \in jobDB : SameJob(x, j) /\ SameJob(y, k)
    <3>1. PICK x, y \in jobDB : SameJob(x, j) /\ SameJob(y, k)
      BY <2>1
    <3>2. x = y
      <4>1. x.root = y.root
        BY <1>1, <3>1 DEF SameJob
      <4>2. StoredOnce
        BY StepParts
      <4> QED BY <3>1, <4>1, <4>2 DEF StoredOnce
    <3>3. j.id = k.id
      BY <3>1, <3>2 DEF SameJob
    <3> QED BY <3>3, StepParts DEF IdInv, JobsDistinct
  <2>2. CASE \A x \in jobDB : x.root # j.root
    <3>1. ~\E x \in jobDB : SameJob(x, j)
      BY <2>2 DEF SameJob
    <3>2. ~\E x \in jobDB : SameJob(x, k)
      BY <1>1, <2>2 DEF SameJob
    <3> QED BY <3>1, <3>2, StoredOrigin
  <2>3. CASE \E x \in jobDB : x.root = j.root
    <3>1. \E x \in jobDB : SameJob(x, j)
      BY <2>3, StoredOrigin
    <3>2. \E x \in jobDB : SameJob(x, k)
      BY <1>1, <2>3, StoredOrigin
    <3> QED BY <2>1, <3>1, <3>2
  <2> QED BY <2>2, <2>3
<1>2. disk' \in {disk, jobDB}
  <2>1. ASSUME NEW s, NEW requests, NEW next, NEW job, NEW reply,
               Turn(s, requests, next, job, reply)
        PROVE  disk' = disk
    BY <2>1 DEF Turn
  <2>2. ASSUME NEW s \in Slot, Send(s) PROVE disk' = disk
    BY <2>2, StepParts, SendEffect
  <2> QED BY <2>1, <2>2, StepParts, StepKinds, HandleKinds
         DEF Takes, Launch, Aside, SeriesStep
<1> QED BY <1>1, <1>2, StepParts DEF StoredOnce

\* Where the jobs of the holders come from.
LEMMA LiveOrigin ==
  ASSUME SeriesStep, NEW l \in LiveJobs', l \notin LiveJobs
  PROVE  \E job \in batch : Forwards /\ Launch(job) /\ l = Launched(job)
<1>0. TypeOK /\ TypeOK' /\ LaunchInv
  BY StepParts
<1>1. ASSUME NEW s \in Slot, LiveAt(s)', l = thread'[s].job PROVE FALSE
  <2>1. CASE LiveAt(s) /\ thread'[s].job = thread[s].job
    BY <1>1, <2>1 DEF LiveJobs
  <2>2. CASE \E p \in PendingActions :
               Takes(s, p) /\ Live(p) /\ thread'[s].job = p.job
    BY <1>1, <2>2 DEF LiveJobs
  <2> QED BY <1>0, <1>1, <2>1, <2>2, HolderOrigin DEF SeriesStep
<1>2. ASSUME NEW p \in PendingActions', Live(p), l = p.job
      PROVE  \E job \in batch : Forwards /\ Launch(job) /\ l = Launched(job)
  <2> DEFINE r == Head(jobDBRequests)
  <2>0. p \notin PendingActions /\ Forwards /\ p.job.status # "done"
    BY <1>2 DEF LiveJobs, Live
  <2>1. ASSUME NEW j \in Query(jobDB, r.filter), p.job = Done(j, r.stop)
        PROVE  FALSE
    <3>1. j \in Job
      BY <1>0 DEF Query, TypeOK, NumberedJob
    <3> QED BY <2>0, <2>1, <3>1 DEF Done, Job
  <2>2. ASSUME HandleRequest, r.op = "modify", NEW j \in jobDB,
               Accepts(r.filter, j), "status" \in DOMAIN r.update,
               r.update.status = "wakeup"
        PROVE  FALSE
    <3>1. r \in UnderWay
      BY <1>0, <2>2, HeadUnderWay DEF HandleRequest
    <3>2. OrderlyModify(r.filter, r.update)
      BY <1>0, <2>2, <3>1 DEF LaunchInv, RequestsOrderly, Orderly
    <3>3. r.filter.kind = "tminus"
      BY <2>2, <3>2 DEF OrderlyModify
    <3>4. j.tminus # 0
      BY <2>2, <3>3 DEF Accepts
    <3> QED BY <2>0, <3>4 DEF SeriesStep, SeenInv, Sane, Plain
  <2>3. \E job \in batch : Launch(job) /\ p.job = Launched(job)
    BY <1>0, <2>0, <2>1, <2>2, PendingOrigin DEF SeriesStep
  <2> QED BY <1>2, <2>0, <2>3
<1>3. \/ \E s \in Slot : LiveAt(s)' /\ l = thread'[s].job
      \/ \E p \in PendingActions' : Live(p) /\ l = p.job
  BY DEF LiveJobs, Live
<1> QED BY <1>1, <1>2, <1>3

LEMMA FollowOrigin ==
  ASSUME SeriesStep, NEW f \in FollowJobs', f \notin FollowJobs
  PROVE  \E j \in jobDB : f.root = j.root /\ j \notin jobDB' /\ jobDB' \subseteq jobDB
<1>0. TypeOK /\ TypeOK'
  BY StepParts
<1>1. ASSUME NEW s \in Slot, FollowsAt(s)', f = thread'[s].job PROVE FALSE
  <2>1. CASE FollowsAt(s) /\ thread'[s].job = thread[s].job
    BY <1>1, <2>1 DEF FollowJobs
  <2>2. CASE \E p \in PendingActions :
               Takes(s, p) /\ Follows(p) /\ thread'[s].job = p.job
    BY <1>1, <2>2 DEF FollowJobs
  <2> QED BY <1>0, <1>1, <2>1, <2>2, HolderOrigin DEF SeriesStep
<1>2. ASSUME NEW p \in PendingActions', Follows(p), f = p.job
      PROVE  \E j \in jobDB :
               f.root = j.root /\ j \notin jobDB' /\ jobDB' \subseteq jobDB
  <2> DEFINE r == Head(jobDBRequests)
  <2>0. p \notin PendingActions /\ p.job.status = "done"
    BY <1>2 DEF FollowJobs, Follows
  <2>1. ASSUME RemoveLocal(r), NEW j \in Query(jobDB, r.filter),
               p.job = Done(j, r.stop)
        PROVE  f.root = j.root /\ j \in jobDB /\ j \notin jobDB'
                 /\ jobDB' \subseteq jobDB
    <3>1. j \in Job /\ j \in jobDB
      BY <1>0 DEF Query, TypeOK, NumberedJob
    <3> QED BY <1>2, <2>1, <3>1 DEF Done, Job, RemoveLocal
  <2>2. ASSUME NEW job \in batch, p.job = Launched(job) PROVE FALSE
    <3>1. job \in Job
      BY <1>0 DEF TypeOK, NumberedJob
    <3> QED BY <2>0, <2>2, <3>1 DEF Launched, Job
  <2> QED BY <1>0, <2>0, <2>1, <2>2, PendingOrigin DEF SeriesStep
<1>3. \/ \E s \in Slot : FollowsAt(s)' /\ f = thread'[s].job
      \/ \E p \in PendingActions' : Follows(p) /\ f = p.job
  BY DEF FollowJobs, Follows
<1> QED BY <1>1, <1>2, <1>3

LEMMA StoredApartNext == ASSUME SeriesStep PROVE StoredApart'
<1> SUFFICES ASSUME NEW k \in jobDB'
             PROVE  /\ \A f \in FollowJobs' : f.root # k.root
                    /\ \A l \in LiveJobs' : l.root = k.root <=> l.id = k.id
  BY DEF StoredApart
<1>0. /\ StoredApart /\ StoredOnce /\ JobsDistinct /\ JobsDistinct'
      /\ batch \subseteq jobDB /\ TypeOK
  BY StepParts DEF IdInv, HandlerHolds
<1>1. ASSUME NEW j \in jobDB, SameJob(j, k)
      PROVE  /\ \A f \in FollowJobs' : f.root # k.root
             /\ \A l \in LiveJobs' : l.root = k.root <=> l.id = k.id
  <2>0. k.root = j.root /\ k.id = j.id
    BY <1>1 DEF SameJob
  <2>1. ASSUME NEW f \in FollowJobs', f.root = k.root PROVE FALSE
    <3>1. f \notin FollowJobs
      BY <1>0, <2>0, <2>1 DEF StoredApart
    <3>2. PICK g \in jobDB : f.root = g.root /\ g \notin jobDB'
                               /\ jobDB' \subseteq jobDB
      BY <3>1, FollowOrigin
    <3>3. g = j
      BY <1>0, <2>0, <2>1, <3>2 DEF StoredOnce
    <3>4. k = j
      BY <1>0, <2>0, <3>2 DEF JobsDistinct
    <3> QED BY <3>2, <3>3, <3>4
  <2>2. ASSUME NEW l \in LiveJobs' PROVE l.root = k.root <=> l.id = k.id
    <3>1. CASE l \in LiveJobs
      BY <1>0, <2>0, <3>1 DEF StoredApart
    <3>2. ASSUME NEW job \in batch, l = Launched(job)
          PROVE  l.root = k.root <=> l.id = k.id
      <4>1. job \in jobDB /\ job \in Job
        BY <1>0 DEF TypeOK, NumberedJob
      <4>2. l.root = job.root /\ l.id = job.id
        BY <3>2, <4>1 DEF Launched, Job
      <4> QED BY <1>0, <2>0, <4>1, <4>2 DEF StoredOnce, JobsDistinct
    <3> QED BY <3>1, <3>2, LiveOrigin
  <2> QED BY <2>1, <2>2
<1>2. ASSUME LiveJobs' = LiveJobs, Coming(k.id), Carries(k.root)' = {}
      PROVE  /\ \A f \in FollowJobs' : f.root # k.root
             /\ \A l \in LiveJobs' : l.root = k.root <=> l.id = k.id
  <2>1. \A x \in LiveJobs' \cup FollowJobs' : x.root # k.root
    <3>1. PICK root : root = k.root
      OBVIOUS
    <3>2. Carries(root)' = {}
      BY <1>2, <3>1
    <3> QED BY <3>1, <3>2, NoHoldersNext
  <2>2. ASSUME NEW l \in LiveJobs', l.id = k.id PROVE FALSE
    <3>1. l \in LiveJobs
      BY <1>2
    <3>2. Forwards
      BY <3>1 DEF LiveJobs, Live, LiveAt
    <3>3. Ran(l.id)
      BY <3>1, StepParts DEF LiveRan
    <3>4. Settled(l.id)
      BY <3>2, <3>3, RanSettled DEF SeriesStep
    <3> QED BY <1>2, <2>2, <3>4 DEF Settled
  <2> QED BY <2>1, <2>2
<1> QED BY <1>1, <1>2, StoredOrigin

LEMMA LiveRanNext == ASSUME SeriesStep PROVE LiveRan'
<1> SUFFICES ASSUME NEW l \in LiveJobs' PROVE Ran(l.id)'
  BY DEF LiveRan
<1>1. ASSUME l \in LiveJobs PROVE Ran(l.id)'
  <2>1. PICK i : i = l.id
    OBVIOUS
  <2>2. Ran(i)
    BY <1>1, <2>1, StepParts DEF LiveRan
  <2>3. Ran(i)'
    BY <2>2, RanStays
  <2> QED BY <2>1, <2>3 DEF Ran
<1>2. ASSUME NEW job \in batch, Launch(job), l = Launched(job)
      PROVE  Ran(l.id)'
  <2>1. job \in NumberedJob /\ job \in Job /\ launches \in [1..MaxID -> Nat]
    BY StepParts DEF TypeOK, NumberedJob
  <2>2. l.id = job.id /\ job.id \in 1..MaxID
    BY <1>2, <2>1 DEF Launched, NumberedJob, Job
  <2>3. launches'[job.id] > 0
    BY <1>2, <2>1, <2>2 DEF Launch, LaunchJob
  <2> QED BY <2>2, <2>3 DEF Ran
<1> QED BY <1>1, <1>2, LiveOrigin

\* The handler obeys the removal at the head of the channel.
LEMMA HeadRemoves ==
  ASSUME SeriesStep, HandleRequest, NEW i \in Nat, Removes(Head(jobDBRequests), i),
         NEW k \in jobDB'
  PROVE  k.id # i
<1> DEFINE r == Head(jobDBRequests)
<1>0. TypeOK /\ JobsDistinct /\ r.op = "remove" /\ r.filter = ById({i})
  BY StepParts DEF Removes, IdInv
<1>1. RemoveLocal(r)
  BY <1>0, HandleKinds DEF Answers
<1>2. k \in jobDB /\ ~Accepts(r.filter, k)
  BY <1>1 DEF RemoveLocal, Query
<1>3. r.filter.kind = "ids" /\ r.filter.ids = {i}
  BY <1>0 DEF ById
<1> QED BY <1>2, <1>3 DEF Accepts

LEMMA ForwardsRemoveNext == ASSUME SeriesStep PROVE ForwardsRemove'
<1> SUFFICES ASSUME NEW s \in Slot, Forwards, thread'[s].next = "forwarding",
                    NEW k \in jobDB', k.id = thread'[s].job.id
             PROVE  \E r \in Range(jobDBRequests') \cup Range(thread'[s].todo) :
                      Removes(r, k.id)
  BY DEF ForwardsRemove
<1> DEFINE Meant == \E r \in Range(jobDBRequests') \cup Range(thread'[s].todo) :
                      Removes(r, k.id)
<1>0. /\ TypeOK /\ TypeOK' /\ PointsReached /\ PointsInv /\ CallersHoldNone
      /\ HandlerHolds /\ jobDBRequests \in Seq(Request)
      /\ k.id \in Nat
  <2>1. TypeOK /\ TypeOK'
    BY StepParts
  <2>2. k \in NumberedJob
    BY <2>1 DEF TypeOK
  <2> QED BY <2>1, <2>2, StepParts DEF TypeOK, NumberedJob, Job
\* It was on its way already.
<1>1. ASSUME thread[s].next = "forwarding", thread'[s].job = thread[s].job,
             \A r \in Range(jobDBRequests) \cup Range(thread[s].todo) :
               Removes(r, k.id) =>
                 r \in Range(jobDBRequests') \cup Range(thread'[s].todo)
      PROVE  Meant
  <2>1. thread[s].job \in LiveJobs
    BY <1>1 DEF LiveJobs, LiveAt
  <2>2. Settled(k.id)
    <3>1. Ran(k.id)
      BY <1>1, <2>1, StepParts DEF LiveRan
    <3> QED BY <3>1, RanSettled DEF SeriesStep
  <2>3. \E j \in jobDB : j.id = k.id
    BY <2>2, StepParts, SettledOrigin DEF SeriesStep, SameJob
  <2>4. \E r \in Range(jobDBRequests) \cup Range(thread[s].todo) :
          Removes(r, k.id)
    BY <1>1, <2>3, StepParts DEF ForwardsRemove
  <2> QED BY <1>1, <2>4
<1>2. CASE HandleRequest
  <2>1. /\ thread'[s].job = thread[s].job /\ thread'[s].todo = thread[s].todo
        /\ thread'[s].next = thread[s].next
    BY <1>0, <1>2, HandleHolders
  <2>2. /\ Range(jobDBRequests) = {Head(jobDBRequests)} \cup Range(jobDBRequests')
    BY <1>0, <1>2, HandleKinds, RangeHeadTail
  <2>3. ~Removes(Head(jobDBRequests), k.id)
    BY <1>0, <1>2, HeadRemoves
  <2> QED BY <1>1, <2>1, <2>2, <2>3
<1>3. ASSUME NEW t \in Slot, Send(t) PROVE Meant
  <2>1. /\ thread[t].todo \in Seq(Request) /\ thread[t].todo # <<>>
        /\ thread'[t].todo = Tail(thread[t].todo)
        /\ \A x \in Slot \ {t} : thread'[x] = thread[x]
        /\ jobDBRequests' = Append(jobDBRequests, Head(thread[t].todo))
        /\ thread'[t].next = thread[t].next
        /\ thread[t].next = "idle" \/ thread'[t].job = thread[t].job
    BY <1>0, <1>3, SendEffect
  <2>2. /\ Head(thread[t].todo) \in Request
        /\ Range(thread[t].todo) =
             {Head(thread[t].todo)} \cup Range(Tail(thread[t].todo))
    BY <2>1, RangeHeadTail
  <2>3. Range(jobDBRequests') =
          Range(jobDBRequests) \cup {Head(thread[t].todo)}
    BY <1>0, <2>1, <2>2, RangeAppend
  <2>4. CASE s = t
    BY <1>1, <2>1, <2>2, <2>3, <2>4
  <2>5. CASE s # t
    BY <1>1, <2>1, <2>3, <2>5
  <2> QED BY <2>4, <2>5
<1>4. ASSUME NEW t \in Slot, NEW p \in PendingActions, Takes(t, p)
      PROVE  Meant
  <2>1. s # t /\ thread'[s] = thread[s] /\ jobDBRequests' = jobDBRequests
    BY <1>4 DEF Takes
  <2> QED BY <1>1, <2>1
<1>5. ASSUME NEW t \in Slot, NEW requests, NEW next, NEW job, NEW reply,
             Goto(t, requests, next, job, reply),
             Turn(t, requests, next, job, reply)
      PROVE  Meant
  <2>1. CASE s = t
    <3>1. /\ thread'[s].todo = requests /\ next = "forwarding"
          /\ thread'[s].job = job
      BY <1>0, <1>5, <2>1, GotoEffect
    <3>2. requests = RemoveQuietly(ById({k.id}), "forward", TRUE)
      BY <1>5, <2>1, <3>1 DEF Turn
    <3>3. ById({k.id}) \in Filter /\ "forward" \in Markers
      BY <1>0 DEF ById, Filter, Markers
    <3>4. RemoveReq(ById({k.id}), TRUE, TRUE) \in Range(requests)
      BY <3>2, <3>3, RangeQuietly
    <3>5. Removes(RemoveReq(ById({k.id}), TRUE, TRUE), k.id)
      BY DEF Removes, RemoveReq
    <3> QED BY <3>1, <3>4, <3>5
  <2>2. CASE s # t
    <3>1. thread'[s] = thread[s] /\ jobDBRequests' = jobDBRequests
      BY <1>0, <1>5, <2>2, GotoEffect DEF Turn
    <3> QED BY <1>1, <3>1
  <2> QED BY <2>1, <2>2
<1>6. CASE Aside \/ \E job \in batch : Launch(job)
  <2>1. thread' = thread
    BY <1>6 DEF Aside, Launch
  <2>2. Range(jobDBRequests) \subseteq Range(jobDBRequests')
    <3>1. CASE SendOwn
      BY <1>0, <3>1, RequestsStay, StepParts DEF SeriesStep, SendOwn, HandleRequest,
         HandlerReady
    <3>2. CASE jobDBRequests' = jobDBRequests
      BY <3>2
    <3> QED BY <1>6, <3>1, <3>2 DEF Aside, Launch
  <2> QED BY <1>1, <2>1, <2>2
<1> QED BY <1>0, <1>2, <1>3, <1>4, <1>5, <1>6, StepKinds DEF SeriesStep

LEMMA HandleWaits ==
  ASSUME SeriesStep, HandleRequest, NEW i \in Nat, NEW root,
         NEW k \in jobDB', k.id = i,
         \E j \in jobDB : j.id = i /\ j.root = root
  PROVE  /\ \A n \in 1..Len(jobDBRequests') :
              (jobDBRequests'[n].op = "add" /\ jobDBRequests'[n].job.root = root) =>
                /\ Forwards /\ Ran(i)
                /\ \E m \in 1..(n - 1) : Removes(jobDBRequests'[m], i)
         /\ \A s \in Slot : \A r \in Range(thread'[s].todo) :
              (r.op = "add" /\ r.job.root = root) =>
                /\ Forwards /\ Ran(i)
                /\ \E q \in Range(jobDBRequests') : Removes(q, i)
<1> DEFINE q == jobDBRequests
<1>0. /\ TypeOK /\ PointsInv /\ AddsWait /\ q \in Seq(Request) /\ q # <<>>
      /\ jobDBRequests' = Tail(q)
  BY StepParts, HandleKinds DEF TypeOK
<1>1. PICK j \in jobDB : j.id = i /\ j.root = root
  OBVIOUS
<1>2. ~Removes(Head(q), i)
  BY HeadRemoves
<1>3. /\ Len(q) \in Nat \ {0} /\ Len(Tail(q)) = Len(q) - 1 /\ Head(q) = q[1]
      /\ \A n \in 1..(Len(q) - 1) : Tail(q)[n] = q[n + 1]
  BY <1>0, HeadTailProperties, LenProperties
<1>4. ASSUME NEW n \in 1..Len(Tail(q)),
             Tail(q)[n].op = "add", Tail(q)[n].job.root = root
      PROVE  /\ Forwards /\ Ran(i)
             /\ \E m \in 1..(n - 1) : Removes(Tail(q)[m], i)
  <2>1. n + 1 \in 1..Len(q) /\ Tail(q)[n] = q[n + 1]
    BY <1>3
  <2>2. Forwards /\ Ran(i) /\ \E m \in 1..((n + 1) - 1) : Removes(q[m], i)
    BY <1>0, <1>1, <1>4, <2>1 DEF AddsWait, AddsWaitFor
  <2>3. PICK m \in 1..((n + 1) - 1) : Removes(q[m], i)
    BY <2>2
  <2>4. m # 1
    BY <1>2, <1>3, <2>3
  <2>5. m - 1 \in 1..(n - 1) /\ Tail(q)[m - 1] = q[m]
    <3>1. /\ m - 1 \in 1..(n - 1) /\ m - 1 \in 1..(Len(q) - 1)
          /\ (m - 1) + 1 = m
      BY <1>3, <2>4
    <3> QED BY <1>3, <3>1
  <2> QED BY <2>2, <2>3, <2>5
<1>5. ASSUME NEW s \in Slot, NEW r \in Range(thread'[s].todo),
             r.op = "add", r.job.root = root
      PROVE  Forwards /\ Ran(i) /\ \E p \in Range(Tail(q)) : Removes(p, i)
  <2>1. thread'[s].todo = thread[s].todo
    BY <1>0, HandleHolders
  <2>2. Forwards /\ Ran(i) /\ \E p \in Range(q) : Removes(p, i)
    BY <1>0, <1>1, <1>5, <2>1 DEF AddsWait, AddsWaitFor
  <2>3. Range(q) = {Head(q)} \cup Range(Tail(q))
    BY <1>0, RangeHeadTail
  <2> QED BY <1>2, <2>2, <2>3
<1> QED BY <1>0, <1>4, <1>5

\* The channel grows at its end.
LEMMA AppendWaits ==
  ASSUME NEW q \in Seq(Request), NEW r \in Request, NEW i, NEW root,
         \A n \in 1..Len(q) : (q[n].op = "add" /\ q[n].job.root = root) =>
           Forwards /\ Ran(i) /\ \E m \in 1..(n - 1) : Removes(q[m], i),
         (r.op = "add" /\ r.job.root = root) =>
           Forwards /\ Ran(i) /\ \E p \in Range(q) : Removes(p, i)
  PROVE  /\ \A n \in 1..Len(Append(q, r)) :
              (Append(q, r)[n].op = "add" /\ Append(q, r)[n].job.root = root) =>
                Forwards /\ Ran(i) /\ \E m \in 1..(n - 1) : Removes(Append(q, r)[m], i)
         /\ Range(Append(q, r)) = Range(q) \cup {r}
<1> DEFINE a == Append(q, r)
<1>1. /\ Len(q) \in Nat /\ Len(a) = Len(q) + 1
      /\ \A n \in 1..Len(q) : a[n] = q[n]
      /\ a[Len(q) + 1] = r
  BY AppendProperties, LenProperties
<1> HIDE DEF a
<1>2. ASSUME NEW n \in 1..Len(a), a[n].op = "add", a[n].job.root = root
      PROVE  Forwards /\ Ran(i) /\ \E m \in 1..(n - 1) : Removes(a[m], i)
  <2>1. CASE n \in 1..Len(q)
    <3>1. Forwards /\ Ran(i) /\ \E m \in 1..(n - 1) : Removes(q[m], i)
      BY <1>1, <1>2, <2>1
    <3>2. 1..(n - 1) \subseteq 1..Len(q)
      BY <1>1, <2>1
    <3> QED BY <1>1, <3>1, <3>2
  <2>2. CASE n = Len(q) + 1
    <3>1. Forwards /\ Ran(i) /\ \E p \in Range(q) : Removes(p, i)
      BY <1>1, <1>2, <2>2
    <3>2. PICK m \in 1..Len(q) : Removes(q[m], i)
      BY <3>1 DEF Range
    <3>3. m \in 1..(n - 1)
      BY <1>1, <2>2, <3>2
    <3> QED BY <1>1, <3>1, <3>2, <3>3
  <2>3. n \in 1..Len(q) \/ n = Len(q) + 1
    BY <1>1
  <2> QED BY <2>1, <2>2, <2>3
<1>3. Range(a) = Range(q) \cup {r}
  BY RangeAppend DEF a
<1> QED BY <1>2, <1>3 DEF a

\* A goroutine adds an instance of a series whose job is in the database: it
\* could not forward it.
LEMMA TurnWaits ==
  ASSUME SeriesStep, NEW s \in Slot, NEW requests, NEW next, NEW job, NEW reply,
         Goto(s, requests, next, job, reply),
         Turn(s, requests, next, job, reply),
         NEW r \in Range(requests), r.op = "add",
         NEW j \in jobDB, r.job.root = j.root
  PROVE  /\ Forwards /\ Ran(j.id)
         /\ \E q \in Range(jobDBRequests) : Removes(q, j.id)
<1>0. /\ TypeOK /\ PointsInv /\ PointsReached /\ StoredApart /\ LiveRan
      /\ ForwardsRemove
  BY StepParts
<1>1. Derived(s, r.job)
  BY DEF Turn, Proper
<1>2. j.root # nextID
  <2>1. j \in NumberedJob /\ nextID \in Nat
    BY <1>0, MaxIDNat DEF TypeOK
  <2>2. j.root <= j.id /\ j.id < nextID
    BY DEF SeriesStep, SeenInv, Sane
  <2> QED BY <2>1, <2>2 DEF NumberedJob, Job
<1>3. /\ j.root = thread[s].job.root
      /\ \/ thread[s].pc = "forwarding"
         \/ thread[s].pc = "followup" /\ thread[s].job.periodic # 0
  BY <1>1, <1>2 DEF Derived
<1>4. ~(thread[s].pc = "followup" /\ thread[s].job.periodic # 0)
  <2> SUFFICES ASSUME thread[s].pc = "followup", thread[s].job.periodic # 0
               PROVE  FALSE
    OBVIOUS
  <2>1. thread[s].job \in FollowJobs
    BY DEF FollowJobs, FollowsAt, DonePC
  <2> QED BY <1>0, <1>3, <2>1 DEF StoredApart
<1>5. /\ Forwards /\ thread[s].next = "forwarding" /\ thread[s].todo = <<>>
  BY <1>0, <1>3, <1>4 DEF PointsReached, PointsInv, PointsOK, Forwards
<1>6. thread[s].job \in LiveJobs
  BY <1>5 DEF LiveJobs, LiveAt
<1>7. j.id = thread[s].job.id /\ Ran(j.id)
  BY <1>0, <1>3, <1>6 DEF StoredApart, LiveRan
<1>8. Range(thread[s].todo) = {}
  BY <1>5, RangeEmpty
<1> QED BY <1>0, <1>5, <1>7, <1>8 DEF ForwardsRemove

LEMMA AddsWaitNext == ASSUME SeriesStep PROVE AddsWait'
<1> SUFFICES ASSUME NEW k \in jobDB'
             PROVE  AddsWaitFor(k)'
  BY DEF AddsWait, AddsWaitFor
<1> DEFINE q == jobDBRequests
           Waits(channel, i, root) ==
             \A n \in 1..Len(channel) :
               (channel[n].op = "add" /\ channel[n].job.root = root) =>
                 /\ Forwards /\ Ran(i)
                 /\ \E m \in 1..(n - 1) : Removes(channel[m], i)
           Occupied(todo, channel, i, root) ==
             \A r \in Range(todo) :
               (r.op = "add" /\ r.job.root = root) =>
                 /\ Forwards /\ Ran(i)
                 /\ \E p \in Range(channel) : Removes(p, i)
<1>0. /\ TypeOK /\ TypeOK' /\ PointsReached /\ PointsInv /\ CallersHoldNone
      /\ HandlerHolds /\ AddsWait /\ q \in Seq(Request) /\ own \in Seq(Request)
      /\ k.id \in Nat
  <2>1. TypeOK /\ TypeOK'
    BY StepParts
  <2>2. k \in NumberedJob
    BY <2>1 DEF TypeOK
  <2> QED BY <2>1, <2>2, StepParts DEF TypeOK, NumberedJob, Job
<1>1. ASSUME NEW j \in jobDB, SameJob(j, k)
      PROVE  AddsWaitFor(k)'
  <2> DEFINE i == j.id
             root == j.root
             Kept == /\ Waits(q', i, root)
                     /\ \A s \in Slot : Occupied(thread'[s].todo, q', i, root)
  <2>0. /\ k.id = i /\ k.root = root
        /\ Waits(q, i, root) /\ \A s \in Slot : Occupied(thread[s].todo, q, i, root)
    BY <1>0, <1>1 DEF SameJob, AddsWait, AddsWaitFor
  <2>1. ASSUME HandleRequest PROVE Kept
    <3>1. \E x \in jobDB : x.id = i /\ x.root = root
      BY <1>1
    <3> HIDE DEF i, root
    <3> QED BY <1>0, <2>0, <2>1, <3>1, HandleWaits
  <2>2. ASSUME NEW t \in Slot, Send(t) PROVE Kept
    <3>1. /\ thread[t].todo \in Seq(Request) /\ thread[t].todo # <<>>
          /\ thread'[t].todo = Tail(thread[t].todo)
          /\ \A x \in Slot \ {t} : thread'[x] = thread[x]
          /\ q' = Append(q, Head(thread[t].todo))
      BY <1>0, <2>2, SendEffect
    <3>2. /\ Head(thread[t].todo) \in Request
          /\ Range(thread[t].todo) =
               {Head(thread[t].todo)} \cup Range(Tail(thread[t].todo))
      BY <3>1, RangeHeadTail
    <3>3. /\ Waits(Append(q, Head(thread[t].todo)), i, root)
          /\ Range(q) \subseteq Range(q')
      <4>1. PICK h \in Request : h = Head(thread[t].todo)
        BY <3>2
      <4>2. (h.op = "add" /\ h.job.root = root) =>
              Forwards /\ Ran(i) /\ \E p \in Range(q) : Removes(p, i)
        BY <2>0, <3>2, <4>1
      <4>3. Waits(q, i, root) /\ q \in Seq(Request)
        BY <1>0, <2>0
      <4> HIDE DEF i, root
      <4>4. Waits(Append(q, h), i, root) /\ Range(Append(q, h)) = Range(q) \cup {h}
        BY <4>2, <4>3, AppendWaits
      <4> QED BY <3>1, <4>1, <4>4
    <3> QED BY <2>0, <3>1, <3>2, <3>3
  <2>3. ASSUME NEW t \in Slot, NEW p \in PendingActions, Takes(t, p)
        PROVE  Kept
    <3>1. /\ \A x \in Slot \ {t} : thread'[x] = thread[x]
          /\ Range(thread'[t].todo) = {} /\ q' = q
      BY <2>3, RangeEmpty DEF Takes
    <3> QED BY <2>0, <3>1
  <2>4. ASSUME NEW t \in Slot, NEW requests, NEW next, NEW job, NEW reply,
               Goto(t, requests, next, job, reply),
               Turn(t, requests, next, job, reply)
        PROVE  Kept
    <3>1. /\ \A x \in Slot \ {t} : thread'[x] = thread[x]
          /\ thread'[t].todo = requests /\ q' = q
      BY <1>0, <2>4, GotoEffect DEF Turn
    <3>2. Occupied(requests, q, i, root)
      BY <1>1, <2>4, TurnWaits
    <3> QED BY <2>0, <3>1, <3>2
  <2>5. ASSUME Aside \/ \E job \in batch : Launch(job) PROVE Kept
    <3>1. thread' = thread
      BY <2>5 DEF Aside, Launch
    <3>2. CASE q' = q
      BY <2>0, <3>1, <3>2
    <3>3. CASE SendOwn
      <4>1. own # <<>> /\ q' = Append(q, Head(own)) /\ Head(own) = own[1]
        BY <1>0, <3>3 DEF SendOwn
      <4>2. 1 \in DOMAIN own /\ Head(own) \in Request
        BY <1>0, <4>1, LenProperties
      <4>3. Head(own).op # "add"
        BY <1>0, <4>1, <4>2 DEF HandlerHolds
      <4>4. PICK h \in Request : h = Head(own)
        BY <4>2
      <4>5. /\ Waits(q, i, root) /\ q \in Seq(Request)
            /\ ~(h.op = "add" /\ h.job.root = root)
        BY <1>0, <2>0, <4>3, <4>4
      <4>6. /\ Waits(Append(q, h), i, root)
            /\ Range(Append(q, h)) = Range(q) \cup {h}
        <5> HIDE DEF i, root
        <5> QED BY <4>5, AppendWaits
      <4>7. Waits(q', i, root) /\ Range(q) \subseteq Range(q')
        BY <4>1, <4>4, <4>6
      <4> QED BY <2>0, <3>1, <4>7
    <3> QED BY <2>5, <3>2, <3>3 DEF Aside, Launch
  <2>6. Kept
    BY <1>0, <2>0, <2>1, <2>2, <2>3, <2>4, <2>5, HandleWaits, StepKinds
       DEF SeriesStep
  <2>7. Ran(i) => Ran(i)'
    BY RanStays
  <2> QED BY <2>0, <2>6, <2>7 DEF AddsWaitFor
<1>2. ASSUME Carries(k.root)' = {} PROVE AddsWaitFor(k)'
  <2>1. PICK root : root = k.root
    OBVIOUS
  <2>2. Carries(root)' = {}
    BY <1>2, <2>1
  <2>3. \A r \in UnderWay' : r.op = "add" => r.job.root # root
    BY <2>2, NoHoldersNext
  <2>4. \A n \in 1..Len(q') : q'[n] \in UnderWay'
    <3>1. \A n \in 1..Len(q') : q'[n] \in Range(q')
      BY <1>0 DEF Range, TypeOK
    <3> QED BY <3>1 DEF UnderWay
  <2>5. \A s \in Slot : Range(thread'[s].todo) \subseteq UnderWay'
    BY DEF UnderWay
  <2> QED BY <2>1, <2>3, <2>4, <2>5 DEF AddsWaitFor
<1> QED BY <1>1, <1>2, StoredOrigin

\* What has ended stays so: only a launch or a removal of the job starts a new
\* holder, and the job has been launched already.
LEMMA SpentStays ==
  ASSUME SeriesStep, Forwards, NEW i, Spent(i) PROVE Spent(i)'
<1>0. Ran(i) /\ Ran(i)'
  BY RanStays DEF Spent
<1>1. ASSUME NEW k \in jobDB', k.id = i, NEW root, root = k.root
      PROVE  Carries(root)' = {}
  <2>1. Settled(k.id)
    BY <1>0, <1>1, RanSettled DEF SeriesStep
  <2>2. PICK j \in jobDB : SameJob(j, k)
    BY <2>1, StepParts, SettledOrigin DEF SeriesStep
  <2>3. j.id = i /\ j.root = root /\ Carries(root) = {}
    BY <1>1, <2>2 DEF SameJob, Spent
  <2>4. root \in Nat /\ root < nextID
    <3>1. j \in NumberedJob /\ nextID \in Nat
      BY StepParts, MaxIDNat DEF TypeOK
    <3>2. j.root <= j.id /\ j.id < nextID
      BY DEF SeriesStep, SeenInv, Sane
    <3> QED BY <2>3, <3>1, <3>2 DEF NumberedJob, Job
  <2>5. ~Begins(root)
    <3>1. root # nextID
      <4>1. nextID \in Nat
        BY StepParts, MaxIDNat DEF TypeOK
      <4> QED BY <2>4, <4>1
    <3>2. ~\A x \in jobDB' : x.root # root
      BY <1>1
    <3>3. \A x \in jobDB : x.root = root => x = j
      BY <2>3, StepParts DEF StoredOnce
    <3>4. launches[j.id] # 0
      BY <1>0, <2>3 DEF Ran
    <3> QED BY <3>1, <3>2, <3>3, <3>4 DEF Begins
  <2>6. Moves(root)
    BY <2>4, SeriesMoves
  <2> QED BY <2>3, <2>5, <2>6 DEF Moves
<1> QED BY <1>0, <1>1 DEF Spent

\* The requests a step makes, other than the modifications.
LEMMA RemoveOrigin ==
  ASSUME SeriesStep, Forwards, NEW q \in UnderWay', q \notin UnderWay,
         q.op = "remove"
  PROVE  \E s \in Slot : \E requests, next, job, reply :
           /\ Goto(s, requests, next, job, reply)
           /\ Turn(s, requests, next, job, reply)
           /\ q \in Range(requests)
<1>0. /\ TypeOK /\ TypeOK' /\ PointsReached /\ CallersHoldNone /\ HandlerHolds
  BY StepParts
<1>1. CASE HandleRequest \/ SendOwn
  BY <1>0, <1>1, HandlerRequests
<1>2. CASE \E s \in Slot : Send(s)
  BY <1>0, <1>2, SendRequests
<1>3. ASSUME NEW s \in Slot, NEW p \in PendingActions, Takes(s, p)
      PROVE  FALSE
  <2>1. /\ Range(thread'[s].todo) = {} /\ UNCHANGED <<own, jobDBRequests>>
        /\ \A t \in Slot \ {s} : thread'[t] = thread[t]
    BY <1>3, RangeEmpty DEF Takes
  <2> QED BY <2>1 DEF UnderWay
<1>4. ASSUME NEW s \in Slot, NEW requests, NEW next, NEW job, NEW reply,
             Goto(s, requests, next, job, reply),
             Turn(s, requests, next, job, reply)
      PROVE  q \in Range(requests)
  BY <1>0, <1>4, GotoRequests DEF Turn, handlerVars
<1>5. ASSUME NEW job \in batch, Launch(job) PROVE FALSE
  BY <1>5 DEF Launch, UnderWay
<1>6. CASE Aside /\ ~SendOwn
  <2>1. UNCHANGED <<jobDBRequests, thread>> /\ q \in Range(own')
    BY <1>6 DEF Aside, UnderWay
  <2>2. own' # own
    BY <2>1 DEF UnderWay
  <2>3. CASE ProcessPendingActions
    <3> DEFINE a == ModifyReq(DueAt(clock), [status |-> "launch"])
               b == ModifyReq(InWindow(clock, {j.tminus : j \in jobDB}),
                              [status |-> "wakeup"])
    <3>1. own' = <<a, b>> /\ a.op = "modify" /\ b.op = "modify"
      BY <2>3 DEF ProcessPendingActions, ModifyReq
    <3> HIDE DEF a, b
    <3>2. a \in Request /\ b \in Request
      BY <1>0, <3>1, TwoElements DEF TypeOK
    <3> QED BY <2>1, <3>1, <3>2, RangeTwo
  <2>4. ASSUME NEW job \in batch, IsInstall(job) PROVE FALSE
    <3>1. job \in jobDB
      BY <1>0 DEF HandlerHolds
    <3> QED BY <2>4, <3>1 DEF SeriesStep, SeenInv, Sane, Plain
  <2> QED BY <1>6, <2>2, <2>3, <2>4 DEF Aside
<1> QED BY <1>0, <1>1, <1>2, <1>3, <1>4, <1>5, <1>6, StepKinds DEF SeriesStep

\* The end of an action: the goroutine sends the removal and carries the series
\* no more.
LEMMA ActSpends ==
  ASSUME SeriesStep, Forwards, NEW s \in Slot, NEW requests, NEW next, NEW job,
         NEW reply, Goto(s, requests, next, job, reply),
         Turn(s, requests, next, job, reply), thread[s].pc = "act",
         next = "idle", requests # <<>>, NEW i, i = thread[s].job.id
  PROVE  Spent(i)'
<1>0. /\ TypeOK /\ TypeOK' /\ PointsInv /\ PointsReached /\ CarriedOnce
      /\ StoredApart /\ LiveRan
  BY StepParts
<1>1. LiveAt(s) /\ thread[s].job \in LiveJobs
  BY DEF LiveAt, LiveJobs
<1>2. Ran(i) /\ Ran(i)'
  BY <1>0, <1>1, RanStays DEF LiveRan
<1>3. /\ jobDB' = jobDB /\ PendingActions' = PendingActions
      /\ UnderWay' \subseteq UnderWay \cup Range(requests)
  BY <1>0, GotoRequests DEF Turn, dbVars, handlerVars
<1>4. ASSUME NEW j \in jobDB, j.id = i, NEW root, root = j.root
      PROVE  Carries(root)' = {}
  <2>1. thread[s].job.root = root
    BY <1>0, <1>1, <1>4 DEF StoredApart
  <2>2. root \in Nat /\ root < nextID
    <3>1. j \in NumberedJob /\ nextID \in Nat
      BY <1>0, MaxIDNat DEF TypeOK
    <3>2. j.root <= j.id /\ j.id < nextID
      BY DEF SeriesStep, SeenInv, Sane
    <3> QED BY <1>4, <3>1, <3>2 DEF NumberedJob, Job
  <2>3. <<"thread", s>> \in Carries(root)
    BY <1>1, <2>1 DEF Carries, HoldersOf
  <2>4. Once(Carries(root))
    BY <1>0, <2>2 DEF CarriedOnce
  <2>5. <<"thread", s>> \notin Carries(root)'
    <3>1. thread'[s].next = next
      BY <1>0, GotoEffect
    <3>2. ~LiveAt(s)' /\ ~FollowsAt(s)'
      BY <1>0, <3>1, TurnHolders
    <3> QED BY <3>2 DEF Carries, HoldersOf
  <2>6. ASSUME NEW x \in Carries(root)', x \notin Carries(root) PROVE FALSE
    <3>1. ASSUME NEW t \in Slot, NEW p \in PendingOf(root), Takes(t, p)
          PROVE  FALSE
      BY <1>3, <3>1 DEF Takes
    <3>2. PICK q \in UnderWay' : /\ q \notin UnderWay /\ q.op = "add"
                                 /\ q.job.root = root
      BY <1>3, <2>6, <3>1, CarriesGrows
    <3>3. Derived(s, q.job)
      BY <1>3, <3>2 DEF Turn, Proper
    <3>4. root = nextID
      BY <3>2, <3>3 DEF Derived
    <3>5. nextID \in Nat
      BY <1>0, MaxIDNat DEF TypeOK
    <3> QED BY <2>2, <3>4, <3>5
  <2> QED BY <2>3, <2>4, <2>5, <2>6 DEF Once
<1> QED BY <1>2, <1>3, <1>4 DEF Spent

LEMMA RemovalsSpentNext == ASSUME SeriesStep PROVE RemovalsSpent'
<1> SUFFICES ASSUME Forwards, NEW r \in UnderWay', r.op = "remove", ~r.stop
             PROVE  \E i \in 1..MaxID : r.filter = ById({i}) /\ Spent(i)'
  BY DEF RemovalsSpent
<1>1. CASE r \in UnderWay
  <2>1. PICK i \in 1..MaxID : r.filter = ById({i}) /\ Spent(i)
    BY <1>1, StepParts DEF RemovalsSpent
  <2>2. Spent(i)'
    BY <2>1, SpentStays
  <2> QED BY <2>1, <2>2
<1>2. CASE r \notin UnderWay
  <2>1. PICK s \in Slot : \E requests, next, job, reply :
          /\ Goto(s, requests, next, job, reply)
          /\ Turn(s, requests, next, job, reply)
          /\ r \in Range(requests)
    BY <1>2, RemoveOrigin
  <2>2. PICK requests, next, job, reply :
          /\ Goto(s, requests, next, job, reply)
          /\ Turn(s, requests, next, job, reply)
          /\ r \in Range(requests)
    BY <2>1
  <2>3. Warranted(s, r, next)
    BY <2>2 DEF Turn, Proper
  <2>4. Messages \cap {"hia", "progress"} = {}
    BY DEF SeriesStep, ForwardsAlone
  <2>5. ~\E x \in thread[s].reply : IsInstall(x)
    BY DEF SeriesStep, SeenInv, Plain
  <2>6. /\ thread[s].pc = "act" /\ next = "idle"
        /\ r.filter = ById({thread[s].job.id})
    BY <2>3, <2>4, <2>5 DEF Warranted
  <2>7. requests # <<>>
    BY <2>2, RangeEmpty
  <2>8. PICK i : i = thread[s].job.id
    OBVIOUS
  <2>9. Spent(i)'
    BY <2>2, <2>6, <2>7, <2>8, ActSpends
  <2>10. i \in 1..MaxID
    BY <2>9 DEF Spent, Ran
  <2> QED BY <2>6, <2>8, <2>9, <2>10
<1> QED BY <1>1, <1>2

LEMMA SingleNext ==
  ASSUME ForwardsAlone, Foundations, SeenInv, Single, [Next]_vars, ~Restart
  PROVE  Single'
<1>1. SeriesStep
  BY FoundationsNext, SeenNext DEF SeriesStep
<1> QED BY <1>1, CarriedOnceNext, StoredOnceNext, StoredApartNext, LiveRanNext,
           ForwardsRemoveNext, AddsWaitNext, RemovalsSpentNext DEF Single

\* Nothing is under way, and no goroutine runs.
Fresh ==
  /\ PendingActions = {} /\ jobDBRequests = <<>> /\ own = <<>>
  /\ \A s \in Slot : thread[s] = Idle

LEMMA FreshSingle == ASSUME Fresh, StoredOnce PROVE Single
<1>1. UnderWay = {} /\ Range(<<>>) = {}
  BY RangeEmpty DEF Fresh, UnderWay, Idle
<1>2. \A s \in Slot : ~LiveAt(s) /\ ~FollowsAt(s) /\ thread[s].next = "idle"
  BY DEF Fresh, Idle, LiveAt, FollowsAt, DonePC
<1>3. LiveJobs = {} /\ FollowJobs = {} /\ \A root : Carries(root) = {}
  BY <1>1, <1>2 DEF Fresh, LiveJobs, FollowJobs, Carries, PendingOf, HoldersOf,
                    AddsOf
<1>4. Len(<<>>) = 0
  OBVIOUS
<1>5. AddsWait
  <2>1. 1..Len(jobDBRequests) = {} /\ \A s \in Slot : Range(thread[s].todo) = {}
    BY <1>1, <1>4 DEF Fresh, Idle
  <2> QED BY <2>1 DEF AddsWait, AddsWaitFor
<1> QED BY <1>1, <1>2, <1>3, <1>5 DEF Single, CarriedOnce, Once, StoredApart,
                                      LiveRan, ForwardsRemove, RemovalsSpent

LEMMA FreshSingleNext == (Fresh /\ StoredOnce => Single)'
<1>1. Fresh /\ StoredOnce => Single
  BY FreshSingle
<1> QED BY <1>1, PTL

LEMMA SingleInit == Init => Single
<1> SUFFICES ASSUME Init PROVE Single
  OBVIOUS
<1>1. Fresh /\ StoredOnce
  BY DEF Init, Fresh, StoredOnce
<1> QED BY <1>1, FreshSingle

LEMMA SingleRestart == ASSUME Single, Restart PROVE Single'
<1>1. Fresh'
  BY DEF Restart, Fresh
<1>2. StoredOnce'
  BY DEF Single, StoredOnce, Restart
<1> QED BY <1>1, <1>2, FreshSingleNext

\* AtMostOneInstance: however removals, follow-ups and failed forwards
\* interleave, a series has one job in the database.  With forwarding this is
\* so while every job is launched once and nothing but the end of its action
\* removes it without stopping its series.
THEOREM OneInstance == ForwardsAlone => (Spec => []AtMostOneInstance)
<1> SUFFICES ASSUME ForwardsAlone PROVE Spec => []AtMostOneInstance
  OBVIOUS
<1> DEFINE Inv == Foundations /\ SeenInv /\ Single
<1>1. Init => Inv
  BY InitIds, LaunchInvInit, PointsInit, OnceInvInit, SeenInit, SingleInit
     DEF Foundations
<1>2. Inv /\ [Next]_vars => Inv'
  <2> SUFFICES ASSUME Inv, [Next]_vars PROVE Inv'
    OBVIOUS
  <2>1. Foundations' /\ SeenInv'
    BY FoundationsNext, SeenNext
  <2>2. Single'
    BY SingleNext, SingleRestart
  <2> QED BY <2>1, <2>2
<1>3. Inv => AtMostOneInstance
  BY DEF Single, StoredOnce, AtMostOneInstance
<1> QED BY <1>1, <1>2, <1>3, PTL DEF Spec

=============================================================================
