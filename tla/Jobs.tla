-------------------------------- MODULE Jobs --------------------------------
(***************************************************************************)
(* Job records, the filters that select them and the updates that change   *)
(* them: the vocabulary of go-susi/db/jobdb.go shared by every module that *)
(* models a part of the job pipeline.                                      *)
(*                                                                         *)
(* A job keeps the columns some decision of the code depends on.  Times    *)
(* are ticks of a clock; a <periodic> or <tminus> duration is a number of  *)
(* ticks and 0 stands for a missing one.  Names, tags for the client and   *)
(* the <xmlmessage> column are left out.                                   *)
(***************************************************************************)
EXTENDS Integers

CONSTANTS
  MAC,       \* hardware addresses of the managed machines
  HeaderTag  \* the <headertag> values in use, strings as in the code

InstallTags == {"trigger_action_reinstall", "trigger_action_update"}

\* Actions that Forward() always leaves to the server that owns the job.
NeverForwarded == {"send_user_msg", "trigger_action_wake",
                   "trigger_action_lock", "trigger_action_localboot"}

Status == {"waiting", "paused", "wakeup", "processing", "error", "done"}

\* Markers that are not percentages.
Markers == {"none", "groom", "forward", "forward-failed"}

\* A client reports "50" somewhere on the way and "100" at the end.
Percentages == {"50", "100"}
Percent == [p \in Percentages |-> IF p = "50" THEN 50 ELSE 100]

Progress == Markers \cup Percentages

\* root is the id of the first job of a periodic series: it is not in the
\* code and only lets properties follow the series.
Job == [id: Nat, root: Nat, headertag: HeaderTag, macaddress: MAC,
        status: Status, progress: Progress,
        timestamp: Nat, periodic: Nat, tminus: Nat]

IsInstall(job) == job.headertag \in InstallTags

-----------------------------------------------------------------------------
(* Filters.                                                                *)

ById(ids)              == [kind |-> "ids", ids |-> ids]
DueAt(now)             == [kind |-> "due", now |-> now]
InWindow(now, tminuss) == [kind |-> "tminus", now |-> now, tminuss |-> tminuss]
Processing(mac)        == [kind |-> "processing", mac |-> mac]
ProcessingTag(mac, t)  == [kind |-> "tag", mac |-> mac, headertag |-> t]
Installing(mac, except)== [kind |-> "install", mac |-> mac, except |-> except]
BehindProgress(mac, p) == [kind |-> "progress", mac |-> mac, progress |-> p]
HasTminus(mac)         == [kind |-> "hastminus", mac |-> mac]
OlderThan(now)         == [kind |-> "older", now |-> now]

Filter ==
       [kind : {"ids"}, ids : SUBSET Nat]
  \cup [kind : {"due", "older"}, now : Nat]
  \cup [kind : {"tminus"}, now : Nat, tminuss : SUBSET Nat]
  \cup [kind : {"processing", "hastminus"}, mac : MAC]
  \cup [kind : {"tag"}, mac : MAC, headertag : HeaderTag]
  \cup [kind : {"install"}, mac : MAC, except : Nat]
  \cup [kind : {"progress"}, mac : MAC, progress : Percentages]

\* Seeded bug: percentages are compared as text, "100" sorts before "50".
BehindAsText(progress, p) ==
  progress \in Markers \/ (progress = "100" /\ p = "50")

\* "Do not run progress backwards": FilterRel compares numbers as numbers, and
\* every marker sorts after "100" as text, so a marker never holds back a
\* percentage.
Behind(progress, p) ==
  progress \in Markers \/ Percent[progress] < Percent[p]

Accepts(f, job) ==
  CASE f.kind = "ids"        -> job.id \in f.ids
    [] f.kind = "due"        -> /\ job.status \in {"waiting", "wakeup"}
                                /\ job.timestamp <= f.now
    [] f.kind = "tminus"     -> /\ job.status = "waiting"
                                /\ job.tminus \in f.tminuss \ {0}
                                /\ job.timestamp <= f.now + job.tminus
    [] f.kind = "processing" -> /\ job.status = "processing"
                                /\ job.macaddress = f.mac
    [] f.kind = "tag"        -> /\ job.status = "processing"
                                /\ job.macaddress = f.mac
                                /\ job.headertag = f.headertag
    [] f.kind = "install"    -> /\ job.status = "processing"
                                /\ job.macaddress = f.mac
                                /\ IsInstall(job)
                                /\ job.id # f.except
    [] f.kind = "progress"   -> /\ job.status = "processing"
                                /\ job.macaddress = f.mac
                                /\ Behind(job.progress, f.progress)
    [] f.kind = "hastminus"  -> /\ job.macaddress = f.mac
                                /\ job.tminus # 0
    [] f.kind = "older"      -> job.timestamp < f.now

Query(db, f) == {job \in db : Accepts(f, job)}

-----------------------------------------------------------------------------
(* Updates: the updatableFields a request carries.  A field that is absent *)
(* from the request is absent from the record.                             *)

Update ==
       [progress : Progress]
  \cup [status : Status \cup {"launch"}]
  \cup [status : Status, timestamp : Nat]

Apply(job, update) ==
  [job EXCEPT
     !.status    = IF "status" \in DOMAIN update THEN update.status ELSE @,
     !.progress  = IF "progress" \in DOMAIN update THEN update.progress ELSE @,
     !.timestamp = IF "timestamp" \in DOMAIN update
                     THEN update.timestamp ELSE @]

\* Seeded bug: the removed job never carries <periodic>.
DoneForGood(job, stop_periodic) == [job EXCEPT !.status = "done", !.periodic = 0]

\* The job as JobsRemoveLocal hands it on.
Done(job, stop_periodic) ==
  [job EXCEPT !.status = "done",
              !.periodic = IF stop_periodic THEN 0 ELSE @]

\* Start of the next instance of a periodic job: at least one period after
\* the old timestamp, and not in the past.
NextStart(job, now) ==
  LET late == now - job.timestamp
      k == IF late <= job.periodic THEN 1
           ELSE (late + job.periodic - 1) \div job.periodic
  IN  job.timestamp + k * job.periodic

\* What the done branch of process_act.go schedules after a periodic job.
NextInstance(job, id, now) ==
  [job EXCEPT !.id = id, !.status = "waiting", !.progress = "none",
              !.timestamp = NextStart(job, now)]

WindowStart(job) == job.timestamp - job.tminus

\* Seeded bug: a job with <tminus> is only scheduled for its window.
PingWindowOnly(job) == {WindowStart(job)}

\* The times at which a job wants processPendingActions pinged.
PingTimes(job) ==
  {job.timestamp} \cup
  (IF job.tminus = 0 THEN {} ELSE {WindowStart(job)})
=============================================================================
