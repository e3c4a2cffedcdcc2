------------------------------- MODULE XmlDB -------------------------------
(***************************************************************************)
(* The database type of xml/xml_db.go that keeps jobs, servers and clients *)
(* in memory and, some time after a change, in a file.                     *)
(*                                                                         *)
(* Every method takes the write lock (queries a read lock), so a change is *)
(* one step.  A change schedules a persist job unless one is scheduled:    *)
(* a goroutine that sleeps for persistDelay and then calls Persist.  That  *)
(* takes several steps under the lock: a temporary file is written and     *)
(* then renamed over the old one, any of which may fail, and the process   *)
(* may end between any two steps.                                          *)
(*                                                                         *)
(* The database is a set of items: what distinguishes two clones of one    *)
(* item is of no interest here, and a filter is the set it selects.        *)
(***************************************************************************)
EXTENDS Integers

CONSTANTS
  Item,
  persistDelay,
  MaxTime,   \* bound: last tick of the clock
  MaxCalls   \* bound: explicit calls of Persist()

ASSUME XmlDBConstants ==
  persistDelay \in Nat /\ MaxTime \in Nat /\ MaxCalls \in Nat

VARIABLES
  data,
  file,             \* content of the file named by FileStorer.Path
  temp,             \* content of the temporary file of the running Store
  storing,          \* how far Store has come: "no", "open", "written"
  mutex,            \* "free", or who holds the write lock across steps
  blockPersistJobs,
  jobs,             \* for every time, how many persist jobs sleep until then
  clock,
  calls,            \* explicit calls of Persist() still to come
  since,            \* history: the oldest change no Store has begun to save
  failed            \* history: the last Store returned an error, and nothing
                    \* has been changed since

dbVars == <<data, blockPersistJobs, jobs, since>>
vars == <<dbVars, file, temp, storing, mutex, failed, clock, calls>>

Never == -1
Time == 0..MaxTime

-----------------------------------------------------------------------------
(* Changes.                                                                *)

\* persistJob
ScheduleJob ==
  /\ blockPersistJobs' = TRUE
  /\ jobs' = IF blockPersistJobs THEN jobs
             ELSE [jobs EXCEPT ![clock + persistDelay] = @ + 1]

Write(items) ==
  /\ mutex = "free"
  /\ clock + persistDelay <= MaxTime
  /\ data' = items
  /\ since' = IF since = Never THEN clock ELSE since
  /\ failed' = FALSE
  /\ UNCHANGED <<file, temp, storing, mutex, clock, calls>>

AddClone(items) == Write(data \cup items) /\ ScheduleJob

RemoveItems(filter) == Write(data \ filter) /\ ScheduleJob

\* What Replace() puts in the place of the items it has removed.
Replacement(filter, must_match, items) ==
  IF must_match /\ data \cap filter = {} THEN {} ELSE items

\* Seeded bug: Replace() does not call persistJob().
ReplaceSilently(filter, must_match, items) ==
  /\ Write((data \ filter) \cup Replacement(filter, must_match, items))
  /\ UNCHANGED <<blockPersistJobs, jobs>>

Replace(filter, must_match, items) ==
  /\ Write((data \ filter) \cup Replacement(filter, must_match, items))
  /\ ScheduleJob

-----------------------------------------------------------------------------
(* Persisting.                                                             *)

\* Seeded bug: the file itself is created anew and written.
OpenInPlace ==
  /\ storing' = "open" /\ temp' = {}
  /\ file' = {}
  /\ since' = Never

\* FileStorer.Store begins: an empty temporary file.
OpenTemp ==
  /\ storing' = "open" /\ temp' = {}
  /\ file' = file
  /\ since' = Never

\* Persist() gets the lock and lets the next change schedule a job.
BeginPersist ==
  /\ mutex = "free" /\ mutex' = "persist"
  /\ blockPersistJobs' = FALSE
  /\ OpenTemp
  /\ UNCHANGED <<data, clock, failed>>

\* Seeded bug: the flag stays set, so no other job is ever scheduled.
RunJobOnce(t) ==
  /\ t <= clock /\ jobs[t] > 0
  /\ jobs' = [jobs EXCEPT ![t] = @ - 1]
  /\ mutex = "free" /\ mutex' = "persist"
  /\ OpenTemp
  /\ UNCHANGED <<data, clock, failed, calls, blockPersistJobs>>

\* A persist job has slept until t.
RunJob(t) ==
  /\ t <= clock /\ jobs[t] > 0
  /\ jobs' = [jobs EXCEPT ![t] = @ - 1]
  /\ BeginPersist
  /\ UNCHANGED calls

CallPersist ==
  /\ calls > 0 /\ calls' = calls - 1
  /\ BeginPersist
  /\ UNCHANGED jobs

\* Seeded bug: a scheduled job is trusted to save the data.
ShutdownTrustingJob ==
  /\ mutex = "free" /\ mutex' = "shutdown"
  /\ IF blockPersistJobs
       THEN UNCHANGED <<storing, temp, file, since>>
       ELSE OpenTemp
  /\ UNCHANGED <<data, blockPersistJobs, jobs, clock, calls, failed>>

Shutdown ==
  /\ mutex = "free" /\ mutex' = "shutdown"
  /\ OpenTemp
  /\ UNCHANGED <<data, blockPersistJobs, jobs, clock, calls, failed>>

WriteTemp ==
  /\ storing = "open" /\ storing' = "written"
  /\ temp' = data
  /\ UNCHANGED <<dbVars, file, mutex, failed, clock, calls>>

\* Persist() unlocks when Store returns, Shutdown() never does.
EndStore ==
  /\ storing' = "no"
  /\ mutex' = IF mutex = "persist" THEN "free" ELSE mutex

Rename ==
  /\ storing = "written"
  /\ file' = temp
  /\ failed' = FALSE
  /\ EndStore
  /\ UNCHANGED <<dbVars, temp, clock, calls>>

\* TempFile, WriteTo or Rename fails; the temporary file is left behind.
StoreError ==
  /\ storing # "no"
  /\ failed' = TRUE
  /\ EndStore
  /\ UNCHANGED <<dbVars, file, temp, clock, calls>>

-----------------------------------------------------------------------------
Tick ==
  /\ clock < MaxTime
  /\ clock' = clock + 1
  /\ UNCHANGED <<dbVars, file, temp, storing, mutex, failed, calls>>

\* The process ends, whatever it is doing, and a new one creates the database
\* with NewDB() and Init() from the file.
Restart ==
  /\ data' = file
  /\ blockPersistJobs' = FALSE
  /\ jobs' = [t \in Time |-> 0]
  /\ since' = Never
  /\ mutex' = "free" /\ storing' = "no" /\ temp' = {} /\ failed' = FALSE
  /\ UNCHANGED <<file, clock, calls>>

Init ==
  /\ data \in SUBSET Item /\ file = data
  /\ temp = {} /\ storing = "no" /\ mutex = "free"
  /\ blockPersistJobs = FALSE
  /\ jobs = [t \in Time |-> 0]
  /\ clock = 0 /\ calls = MaxCalls
  /\ since = Never /\ failed = FALSE

Change ==
  \E items \in SUBSET Item :
    \/ AddClone(items)
    \/ RemoveItems(items)
    \/ \E filter \in SUBSET Item, must_match \in BOOLEAN :
         Replace(filter, must_match, items)

Store == WriteTemp \/ Rename \/ StoreError

Next ==
  \/ Change
  \/ \E t \in Time : RunJob(t)
  \/ CallPersist \/ Shutdown
  \/ Store
  \/ Tick \/ Restart

Spec == Init /\ [][Next]_vars

\* Sleeping goroutines wake and a Store that has begun comes to an end.
Fairness ==
  /\ \A t \in Time : WF_vars(RunJob(t))
  /\ WF_vars(Store)
  /\ WF_vars(Tick)

FairSpec == Spec /\ Fairness

-----------------------------------------------------------------------------
(* Properties.                                                             *)

TypeOK ==
  /\ data \in SUBSET Item /\ file \in SUBSET Item /\ temp \in SUBSET Item
  /\ storing \in {"no", "open", "written"}
  /\ mutex \in {"free", "persist", "shutdown"}
  /\ blockPersistJobs \in BOOLEAN
  /\ jobs \in [Time -> Nat]
  /\ clock \in Time /\ calls \in 0..MaxCalls
  /\ since \in Time \cup {Never}
  /\ failed \in BOOLEAN

\* "This is the maximum time between a write access to the database and the
\* attempt to persist the data" (DB.persistDelay): while there is a change that
\* no Store has begun to save, a persist job wakes at most persistDelay after
\* it, however changes, calls of Persist() and failures follow each other.
\* Unsaved data without such a change is being stored, or storing it failed.
ChangesWillBeSaved ==
  /\ since # Never => \E t \in Time : jobs[t] > 0 /\ t <= since + persistDelay
  /\ data # file => since # Never \/ storing # "no" \/ failed

\* "Immediately persists the database and then blocks all further access"
\* (DB.Shutdown): once the final Store is over the file holds the data.
ShutdownSaves ==
  mutex = "shutdown" /\ storing = "no" => data = file \/ failed

\* The lock, the temporary file and the rename together make a store whose
\* file is always one whole state of the data and that stays as it is after
\* Shutdown().
Durable == INSTANCE DurableStore WITH open <- mutex # "shutdown"
ImplementsDurableStore == Durable!Spec

\* Data that is not in the file gets there, unless storing it fails.
EventuallySaved == []<>(data = file \/ failed)
=============================================================================
