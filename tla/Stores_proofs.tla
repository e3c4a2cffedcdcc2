---------------------------- MODULE Stores_proofs ----------------------------
(***************************************************************************)
(* Safety of XmlDB for every set of items, every persistDelay and every    *)
(* number of explicit calls of Persist(), and its refinement of            *)
(* DurableStore.  Then ClientDB: what servers say of a client and what it  *)
(* believes, for any number of servers and of faults.                      *)
(***************************************************************************)
EXTENDS XmlDB, ClientDB, SequenceTheorems, WellFoundedInduction, TLAPS

USE DEF Never, Time

-----------------------------------------------------------------------------
(* The inductive invariant.                                                *)

\* A Store runs only while somebody holds the lock, and what it has written is
\* the data, because nobody can change them.
LockInv ==
  /\ mutex = "free" => storing = "no"
  /\ mutex = "persist" => storing # "no"
  /\ storing = "written" => temp = data
  /\ mutex # "free" => since = Never

\* The flag blockPersistJobs stands for a persist job that will wake soon
\* enough for a change made now; it is set while a change waits to be saved.
JobInv ==
  /\ blockPersistJobs =>
       \E t \in Time : jobs[t] > 0 /\ t <= clock + persistDelay
  /\ since # Never =>
       /\ since <= clock
       /\ \E t \in Time : jobs[t] > 0 /\ t <= since + persistDelay

\* Where unsaved data comes from.
SavedInv == data # file => since # Never \/ storing # "no" \/ failed

IInv == TypeOK /\ LockInv /\ JobInv /\ SavedInv

LEMMA InitInv == Init => IInv
<1> SUFFICES ASSUME Init PROVE IInv
  OBVIOUS
<1>1. TypeOK
  <2>1. clock \in Time /\ calls \in 0..MaxCalls
    BY XmlDBConstants DEF Init
  <2>2. jobs \in [Time -> Nat]
    BY DEF Init
  <2> QED BY <2>1, <2>2 DEF Init, TypeOK
<1>2. LockInv /\ JobInv /\ SavedInv
  BY DEF Init, LockInv, JobInv, SavedInv
<1> QED BY <1>1, <1>2 DEF IInv

-----------------------------------------------------------------------------
(* One lemma per action.                                                   *)

\* A change keeps the invariant if persistJob() is called with it.
LEMMA WriteInv ==
  ASSUME IInv, NEW items \in SUBSET Item, Write(items), ScheduleJob
  PROVE  IInv'
<1> USE XmlDBConstants
<1>1. TypeOK'
  <2>1. jobs' \in [Time -> Nat]
    BY DEF IInv, TypeOK, Write, ScheduleJob
  <2>2. since' \in Time \cup {Never}
    BY DEF IInv, TypeOK, Write
  <2> QED BY <2>1, <2>2 DEF IInv, TypeOK, Write, ScheduleJob
<1>2. LockInv'
  BY DEF IInv, TypeOK, LockInv, Write
<1>3. JobInv'
  <2>1. PICK t \in Time : jobs'[t] > 0 /\ t <= clock + persistDelay
    <3>1. CASE blockPersistJobs
      BY <3>1 DEF IInv, JobInv, ScheduleJob
    <3>2. CASE ~blockPersistJobs
      BY <3>2 DEF IInv, TypeOK, Write, ScheduleJob
    <3> QED BY <3>1, <3>2
  <2>2. CASE since = Never
    BY <2>1, <2>2 DEF IInv, TypeOK, LockInv, JobInv, Write
  <2>3. CASE since # Never
    <3>1. PICK u \in Time : jobs[u] > 0 /\ u <= since + persistDelay
      BY <2>3 DEF IInv, JobInv
    <3>2. jobs'[u] > 0
      BY <3>1 DEF IInv, TypeOK, Write, ScheduleJob
    <3> QED BY <2>1, <2>3, <3>1, <3>2
            DEF IInv, TypeOK, LockInv, JobInv, Write
  <2> QED BY <2>2, <2>3
<1>4. SavedInv'
  BY DEF IInv, TypeOK, SavedInv, Write
<1> QED BY <1>1, <1>2, <1>3, <1>4 DEF IInv

\* Persist() may run at any time: whoever calls it, the changes it saves are
\* no longer waiting for a job.
LEMMA PersistInv ==
  ASSUME IInv, BeginPersist, jobs' \in [Time -> Nat],
         calls' \in 0..MaxCalls
  PROVE  IInv'
BY XmlDBConstants
   DEF IInv, TypeOK, LockInv, JobInv, SavedInv, BeginPersist, OpenTemp

LEMMA StoreInv == ASSUME IInv, Store PROVE IInv'
<1> USE XmlDBConstants DEF IInv, TypeOK, LockInv, JobInv, SavedInv, dbVars
<1>1. CASE WriteTemp
  BY <1>1 DEF WriteTemp
<1>2. CASE Rename
  BY <1>2 DEF Rename, EndStore
<1>3. CASE StoreError
  BY <1>3 DEF StoreError, EndStore
<1> QED BY <1>1, <1>2, <1>3 DEF Store

LEMMA NextInv == ASSUME IInv, [Next]_vars PROVE IInv'
<1> USE XmlDBConstants
<1>1. CASE Change
  <2> SUFFICES ASSUME NEW items \in SUBSET Item, NEW filter \in SUBSET Item,
                      NEW must_match \in BOOLEAN,
                      \/ AddClone(items) \/ RemoveItems(items)
                      \/ Replace(filter, must_match, items)
               PROVE  IInv'
    BY <1>1 DEF Change
  <2>1. CASE AddClone(items)
    <3>1. data \cup items \in SUBSET Item
      BY DEF IInv, TypeOK
    <3> QED BY <2>1, <3>1, WriteInv DEF AddClone
  <2>2. CASE RemoveItems(items)
    <3>1. data \ items \in SUBSET Item
      BY DEF IInv, TypeOK
    <3> QED BY <2>2, <3>1, WriteInv DEF RemoveItems
  <2>3. CASE Replace(filter, must_match, items)
    <3>1. (data \ filter) \cup Replacement(filter, must_match, items)
            \in SUBSET Item
      BY DEF IInv, TypeOK, Replacement
    <3> QED BY <2>3, <3>1, WriteInv DEF Replace
  <2> QED BY <2>1, <2>2, <2>3
<1>2. ASSUME NEW t \in Time, RunJob(t) PROVE IInv'
  <2>1. jobs' \in [Time -> Nat]
    BY <1>2 DEF IInv, TypeOK, RunJob
  <2>2. calls' \in 0..MaxCalls
    BY <1>2 DEF IInv, TypeOK, RunJob
  <2> QED BY <1>2, <2>1, <2>2, PersistInv DEF RunJob
<1>3. CASE CallPersist
  <2>1. jobs' \in [Time -> Nat] /\ calls' \in 0..MaxCalls
    BY <1>3 DEF IInv, TypeOK, CallPersist
  <2> QED BY <1>3, <2>1, PersistInv DEF CallPersist
<1>4. CASE Shutdown
  BY <1>4 DEF IInv, TypeOK, LockInv, JobInv, SavedInv, Shutdown, OpenTemp
<1>5. CASE Store
  BY <1>5, StoreInv
<1>6. CASE Tick
  BY <1>6 DEF IInv, TypeOK, LockInv, JobInv, SavedInv, Tick, dbVars
<1>7. CASE Restart
  BY <1>7 DEF IInv, TypeOK, LockInv, JobInv, SavedInv, Restart
<1>8. CASE UNCHANGED vars
  BY <1>8 DEF IInv, TypeOK, LockInv, JobInv, SavedInv, vars, dbVars
<1> QED BY <1>1, <1>2, <1>3, <1>4, <1>5, <1>6, <1>7, <1>8 DEF Next

LEMMA Invariance == Spec => []IInv
<1>1. Init => IInv
  BY InitInv
<1>2. IInv /\ [Next]_vars => IInv'
  BY NextInv
<1> QED BY <1>1, <1>2, PTL DEF Spec

-----------------------------------------------------------------------------
(* The theorems.                                                           *)

\* The variables of the database keep their types.
THEOREM TypeCorrect == Spec => []TypeOK
<1>1. IInv => TypeOK
  BY DEF IInv
<1> QED BY <1>1, Invariance, PTL

\* A change is picked up by a persist job within persistDelay, and what is not
\* in the file is waiting for one, being stored, or could not be stored.
THEOREM ChangesSaved == Spec => []ChangesWillBeSaved
<1>1. IInv => ChangesWillBeSaved
  BY DEF IInv, JobInv, SavedInv, ChangesWillBeSaved
<1> QED BY <1>1, Invariance, PTL

\* After Shutdown() has stored the data, file and data are the same.
THEOREM ShutdownCorrect == Spec => []ShutdownSaves
<1>1. IInv => ShutdownSaves
  BY DEF IInv, LockInv, SavedInv, ShutdownSaves
<1> QED BY <1>1, Invariance, PTL

\* Every step of the database is a step of the store it promises to be.
LEMMA StepRefinement ==
  ASSUME IInv, [Next]_vars
  PROVE  [Durable!Next]_<<data, file, mutex # "shutdown">>
<1>1. CASE Change
  <2>1. data' \in SUBSET Item
    BY <1>1, NextInv DEF IInv, TypeOK
  <2>2. mutex = "free" /\ UNCHANGED <<file, mutex>>
    BY <1>1 DEF Change, AddClone, RemoveItems, Replace, Write
  <2> QED BY <2>1, <2>2 DEF Durable!Next, Durable!Change
<1>2. CASE (\E t \in Time : RunJob(t)) \/ CallPersist
  <2>1. mutex # "shutdown" /\ mutex' # "shutdown" /\ UNCHANGED <<data, file>>
    BY <1>2 DEF RunJob, CallPersist, BeginPersist, OpenTemp
  <2> QED BY <2>1
<1>3. CASE Shutdown
  BY <1>3 DEF Shutdown, OpenTemp, Durable!Next, Durable!Close
<1>4. CASE Store
  <2>1. UNCHANGED data /\ (mutex = "shutdown" <=> mutex' = "shutdown")
    BY <1>4 DEF Store, WriteTemp, Rename, StoreError, EndStore, dbVars
  <2>2. file' \in {file, data}
    BY <1>4 DEF IInv, LockInv, Store, WriteTemp, Rename, StoreError, dbVars
  <2> QED BY <2>1, <2>2 DEF Durable!Next, Durable!Save
<1>5. CASE Tick \/ UNCHANGED vars
  BY <1>5 DEF Tick, vars, dbVars
<1>6. CASE Restart
  BY <1>6 DEF Restart, Durable!Next, Durable!Restart
<1> QED BY <1>1, <1>2, <1>3, <1>4, <1>5, <1>6 DEF Next

\* The database implements DurableStore.
THEOREM Refinement == Spec => ImplementsDurableStore
<1>1. Init => Durable!Init
  BY DEF Init, Durable!Init
<1>2. IInv /\ [Next]_vars => [Durable!Next]_<<data, file, mutex # "shutdown">>
  BY StepRefinement
<1> QED BY <1>1, <1>2, Invariance, PTL
        DEF Spec, ImplementsDurableStore, Durable!Spec

-----------------------------------------------------------------------------
(***************************************************************************)
(* A client and the servers that keep it in their databases.               *)
(***************************************************************************)

\* There is time for a candidate to answer, the servers are not nobody, and
\* "registered" and "deregistered" of one server arrive in the order in which
\* they were sent.
ClientsOK ==
  /\ ConfirmTicks \in Nat /\ ConfirmTicks >= 2
  /\ NoServer \notin Server /\ PeerServers \in Seq(Server)
  /\ Overtakes = FALSE

Answers == [kind : {"registered", "deregistered"}, source : Server]
Own == [kind : {"register", "timeout", "confirm", "confirm_timeout"}, source : {NoServer}]
Items == Answers \cup Own
Counts == [Ticks -> Nat]
Known == Server \cup {NoServer}

HandlerTypeOK ==
  /\ registrationState \in 0..2 /\ currentServer \in Known
  /\ registrationState # 0 => currentServer \in Server
  /\ serverList \in Seq(Known) /\ indexInList \in Nat /\ asleep \in Nat
  /\ registrationQueue \in Seq(Items) /\ sends \in Seq(Server)
  /\ timers \in [{"timeout", "confirm_timeout"} -> Counts]

NetTypeOK ==
  /\ down \in [Server -> Nat] /\ source \in [Server -> Known]
  /\ here_i_am \in [Server -> Nat] /\ mail \in Seq(Answers) /\ faults \in Nat
  /\ handlers \in [Server -> Counts] /\ verify \in [Server -> Counts]
  /\ nfc \in [Server -> [Server -> Seq(Server)]] /\ unheard \in SUBSET Server

\* Every "registered" of s among q, which the client has, and m, which it will
\* get, is followed by a "deregistered" of s.
Retracted(s, q, m) ==
  /\ \A i \in DOMAIN m :
       m[i] = Registered(s) => \E j \in DOMAIN m : j > i /\ m[j] = Deregistered(s)
  /\ \A i \in DOMAIN q :
       q[i] = Registered(s) => \/ \E j \in DOMAIN q : j > i /\ q[j] = Deregistered(s)
                               \/ \E j \in DOMAIN m : m[j] = Deregistered(s)

\* An answer that is no longer true is taken back behind it, or will be, unless what
\* took it back was lost.
AnswersRetracted ==
  \A s \in Server : \/ source[s] = s \/ verify[s] # Nobody \/ s \in unheard
                    \/ Retracted(s, registrationQueue, mail)

\* "deregistered" of s is under way.
Asked(s, q, m) ==
  \/ \E i \in DOMAIN q : q[i] = Deregistered(s)
  \/ \E i \in DOMAIN m : m[i] = Deregistered(s)

\* Likewise what the client has come to believe.
HomeAsks ==
  registrationState = 2 /\ source[Home] # Home =>
    verify[Home] # Nobody \/ Home \in unheard \/ Asked(Home, registrationQueue, mail)

ClientsInv == HandlerTypeOK /\ NetTypeOK /\ AnswersRetracted /\ HomeAsks

-----------------------------------------------------------------------------
(* Items.                                                                  *)

LEMMA ItemKinds ==
  /\ \A s \in Server : Registered(s) \in Answers /\ Deregistered(s) \in Answers
  /\ \A s, t \in Server : Registered(s) # Deregistered(t)
  /\ \A s, t \in Server : Registered(s) = Registered(t) => s = t
  /\ \A kind \in {"register", "timeout", "confirm", "confirm_timeout"} :
       /\ Queued(kind) \in Own
       /\ \A s \in Server : Queued(kind) # Registered(s) /\ Queued(kind) # Deregistered(s)
  BY DEF Registered, Deregistered, Queued, Answers, Own

\* What is taken from the front of the queue takes nothing back.
LEMMA RetractedRest ==
  ASSUME NEW s \in Server, NEW q \in Seq(Items), q # <<>>, NEW m \in Seq(Answers),
         Retracted(s, q, m)
  PROVE  Retracted(s, Tail(q), m)
<1>1. \A i \in DOMAIN Tail(q) : i + 1 \in DOMAIN q /\ Tail(q)[i] = q[i + 1]
  BY HeadTailProperties
<1>2. ASSUME NEW i \in DOMAIN Tail(q), Tail(q)[i] = Registered(s),
             ~ \E j \in DOMAIN m : m[j] = Deregistered(s)
      PROVE  \E j \in DOMAIN Tail(q) : j > i /\ Tail(q)[j] = Deregistered(s)
  <2>1. PICK j \in DOMAIN q : j > i + 1 /\ q[j] = Deregistered(s)
    BY <1>1, <1>2 DEF Retracted
  <2>2. j - 1 \in DOMAIN Tail(q) /\ j - 1 > i
    BY <2>1, <1>2, HeadTailProperties
  <2>3. Tail(q)[j - 1] = q[j]
    BY <1>1, <2>1, <2>2
  <2> QED BY <2>1, <2>2, <2>3
<1> QED BY <1>2 DEF Retracted

\* Nor does anything else that the handler puts at the end of its queue.
LEMMA RetractedAppend ==
  ASSUME NEW s \in Server, NEW q \in Seq(Items), NEW m \in Seq(Answers), NEW x \in Items,
         x # Registered(s), Retracted(s, q, m)
  PROVE  Retracted(s, Append(q, x), m)
<1>1. \A i \in DOMAIN q : i \in DOMAIN Append(q, x) /\ Append(q, x)[i] = q[i]
  BY AppendProperties
<1>2. \A i \in DOMAIN Append(q, x) : i \in DOMAIN q \/ Append(q, x)[i] = x
  BY AppendProperties
<1> QED BY <1>1, <1>2 DEF Retracted

\* WakeUp puts "register" in front.
LEMMA RetractedWakeUp ==
  ASSUME NEW s \in Server, NEW q \in Seq(Items), NEW m \in Seq(Answers), NEW x \in Items,
         x # Registered(s), Retracted(s, q, m)
  PROVE  Retracted(s, <<x>> \o q, m)
<1> DEFINE r == <<x>> \o q
<1>1. /\ r \in Seq(Items) /\ Len(r) = Len(q) + 1 /\ r[1] = x
      /\ \A i \in DOMAIN q : i + 1 \in DOMAIN r /\ r[i + 1] = q[i]
  OBVIOUS
<1>2. ASSUME NEW i \in DOMAIN r, r[i] = Registered(s),
             ~ \E j \in DOMAIN m : m[j] = Deregistered(s)
      PROVE  \E j \in DOMAIN r : j > i /\ r[j] = Deregistered(s)
  <2>1. i - 1 \in DOMAIN q /\ q[i - 1] = r[i]
    BY <1>1, <1>2
  <2>2. PICK j \in DOMAIN q : j > i - 1 /\ q[j] = Deregistered(s)
    BY <2>1, <1>2 DEF Retracted
  <2>3. j + 1 \in DOMAIN r /\ j + 1 > i /\ r[j + 1] = Deregistered(s)
    BY <2>2, <1>1
  <2> QED BY <2>3
<1> HIDE DEF r
<1>3. Retracted(s, r, m)
  BY <1>2 DEF Retracted
<1> QED BY <1>3 DEF r

\* A server that still has the client answers.
LEMMA RetractedByNews ==
  ASSUME NEW s \in Server, NEW q \in Seq(Items), NEW m \in Seq(Answers), NEW x \in Answers,
         x # Registered(s), Retracted(s, q, m)
  PROVE  Retracted(s, q, Append(m, x))
<1>1. \A i \in DOMAIN m : i \in DOMAIN Append(m, x) /\ Append(m, x)[i] = m[i]
  BY AppendProperties
<1>2. \A i \in DOMAIN Append(m, x) : i \in DOMAIN m \/ Append(m, x)[i] = x
  BY AppendProperties
<1> QED BY <1>1, <1>2 DEF Retracted

\* "deregistered" takes back all that was said before.
LEMMA RetractedByDeregistered ==
  ASSUME NEW s \in Server, NEW q \in Seq(Items), NEW m \in Seq(Answers)
  PROVE  /\ Retracted(s, q, Append(m, Deregistered(s)))
         /\ \E i \in DOMAIN Append(m, Deregistered(s)) :
              Append(m, Deregistered(s))[i] = Deregistered(s)
<1> DEFINE n == Append(m, Deregistered(s))
<1>1. /\ n \in Seq(Answers) /\ Len(n) = Len(m) + 1 /\ n[Len(m) + 1] = Deregistered(s)
  BY ItemKinds, AppendProperties
<1>2. \A i \in DOMAIN n : i = Len(m) + 1 \/ i < Len(m) + 1
  BY <1>1
<1>3. Len(m) + 1 \in DOMAIN n
  BY <1>1
<1>4. Registered(s) # Deregistered(s)
  BY ItemKinds
<1> HIDE DEF n
<1>5. Retracted(s, q, n)
  BY <1>1, <1>2, <1>3, <1>4 DEF Retracted
<1> QED BY <1>1, <1>3, <1>5 DEF n

LEMMA RemoveAtProperties ==
  ASSUME NEW S, NEW m \in Seq(S), NEW n \in DOMAIN m
  PROVE  /\ RemoveAt(m, n) \in Seq(S) /\ Len(RemoveAt(m, n)) = Len(m) - 1
         /\ \A i \in 1..(n - 1) : RemoveAt(m, n)[i] = m[i]
         /\ \A i \in n..(Len(m) - 1) : RemoveAt(m, n)[i] = m[i + 1]
<1> DEFINE a == SubSeq(m, 1, n - 1)
           b == SubSeq(m, n + 1, Len(m))
<1>1. n \in Nat /\ n > 0 /\ Len(m) \in Nat /\ n <= Len(m)
  OBVIOUS
<1>2. /\ a \in Seq(S) /\ Len(a) = n - 1
      /\ \A i \in 1..(n - 1) : a[i] = m[i]
  BY <1>1
<1>3. /\ b \in Seq(S) /\ Len(b) = Len(m) - n
      /\ \A i \in 1..(Len(m) - n) : b[i] = m[n + i]
  BY <1>1
<1> HIDE DEF a, b
<1>4. /\ a \o b \in Seq(S) /\ Len(a \o b) = Len(m) - 1
      /\ \A i \in 1..(Len(m) - 1) : (a \o b)[i] = IF i <= n - 1 THEN a[i] ELSE b[i - (n - 1)]
  <2>1. /\ a \o b \in Seq(S) /\ Len(a \o b) = Len(a) + Len(b)
        /\ \A i \in 1..(Len(a) + Len(b)) :
             (a \o b)[i] = IF i <= Len(a) THEN a[i] ELSE b[i - Len(a)]
    BY <1>2, <1>3, ConcatProperties
  <2>2. Len(a) + Len(b) = Len(m) - 1
    BY <1>1, <1>2, <1>3
  <2> QED BY <1>2, <2>1, <2>2
<1>5. ASSUME NEW i \in n..(Len(m) - 1) PROVE (a \o b)[i] = m[i + 1]
  <2>1. i - (n - 1) \in 1..(Len(m) - n) /\ n + (i - (n - 1)) = i + 1
    BY <1>1, <1>5
  <2>2. (a \o b)[i] = b[i - (n - 1)]
    BY <1>1, <1>4, <1>5
  <2> QED BY <1>3, <2>1, <2>2
<1>6. ASSUME NEW i \in 1..(n - 1) PROVE (a \o b)[i] = m[i]
  BY <1>1, <1>2, <1>4, <1>6
<1> QED BY <1>4, <1>5, <1>6 DEF RemoveAt, a, b

\* What is lost keeps the rest in its order.
LEMMA Removed ==
  ASSUME NEW m \in Seq(Answers), NEW n \in DOMAIN m
  PROVE  /\ RemoveAt(m, n) \in Seq(Answers)
         /\ \A i \in DOMAIN RemoveAt(m, n) :
              \/ i < n /\ i \in DOMAIN m /\ RemoveAt(m, n)[i] = m[i]
              \/ i >= n /\ i + 1 \in DOMAIN m /\ RemoveAt(m, n)[i] = m[i + 1]
         /\ \A j \in DOMAIN m :
              /\ j < n => j \in DOMAIN RemoveAt(m, n) /\ RemoveAt(m, n)[j] = m[j]
              /\ j > n => j - 1 \in DOMAIN RemoveAt(m, n) /\ RemoveAt(m, n)[j - 1] = m[j]
<1> DEFINE u == RemoveAt(m, n)
<1>1. /\ u \in Seq(Answers) /\ Len(u) = Len(m) - 1
      /\ \A i \in 1..(n - 1) : u[i] = m[i]
      /\ \A i \in n..(Len(m) - 1) : u[i] = m[i + 1]
  BY RemoveAtProperties
<1> HIDE DEF u
<1>2. DOMAIN u = 1..(Len(m) - 1) /\ DOMAIN m = 1..Len(m) /\ Len(m) \in Nat /\ n \in 1..Len(m)
  BY <1>1
<1>3. ASSUME NEW i \in DOMAIN u
      PROVE  \/ i < n /\ i \in DOMAIN m /\ u[i] = m[i]
             \/ i >= n /\ i + 1 \in DOMAIN m /\ u[i] = m[i + 1]
  <2>1. CASE i < n
    <3>1. i \in 1..(n - 1) /\ i \in 1..Len(m)
      BY <1>2, <2>1
    <3> QED BY <1>1, <1>2, <2>1, <3>1
  <2>2. CASE i >= n
    <3>1. i \in n..(Len(m) - 1) /\ i + 1 \in 1..Len(m)
      BY <1>2, <2>2
    <3> QED BY <1>1, <1>2, <2>2, <3>1
  <2> QED BY <1>2, <2>1, <2>2
<1>4. ASSUME NEW j \in DOMAIN m, j < n PROVE j \in DOMAIN u /\ u[j] = m[j]
  <2>1. j \in 1..(n - 1) /\ j \in 1..(Len(m) - 1)
    BY <1>2, <1>4
  <2> QED BY <1>1, <1>2, <2>1
<1>5. ASSUME NEW j \in DOMAIN m, j > n PROVE j - 1 \in DOMAIN u /\ u[j - 1] = m[j]
  <2>1. j - 1 \in n..(Len(m) - 1) /\ j - 1 \in 1..(Len(m) - 1) /\ (j - 1) + 1 = j
    BY <1>2, <1>5
  <2> QED BY <1>1, <1>2, <2>1
<1> QED BY <1>1, <1>3, <1>4, <1>5 DEF u

\* Only the loss of a "deregistered" leaves an answer that is not taken back.
LEMMA RetractedLoss ==
  ASSUME NEW s \in Server, NEW q \in Seq(Items), NEW m \in Seq(Answers), NEW n \in DOMAIN m,
         m[n] # Deregistered(s)
  PROVE  /\ Retracted(s, q, m) => Retracted(s, q, RemoveAt(m, n))
         /\ Asked(s, q, m) => Asked(s, q, RemoveAt(m, n))
<1> DEFINE u == RemoveAt(m, n)
<1>1. /\ u \in Seq(Answers)
      /\ \A i \in DOMAIN u : \/ i < n /\ i \in DOMAIN m /\ u[i] = m[i]
                             \/ i >= n /\ i + 1 \in DOMAIN m /\ u[i] = m[i + 1]
      /\ \A j \in DOMAIN m : /\ j < n => j \in DOMAIN u /\ u[j] = m[j]
                             /\ j > n => j - 1 \in DOMAIN u /\ u[j - 1] = m[j]
  BY Removed
<1> HIDE DEF u
<1>2. n \in Nat /\ (\A j \in DOMAIN m : j \in Nat) /\ (\A i \in DOMAIN u : i \in Nat)
  BY <1>1
<1>3. ASSUME NEW j \in DOMAIN m, m[j] = Deregistered(s)
      PROVE  \E k \in DOMAIN u : u[k] = Deregistered(s) /\ k >= j - 1 /\ (j < n => k = j)
  <2>1. j # n
    BY <1>3
  <2>2. CASE j < n
    <3>1. j \in DOMAIN u /\ u[j] = m[j] /\ j >= j - 1
      BY <1>1, <1>2, <2>2
    <3> QED BY <1>3, <3>1
  <2>3. CASE j > n
    <3>1. j - 1 \in DOMAIN u /\ u[j - 1] = m[j] /\ ~(j < n)
      BY <1>1, <1>2, <2>3
    <3> QED BY <1>2, <1>3, <3>1
  <2> QED BY <1>2, <2>1, <2>2, <2>3
<1>4. ASSUME Retracted(s, q, m), NEW i \in DOMAIN u, u[i] = Registered(s)
      PROVE  \E j \in DOMAIN u : j > i /\ u[j] = Deregistered(s)
  <2>1. CASE i < n /\ i \in DOMAIN m /\ u[i] = m[i]
    <3>1. PICK j \in DOMAIN m : j > i /\ m[j] = Deregistered(s)
      BY <1>4, <2>1 DEF Retracted
    <3>2. PICK k \in DOMAIN u : u[k] = Deregistered(s) /\ k >= j - 1 /\ (j < n => k = j)
      BY <1>3, <3>1
    <3>3. j # n /\ i \in Nat /\ j \in Nat /\ k \in Nat
      BY <1>2, <2>1, <3>1
    <3>4. k > i
      BY <1>2, <2>1, <3>1, <3>2, <3>3
    <3> QED BY <3>2, <3>4
  <2>2. CASE i >= n /\ i + 1 \in DOMAIN m /\ u[i] = m[i + 1]
    <3>1. PICK j \in DOMAIN m : j > i + 1 /\ m[j] = Deregistered(s)
      BY <1>4, <2>2 DEF Retracted
    <3>2. PICK k \in DOMAIN u : u[k] = Deregistered(s) /\ k >= j - 1 /\ (j < n => k = j)
      BY <1>3, <3>1
    <3>3. k > i
      BY <1>2, <3>1, <3>2
    <3> QED BY <3>2, <3>3
  <2> QED BY <1>1, <2>1, <2>2
<1>5. Retracted(s, q, m) => Retracted(s, q, u)
  BY <1>3, <1>4 DEF Retracted
<1>6. Asked(s, q, m) => Asked(s, q, u)
  BY <1>3 DEF Asked
<1> QED BY <1>5, <1>6 DEF u

\* What arrives changes its place with what was sent before, but not a
\* "deregistered" with an earlier "registered" of the same server.
LEMMA RetractedArrival ==
  ASSUME NEW s \in Server, NEW q \in Seq(Items), NEW m \in Seq(Answers), NEW n \in DOMAIN m,
         \A k \in 1..(n - 1) : m[k] # Registered(m[n].source),
         Retracted(s, q, m)
  PROVE  Retracted(s, Append(q, m[n]), RemoveAt(m, n))
<1> DEFINE r == Append(q, m[n])
           u == RemoveAt(m, n)
<1>0. m[n] \in Items
  BY DEF Items
<1>1. /\ Len(r) = Len(q) + 1 /\ r[Len(q) + 1] = m[n]
      /\ \A i \in DOMAIN q : i \in DOMAIN r /\ r[i] = q[i]
      /\ \A i \in DOMAIN r : i \in DOMAIN q \/ i = Len(q) + 1
  BY <1>0, AppendProperties
<1>2. /\ u \in Seq(Answers) /\ Len(u) = Len(m) - 1
      /\ \A i \in 1..(n - 1) : u[i] = m[i]
      /\ \A i \in n..(Len(m) - 1) : u[i] = m[i + 1]
  BY RemoveAtProperties
<1> HIDE DEF r, u
<1>3. /\ \A i \in DOMAIN m : i < n => i \in DOMAIN u /\ u[i] = m[i]
      /\ \A i \in DOMAIN m : i > n => i - 1 \in DOMAIN u /\ u[i - 1] = m[i]
  <2>1. DOMAIN u = 1..(Len(m) - 1) /\ DOMAIN m = 1..Len(m) /\ Len(m) \in Nat /\ n \in 1..Len(m)
    BY <1>2
  <2>2. ASSUME NEW i \in DOMAIN m, i < n PROVE i \in DOMAIN u /\ u[i] = m[i]
    <3>1. i \in 1..(n - 1) /\ i \in 1..(Len(m) - 1)
      BY <2>1, <2>2
    <3> QED BY <1>2, <2>1, <3>1
  <2>3. ASSUME NEW i \in DOMAIN m, i > n PROVE i - 1 \in DOMAIN u /\ u[i - 1] = m[i]
    <3>1. i - 1 \in n..(Len(m) - 1) /\ i - 1 \in 1..(Len(m) - 1) /\ (i - 1) + 1 = i
      BY <2>1, <2>3
    <3> QED BY <1>2, <2>1, <3>1
  <2> QED BY <2>2, <2>3
<1>4. \A i \in DOMAIN u : (i < n /\ i \in DOMAIN m) \/ (i >= n /\ i + 1 \in DOMAIN m /\ u[i] = m[i + 1])
  BY <1>2
<1>n. n \in Nat /\ n > 0 /\ \A i \in DOMAIN m : i \in Nat
  OBVIOUS
<1>5. m[n] = Deregistered(s) => \A k \in 1..(n - 1) : m[k] # Registered(s)
  BY DEF Deregistered
<1>6. ASSUME NEW i \in DOMAIN u, u[i] = Registered(s)
      PROVE  \E j \in DOMAIN u : j > i /\ u[j] = Deregistered(s)
  <2>1. CASE i < n
    <3>1. i \in DOMAIN m /\ m[i] = Registered(s)
      BY <1>2, <1>n, <1>3, <1>4, <1>6, <2>1
    <3>2. PICK j \in DOMAIN m : j > i /\ m[j] = Deregistered(s)
      BY <3>1 DEF Retracted
    <3>3. i \in 1..(n - 1)
      BY <2>1, <3>1
    <3>4. j # n
      BY <1>5, <3>1, <3>2, <3>3
    <3>5. CASE j < n
      BY <1>3, <3>2, <3>5
    <3>6. CASE j > n
      <4>1. j - 1 > i
        BY <2>1, <3>1, <3>6
      <4> QED BY <1>3, <3>2, <3>6, <4>1
    <3> QED BY <3>4, <3>5, <3>6
  <2>2. CASE ~(i < n)
    <3>1. i + 1 \in DOMAIN m /\ m[i + 1] = Registered(s) /\ i >= n
      BY <1>4, <1>6, <2>2
    <3>2. PICK j \in DOMAIN m : j > i + 1 /\ m[j] = Deregistered(s)
      BY <3>1 DEF Retracted
    <3>3. i \in Nat /\ j \in Nat
      BY <1>2, <1>n
    <3>4. j > n /\ j - 1 > i
      BY <3>1, <3>2, <3>3, <1>n
    <3> QED BY <1>3, <3>2, <3>4
  <2> QED BY <2>1, <2>2
<1>7. ASSUME NEW j \in DOMAIN m, m[j] = Deregistered(s)
      PROVE  \/ r[Len(q) + 1] = Deregistered(s)
             \/ \E k \in DOMAIN u : u[k] = Deregistered(s)
  BY <1>1, <1>3, <1>7
<1>8. ASSUME NEW i \in DOMAIN r, r[i] = Registered(s)
      PROVE  \/ \E j \in DOMAIN r : j > i /\ r[j] = Deregistered(s)
             \/ \E j \in DOMAIN u : u[j] = Deregistered(s)
  <2>1. CASE i \in DOMAIN q
    <3>1. q[i] = Registered(s)
      BY <1>1, <1>8, <2>1
    <3>2. CASE \E j \in DOMAIN q : j > i /\ q[j] = Deregistered(s)
      BY <1>1, <3>2
    <3>3. CASE \E j \in DOMAIN m : m[j] = Deregistered(s)
      <4>1. Len(q) + 1 > i /\ Len(q) + 1 \in DOMAIN r
        BY <1>1, <2>1
      <4>2. PICK j \in DOMAIN m : m[j] = Deregistered(s)
        BY <3>3
      <4>3. CASE r[Len(q) + 1] = Deregistered(s)
        BY <4>1, <4>3
      <4>4. CASE \E k \in DOMAIN u : u[k] = Deregistered(s)
        BY <4>4
      <4> QED BY <1>7, <4>2, <4>3, <4>4
    <3> QED BY <2>1, <3>1, <3>2, <3>3 DEF Retracted
  <2>2. CASE i = Len(q) + 1
    <3>1. m[n] = Registered(s)
      BY <1>1, <1>8, <2>2
    <3>2. PICK j \in DOMAIN m : j > n /\ m[j] = Deregistered(s)
      BY <3>1 DEF Retracted
    <3> QED BY <1>3, <3>2
  <2> QED BY <1>1, <2>1, <2>2
<1>9. Retracted(s, r, u)
  BY <1>6, <1>8 DEF Retracted
<1> QED BY <1>9 DEF r, u

\* A "deregistered" that is under way stays so until the handler takes it.
LEMMA AskedStays ==
  ASSUME NEW s \in Server, NEW q \in Seq(Items), NEW m \in Seq(Answers), Asked(s, q, m)
  PROVE  /\ q # <<>> /\ Head(q) # Deregistered(s) => Asked(s, Tail(q), m)
         /\ \A x \in Items : Asked(s, Append(q, x), m) /\ Asked(s, <<x>> \o q, m)
         /\ \A x \in Answers : Asked(s, q, Append(m, x))
         /\ \A n \in DOMAIN m : Asked(s, Append(q, m[n]), RemoveAt(m, n))
<1>1. ASSUME q # <<>>, Head(q) # Deregistered(s) PROVE Asked(s, Tail(q), m)
  <2>1. \A j \in DOMAIN q : j # 1 => j - 1 \in DOMAIN Tail(q) /\ Tail(q)[j - 1] = q[j]
    BY <1>1, HeadTailProperties
  <2>2. q[1] # Deregistered(s)
    BY <1>1, HeadTailProperties
  <2> QED BY <2>1, <2>2 DEF Asked
<1>2. ASSUME NEW x \in Items PROVE Asked(s, Append(q, x), m) /\ Asked(s, <<x>> \o q, m)
  <2>1. \A j \in DOMAIN q : j \in DOMAIN Append(q, x) /\ Append(q, x)[j] = q[j]
    BY AppendProperties
  <2>2. \A j \in DOMAIN q : j + 1 \in DOMAIN (<<x>> \o q) /\ (<<x>> \o q)[j + 1] = q[j]
    OBVIOUS
  <2> QED BY <2>1, <2>2 DEF Asked
<1>3. ASSUME NEW x \in Answers PROVE Asked(s, q, Append(m, x))
  <2>1. \A j \in DOMAIN m : j \in DOMAIN Append(m, x) /\ Append(m, x)[j] = m[j]
    BY AppendProperties
  <2> QED BY <2>1 DEF Asked
<1>4. ASSUME NEW n \in DOMAIN m PROVE Asked(s, Append(q, m[n]), RemoveAt(m, n))
  <2> DEFINE r == Append(q, m[n])
             u == RemoveAt(m, n)
  <2>0. m[n] \in Items
    BY DEF Items
  <2>1. /\ Len(q) + 1 \in DOMAIN r /\ r[Len(q) + 1] = m[n]
        /\ \A i \in DOMAIN q : i \in DOMAIN r /\ r[i] = q[i]
    BY <2>0, AppendProperties
  <2>2. ASSUME NEW j \in DOMAIN m, j # n PROVE \E k \in DOMAIN u : u[k] = m[j]
    <3>1. /\ DOMAIN u = 1..(Len(m) - 1) /\ DOMAIN m = 1..Len(m) /\ Len(m) \in Nat
          /\ \A i \in 1..(n - 1) : u[i] = m[i]
          /\ \A i \in n..(Len(m) - 1) : u[i] = m[i + 1]
      <4>1. /\ u \in Seq(Answers) /\ Len(u) = Len(m) - 1
            /\ \A i \in 1..(n - 1) : u[i] = m[i]
            /\ \A i \in n..(Len(m) - 1) : u[i] = m[i + 1]
        BY RemoveAtProperties
      <4> HIDE DEF u
      <4> QED BY <4>1
    <3> HIDE DEF u
    <3>2. CASE j < n
      <4>1. j \in 1..(n - 1) /\ j \in 1..(Len(m) - 1)
        BY <3>1, <3>2
      <4> QED BY <3>1, <4>1
    <3>3. CASE j > n
      <4>1. j - 1 \in n..(Len(m) - 1) /\ j - 1 \in 1..(Len(m) - 1) /\ (j - 1) + 1 = j
        BY <3>1, <3>3
      <4> QED BY <3>1, <4>1
    <3> QED BY <2>2, <3>1, <3>2, <3>3
  <2> HIDE DEF r, u
  <2>3. Asked(s, r, u)
    <3>1. CASE \E i \in DOMAIN q : q[i] = Deregistered(s)
      BY <3>1, <2>1 DEF Asked
    <3>2. CASE \E i \in DOMAIN m : m[i] = Deregistered(s)
      BY <3>2, <2>1, <2>2 DEF Asked
    <3> QED BY <3>1, <3>2 DEF Asked
  <2> QED BY <2>3 DEF r, u
<1> QED BY <1>1, <1>2, <1>3, <1>4

-----------------------------------------------------------------------------
(* What a step has to show if no server learns anything.                   *)

LEMMA AnswersStayRetracted ==
  ASSUME ClientsInv, source' = source, verify' = verify, unheard' = unheard,
         \A s \in Server : Retracted(s, registrationQueue, mail)
                           => Retracted(s, registrationQueue', mail')
  PROVE  AnswersRetracted'
  BY DEF ClientsInv, AnswersRetracted, Nobody

LEMMA HomeStillAsks ==
  ASSUME ClientsInv, source' = source, verify' = verify, unheard' = unheard,
         registrationState' = registrationState, currentServer' = currentServer,
         registrationState = 2 =>
           (Asked(currentServer, registrationQueue, mail)
            => Asked(currentServer, registrationQueue', mail'))
  PROVE  HomeAsks'
  BY DEF ClientsInv, HomeAsks, Home, Nobody

-----------------------------------------------------------------------------
(* The client.                                                             *)

\* The handler takes an item and may put one of its own at the end.
LEMMA Taken ==
  ASSUME ClientsOK, ClientsInv, registrationQueue # <<>>, mail' = mail,
         NEW kind \in {"register", "timeout", "confirm", "confirm_timeout"},
         registrationQueue' \in {Rest, Append(Rest, Queued(kind))}
  PROVE  /\ Head(registrationQueue) \in Items /\ registrationQueue' \in Seq(Items)
         /\ \A s \in Server : Retracted(s, registrationQueue, mail)
                               => Retracted(s, registrationQueue', mail')
         /\ \A s \in Server : Head(registrationQueue) # Deregistered(s) =>
              (Asked(s, registrationQueue, mail) => Asked(s, registrationQueue', mail'))
<1>1. registrationQueue \in Seq(Items) /\ mail \in Seq(Answers)
  BY DEF ClientsInv, HandlerTypeOK, NetTypeOK
<1>2. Head(registrationQueue) \in Items /\ Rest \in Seq(Items)
  BY <1>1, HeadTailProperties DEF Rest
<1>3. Queued(kind) \in Items /\ \A s \in Server : Queued(kind) # Registered(s)
  BY ItemKinds DEF Items
<1>4. registrationQueue' \in Seq(Items)
  BY <1>2, <1>3, AppendProperties
<1>5. ASSUME NEW s \in Server, Retracted(s, registrationQueue, mail)
      PROVE  Retracted(s, registrationQueue', mail')
  <2>1. Retracted(s, Rest, mail)
    BY <1>1, <1>5, RetractedRest DEF Rest
  <2>2. Retracted(s, Append(Rest, Queued(kind)), mail)
    BY <1>1, <1>2, <1>3, <2>1, RetractedAppend
  <2> QED BY <2>1, <2>2
<1>6. ASSUME NEW s \in Server, Head(registrationQueue) # Deregistered(s),
             Asked(s, registrationQueue, mail)
      PROVE  Asked(s, registrationQueue', mail')
  <2>1. Asked(s, Rest, mail)
    BY <1>1, <1>6, AskedStays DEF Rest
  <2>2. Asked(s, Append(Rest, Queued(kind)), mail)
    BY <1>1, <1>2, <1>3, <2>1, AskedStays
  <2> QED BY <2>1, <2>2
<1> QED BY <1>2, <1>4, <1>5, <1>6

\* The candidate that is tried next is a server.
LEMMA NextCandidate ==
  ASSUME ClientsOK, HandlerTypeOK, Candidates # {}
  PROVE  LET next == CHOOSE i \in Candidates : \A j \in Candidates : i <= j
         IN  next \in Nat /\ serverList[next] \in Server
<1>1. Candidates \subseteq Nat
  BY DEF Candidates, HandlerTypeOK
<1>2. PICK first \in Candidates : \A i \in Candidates : ~(<<i, first>> \in OpToRel(<, Nat))
  <2> HIDE DEF Candidates
  <2> QED BY <1>1, NatLessThanWellFounded, WFMin
<1>3. \A i \in Candidates : first <= i
  <2> SUFFICES ASSUME NEW i \in Candidates PROVE first <= i
    OBVIOUS
  <2>1. ~(i < first)
    BY <1>1, <1>2 DEF OpToRel
  <2> QED BY <1>1, <2>1
<1> DEFINE next == CHOOSE i \in Candidates : \A j \in Candidates : i <= j
<1>4. next \in Candidates
  BY <1>2, <1>3
<1> HIDE DEF next
<1>5. next \in Nat /\ next \in DOMAIN serverList /\ serverList[next] # NoServer
  BY <1>1, <1>4 DEF Candidates
<1>6. serverList[next] \in Known
  BY <1>5 DEF HandlerTypeOK
<1> QED BY <1>5, <1>6 DEF next, Known

\* One more of a kind that wakes after n ticks.
LEMMA SleepsType ==
  ASSUME ClientsOK, HandlerTypeOK, NEW kind \in {"timeout", "confirm_timeout"},
         NEW n \in Ticks
  PROVE  Sleeps(kind, n) \in [{"timeout", "confirm_timeout"} -> Counts]
<1>1. timers[kind] \in Counts
  BY DEF HandlerTypeOK
<1>2. [timers[kind] EXCEPT ![n] = @ + 1] \in Counts
  BY <1>1 DEF Counts
<1> QED BY <1>2 DEF Sleeps, HandlerTypeOK

\* What the handler takes is an item it knows the sender of.
LEMMA HandlerKeeps ==
  ASSUME ClientsOK, ClientsInv, RegistrationHandler, UNCHANGED netVars
  PROVE  ClientsInv'
<1> USE DEF ClientsInv
<1>0. /\ mail' = mail /\ source' = source /\ verify' = verify /\ unheard' = unheard
      /\ NetTypeOK'
  BY DEF netVars, NetTypeOK
<1>1. CASE Register
  <2>1. Takes("register") BY <1>1 DEF Register
  <2>2. registrationQueue' \in {Rest, Append(Rest, Queued("timeout"))}
    BY <1>1 DEF Register
  <2>3. Head(registrationQueue) # Deregistered(currentServer)
    BY <2>1 DEF Takes, Deregistered
  <2>4. serversToTry \in Seq(Known)
    BY DEF serversToTry, ClientsOK, HandlerTypeOK, Known
  <2>5. HandlerTypeOK'
    BY <1>0, <1>1, <2>1, <2>2, <2>4, Taken DEF Takes, Register, HandlerTypeOK, Known
  <2>6. AnswersRetracted'
    BY <1>0, <2>1, <2>2, Taken, AnswersStayRetracted DEF Takes
  <2>7. CASE registrationState = 0
    <3>1. HomeAsks'
      BY <1>1, <2>7 DEF Register, HomeAsks
    <3> QED BY <1>0, <2>5, <2>6, <3>1
  <2>8. CASE registrationState # 0
    <3>1. currentServer \in Server /\ currentServer' = currentServer
      BY <1>1, <2>8 DEF Register, HandlerTypeOK
    <3>2. registrationState' = registrationState
      BY <1>1 DEF Register
    <3>3. HomeAsks'
      BY <1>0, <2>1, <2>2, <2>3, <3>1, <3>2, Taken, HomeStillAsks DEF Takes
    <3> QED BY <1>0, <2>5, <2>6, <3>3
  <2> QED BY <2>7, <2>8
<1>2. CASE TryNext
  <2> DEFINE next == CHOOSE i \in Candidates : \A j \in Candidates : i <= j
  <2>1. Takes("timeout") /\ registrationQueue' = Rest /\ registrationState = 0
    BY <1>2 DEF TryNext
  <2>2. next \in Nat /\ serverList[next] \in Server
    BY <1>2, NextCandidate DEF TryNext
  <2>3. /\ indexInList' = next /\ currentServer' = serverList[next]
        /\ sends' = Append(sends, serverList[next])
    BY <1>2 DEF TryNext
  <2> HIDE DEF next
  <2>4. timers' \in [{"timeout", "confirm_timeout"} -> Counts]
    <3>1. {1, 2} \subseteq Ticks
      BY DEF Ticks, ClientsOK
    <3>2. PICK ticks \in {1, 2} : timers' = Sleeps("timeout", ticks)
      BY <1>2 DEF TryNext
    <3> QED BY <3>1, <3>2, SleepsType
  <2>8. registrationQueue' \in Seq(Items)
    BY <1>0, <2>1, Taken DEF Takes
  <2>9. UNCHANGED <<registrationState, serverList, asleep>>
    BY <1>2 DEF TryNext
  <2>5. HandlerTypeOK'
    BY <2>1, <2>2, <2>3, <2>4, <2>8, <2>9, AppendProperties DEF HandlerTypeOK, Known
  <2>6. AnswersRetracted'
    BY <1>0, <2>1, Taken, AnswersStayRetracted DEF Takes
  <2>7. HomeAsks'
    BY <1>2, <2>1 DEF TryNext, HomeAsks
  <2> QED BY <1>0, <2>5, <2>6, <2>7
<1>3. CASE NoneLeft
  <2>1. Takes("timeout") /\ registrationQueue' = Rest /\ registrationState = 0
    BY <1>3 DEF NoneLeft
  <2>2. registrationQueue' \in Seq(Items)
    BY <1>0, <2>1, Taken DEF Takes
  <2>5. HandlerTypeOK'
    BY <1>3, <2>2 DEF NoneLeft, HandlerTypeOK, ClientsOK
  <2>3. AnswersRetracted'
    BY <1>0, <2>1, Taken, AnswersStayRetracted DEF Takes
  <2>4. HomeAsks'
    BY <1>3, <2>1 DEF NoneLeft, HomeAsks
  <2> QED BY <1>0, <2>3, <2>4, <2>5
<1>4. CASE Ignore
  <2>1. registrationQueue # <<>> /\ registrationQueue' = Rest
    BY <1>4 DEF Ignore, Takes
  <2>2. HandlerTypeOK'
    BY <1>0, <1>4, <2>1, Taken DEF Ignore, HandlerTypeOK
  <2>3. AnswersRetracted'
    BY <1>0, <2>1, Taken, AnswersStayRetracted
  <2>4. registrationState = 2 => Head(registrationQueue) # Deregistered(currentServer)
    BY <1>4 DEF Ignore, Takes, From, Deregistered
  <2>5. registrationState = 2 => currentServer \in Server
    BY DEF HandlerTypeOK
  <2>6. registrationState' = registrationState /\ currentServer' = currentServer
    BY <1>4 DEF Ignore
  <2>7. HomeAsks'
    BY <1>0, <2>1, <2>4, <2>5, <2>6, Taken, HomeStillAsks
  <2> QED BY <1>0, <2>2, <2>3, <2>7
<1>5. CASE StartAgain
  <2>1. /\ Takes("confirm_timeout")
        /\ registrationQueue' = Append(Rest, Queued("register")) /\ registrationState' = 0
    BY <1>5 DEF StartAgain
  <2>2. HandlerTypeOK'
    BY <1>0, <1>5, <2>1, Taken DEF Takes, StartAgain, HandlerTypeOK
  <2>3. AnswersRetracted'
    BY <1>0, <2>1, Taken, AnswersStayRetracted DEF Takes
  <2>4. HomeAsks'
    BY <2>1 DEF HomeAsks
  <2> QED BY <1>0, <2>2, <2>3, <2>4
<1>6. CASE HandleRegistered
  <2>1. /\ Takes("registered") /\ From = currentServer /\ registrationState' = 2
        /\ registrationQueue' = Rest /\ currentServer' = currentServer
    BY <1>6 DEF HandleRegistered
  <2>2. Head(registrationQueue) \in Items
    BY <1>0, <2>1, Taken DEF Takes
  <2>3. currentServer \in Server /\ Head(registrationQueue) = Registered(currentServer)
    BY <2>1, <2>2 DEF Takes, From, Items, Answers, Own, Registered
  <2>4. HandlerTypeOK'
    BY <1>0, <1>6, <2>1, <2>3, Taken DEF Takes, HandleRegistered, HandlerTypeOK
  <2>5. AnswersRetracted'
    BY <1>0, <2>1, Taken, AnswersStayRetracted DEF Takes
  <2>6. ASSUME source[currentServer] # currentServer, verify[currentServer] = Nobody,
               currentServer \notin unheard
        PROVE  Asked(currentServer, Rest, mail)
    <3>1. Retracted(currentServer, registrationQueue, mail)
      BY <2>3, <2>6 DEF AnswersRetracted
    <3>2. /\ 1 \in DOMAIN registrationQueue
          /\ registrationQueue[1] = Registered(currentServer)
      BY <2>1, <2>3 DEF Takes, HandlerTypeOK
    <3>3. \A j \in DOMAIN registrationQueue : j > 1 =>
            j - 1 \in DOMAIN Rest /\ Rest[j - 1] = registrationQueue[j]
      BY <2>1 DEF Takes, HandlerTypeOK, Rest
    <3> QED BY <3>1, <3>2, <3>3 DEF Retracted, Asked
  <2>7. HomeAsks'
    BY <1>0, <2>1, <2>6 DEF HomeAsks, Home, Nobody
  <2> QED BY <1>0, <2>4, <2>5, <2>7
<1>7. CASE Doubt
  <2>1. /\ Takes("registered") /\ registrationQueue' = Append(Rest, Queued("confirm"))
        /\ registrationState' = registrationState /\ currentServer' = currentServer
    BY <1>7 DEF Doubt
  <2>2. HandlerTypeOK'
    BY <1>0, <1>7, <2>1, Taken DEF Takes, Doubt, HandlerTypeOK
  <2>3. AnswersRetracted'
    BY <1>0, <2>1, Taken, AnswersStayRetracted DEF Takes
  <2>4. Head(registrationQueue) # Deregistered(currentServer)
    BY <2>1 DEF Takes, Deregistered
  <2>5. registrationState = 2 => currentServer \in Server
    BY DEF HandlerTypeOK
  <2>6. HomeAsks'
    BY <1>0, <2>1, <2>4, <2>5, Taken, HomeStillAsks DEF Takes
  <2> QED BY <1>0, <2>2, <2>3, <2>6
<1>8. CASE Confirm
  <2>1. /\ registrationQueue # <<>> /\ registrationQueue' = Rest
        /\ registrationState = 2 /\ registrationState' = 1
    BY <1>8 DEF Confirm, Takes
  <2>2. currentServer \in Server
    BY <2>1 DEF HandlerTypeOK
  <2>3. timers' \in [{"timeout", "confirm_timeout"} -> Counts]
    <3>1. ConfirmTicks \in Ticks
      BY DEF Ticks, ClientsOK
    <3> QED BY <1>8, <3>1, SleepsType DEF Confirm
  <2>4. HandlerTypeOK'
    BY <1>0, <1>8, <2>1, <2>2, <2>3, Taken, AppendProperties DEF Confirm, HandlerTypeOK
  <2>5. AnswersRetracted'
    BY <1>0, <2>1, Taken, AnswersStayRetracted
  <2>6. HomeAsks'
    BY <2>1 DEF HomeAsks
  <2> QED BY <1>0, <2>4, <2>5, <2>6
<1> QED BY <1>1, <1>2, <1>3, <1>4, <1>5, <1>6, <1>7, <1>8 DEF RegistrationHandler

LEMMA SendKeeps ==
  ASSUME ClientsOK, ClientsInv, Send_here_i_am
  PROVE  ClientsInv'
<1> USE DEF ClientsInv
<1>1. sends' \in Seq(Server) /\ Head(sends) \in Server
  BY HeadTailProperties DEF Send_here_i_am, HandlerTypeOK
<1>2. HandlerTypeOK'
  BY <1>1 DEF Send_here_i_am, HandlerTypeOK
<1>3. here_i_am' \in [Server -> Nat]
  <2>1. here_i_am \in [Server -> Nat]
    BY DEF NetTypeOK
  <2>2. \A h \in Server : [here_i_am EXCEPT ![h] = @ + 1] \in [Server -> Nat]
    BY <2>1
  <2> QED BY <1>1, <2>1, <2>2 DEF Send_here_i_am
<1>4. NetTypeOK'
  BY <1>3 DEF Send_here_i_am, NetTypeOK
<1>5. AnswersRetracted'
  BY AnswersStayRetracted DEF Send_here_i_am
<1>6. HomeAsks'
  BY HomeStillAsks DEF Send_here_i_am
<1> QED BY <1>2, <1>4, <1>5, <1>6

\* Only "deregistered" may arrive before what was sent earlier.
LEMMA ReceiveKeeps ==
  ASSUME ClientsOK, ClientsInv, NEW n, Receive(n)
  PROVE  ClientsInv'
<1> USE DEF ClientsInv
<1>1. /\ n \in DOMAIN mail /\ \A k \in 1..(n - 1) : mail[k] # Registered(mail[n].source)
      /\ mail' = RemoveAt(mail, n) /\ registrationQueue' = Append(registrationQueue, mail[n])
  BY DEF Receive, ClientsOK
<1>2. /\ UNCHANGED <<registrationState, currentServer, serverList, indexInList, timers>>
      /\ UNCHANGED <<asleep, sends, down, source, here_i_am, handlers, nfc, verify, faults>>
      /\ unheard' = unheard
  BY DEF Receive
<1>3. mail \in Seq(Answers) /\ registrationQueue \in Seq(Items)
  BY DEF HandlerTypeOK, NetTypeOK
<1>4. mail[n] \in Items
  BY <1>1, <1>3 DEF Items
<1>5. mail' \in Seq(Answers) /\ registrationQueue' \in Seq(Items)
  BY <1>1, <1>3, <1>4, RemoveAtProperties, AppendProperties
<1>6. HandlerTypeOK' /\ NetTypeOK'
  BY <1>2, <1>5 DEF HandlerTypeOK, NetTypeOK
<1>7. AnswersRetracted'
  BY <1>1, <1>2, <1>3, RetractedArrival, AnswersStayRetracted
<1>8. registrationState = 2 => currentServer \in Server
  BY DEF HandlerTypeOK
<1>9. HomeAsks'
  BY <1>1, <1>2, <1>3, <1>8, AskedStays, HomeStillAsks
<1> QED BY <1>6, <1>7, <1>9

\* A timer, or tryToReestablishCommunicationWith, puts an item into the queue.
LEMMA QueuedKeeps ==
  ASSUME ClientsOK, ClientsInv, NEW kind \in {"timeout", "confirm_timeout", "confirm"},
         registrationQueue' = Append(registrationQueue, Queued(kind)),
         timers' \in [{"timeout", "confirm_timeout"} -> Counts], faults' \in Nat,
         UNCHANGED <<registrationState, currentServer, serverList, indexInList, asleep>>,
         UNCHANGED <<sends, down, source, here_i_am, handlers, nfc, verify, mail, unheard>>
  PROVE  ClientsInv'
<1> USE DEF ClientsInv
<1>1. mail \in Seq(Answers) /\ registrationQueue \in Seq(Items)
  BY DEF HandlerTypeOK, NetTypeOK
<1>2. Queued(kind) \in Items /\ \A s \in Server : Queued(kind) # Registered(s)
  BY ItemKinds DEF Items
<1>3. registrationQueue' \in Seq(Items)
  BY <1>1, <1>2, AppendProperties
<1>4. HandlerTypeOK' /\ NetTypeOK'
  BY <1>3 DEF HandlerTypeOK, NetTypeOK
<1>5. AnswersRetracted'
  BY <1>1, <1>2, RetractedAppend, AnswersStayRetracted
<1>6. registrationState = 2 => currentServer \in Server
  BY DEF HandlerTypeOK
<1>7. HomeAsks'
  BY <1>1, <1>2, <1>6, AskedStays, HomeStillAsks
<1> QED BY <1>4, <1>5, <1>7

LEMMA FireKeeps ==
  ASSUME ClientsOK, ClientsInv, NEW kind \in DOMAIN timers, Fire(kind)
  PROVE  ClientsInv'
<1>1. kind \in {"timeout", "confirm_timeout"} /\ timers[kind] \in Counts
  BY DEF ClientsInv, HandlerTypeOK
<1>2. 0 \in Ticks
  BY DEF ClientsOK, Ticks
<1>3. timers[kind][0] - 1 \in Nat
  BY <1>1, <1>2 DEF Counts, Fire, Ripe
<1>4. [timers[kind] EXCEPT ![0] = @ - 1] \in Counts
  BY <1>1, <1>3 DEF Counts
<1>5. timers' = [timers EXCEPT ![kind] = [timers[kind] EXCEPT ![0] = @ - 1]]
  BY DEF Fire
<1>6. timers' \in [{"timeout", "confirm_timeout"} -> Counts]
  BY <1>1, <1>4, <1>5 DEF ClientsInv, HandlerTypeOK
<1>7. faults' \in Nat
  BY DEF Fire, netVars, ClientsInv, NetTypeOK
<1> QED BY <1>1, <1>6, <1>7, QueuedKeeps DEF Fire, netVars

-----------------------------------------------------------------------------
(* The servers.                                                            *)

\* Neither the client nor what is under way for it changes.
LEMMA ElsewhereKeeps ==
  ASSUME ClientsInv, NetTypeOK', UNCHANGED handlerVars,
         UNCHANGED <<source, verify, mail, unheard>>
  PROVE  ClientsInv'
<1> USE DEF ClientsInv
<1>1. HandlerTypeOK'
  BY DEF HandlerTypeOK, handlerVars
<1>2. AnswersRetracted'
  BY AnswersStayRetracted DEF handlerVars
<1>3. HomeAsks'
  BY HomeStillAsks DEF handlerVars
<1> QED BY <1>1, <1>2, <1>3

\* One more or one less of those that wait for n ticks at s.
LEMMA CountedType ==
  ASSUME NEW f \in [Server -> Counts], NEW s \in Server, NEW n \in Ticks
  PROVE  /\ [f EXCEPT ![s][n] = @ + 1] \in [Server -> Counts]
         /\ f[s][n] > 0 => [f EXCEPT ![s][n] = @ - 1] \in [Server -> Counts]
<1>1. f[s] \in Counts /\ f[s][n] \in Nat
  BY DEF Counts
<1>2. [f[s] EXCEPT ![n] = @ + 1] \in Counts
  BY <1>1 DEF Counts
<1>3. f[s][n] > 0 => [f[s] EXCEPT ![n] = @ - 1] \in Counts
  BY <1>1 DEF Counts
<1> QED BY <1>2, <1>3

\* A server that hears of another server takes its word, but remembers to ask.
LEMMA UpdateKeeps ==
  ASSUME ClientsOK, ClientsInv, NEW s \in Server, NEW from \in Server,
         ClientUpdate(s, from), UNCHANGED <<handlerVars, mail>>,
         unheard' = unheard \/ (from = s /\ unheard' = unheard \ {s}),
         UNCHANGED <<down>>, faults' \in Nat, here_i_am' \in [Server -> Nat],
         handlers' \in [Server -> Counts], nfc' \in [Server -> [Server -> Seq(Server)]]
  PROVE  ClientsInv'
<1> USE DEF ClientsInv
<1>1. /\ source' = [source EXCEPT ![s] = from] /\ source' \in [Server -> Known]
      /\ source \in [Server -> Known] /\ verify \in [Server -> Counts]
      /\ unheard' \in SUBSET Server
      /\ \A t \in Server : source'[t] # t /\ t \in unheard => t \in unheard'
  BY DEF ClientUpdate, NetTypeOK, Known
<1>2. CASE from # s /\ source[s] = s
  <2>1. ConfirmTicks \in Ticks
    BY DEF ClientsOK, Ticks
  <2>2. verify' = [verify EXCEPT ![s] = [verify[s] EXCEPT ![ConfirmTicks] = @ + 1]]
    BY <1>2 DEF ClientUpdate
  <2>3. verify[s] \in Counts /\ verify[s][ConfirmTicks] \in Nat
    BY <1>1, <2>1 DEF Counts
  <2>5. verify' \in [Server -> Counts]
    BY <1>1, <1>2, <2>1, CountedType DEF ClientUpdate
  <2>6. verify'[s][ConfirmTicks] # 0
    BY <1>1, <2>1, <2>2, <2>3 DEF Counts
  <2>7. verify'[s] # Nobody
    BY <2>1, <2>6 DEF Nobody
  <2>8. \A t \in Server : t # s => source'[t] = source[t] /\ verify'[t] = verify[t]
    BY <1>1, <2>2
  <2>9. HandlerTypeOK' /\ NetTypeOK'
    BY <1>1, <2>5 DEF HandlerTypeOK, NetTypeOK, handlerVars
  <2>10. AnswersRetracted'
    BY <1>1, <2>7, <2>8 DEF AnswersRetracted, handlerVars, Nobody
  <2>11. registrationState = 2 => currentServer \in Server
    BY DEF HandlerTypeOK
  <2>12. HomeAsks'
    BY <1>1, <2>7, <2>8, <2>11 DEF HomeAsks, Home, handlerVars, Nobody
  <2> QED BY <2>9, <2>10, <2>12
<1>3. CASE ~(from # s /\ source[s] = s)
  <2>1. verify' = verify
    BY <1>3 DEF ClientUpdate
  <2>2. \A t \in Server : source'[t] # t => source[t] # t
    BY <1>1, <1>3
  <2>3. HandlerTypeOK' /\ NetTypeOK'
    BY <1>1, <2>1 DEF HandlerTypeOK, NetTypeOK, handlerVars
  <2>4. AnswersRetracted'
    BY <1>1, <2>1, <2>2 DEF AnswersRetracted, handlerVars, Nobody
  <2>5. registrationState = 2 => currentServer \in Server
    BY DEF HandlerTypeOK
  <2>6. HomeAsks'
    BY <1>1, <2>1, <2>2, <2>5 DEF HomeAsks, Home, handlerVars, Nobody
  <2> QED BY <2>3, <2>4, <2>6
<1> QED BY <1>2, <1>3

LEMMA HandleHereIAmKeeps ==
  ASSUME ClientsOK, ClientsInv, NEW s \in Server, HandleHereIAm(s)
  PROVE  ClientsInv'
<1>1. here_i_am' \in [Server -> Nat]
  BY DEF HandleHereIAm, ClientsInv, NetTypeOK
<1>2. faults' \in Nat /\ nfc' \in [Server -> [Server -> Seq(Server)]]
      /\ UNCHANGED <<handlerVars, mail>> /\ UNCHANGED <<down>>
  BY DEF HandleHereIAm, ClientsInv, NetTypeOK
<1>3. CASE s \in up
  <2>1. /\ ClientUpdate(s, s) /\ handlers' = [handlers EXCEPT ![s][0] = @ + 1]
        /\ unheard' = unheard \ {s}
    BY <1>3 DEF HandleHereIAm
  <2>2. 0 \in Ticks /\ handlers \in [Server -> Counts]
    BY DEF ClientsOK, Ticks, ClientsInv, NetTypeOK
  <2>3. handlers' \in [Server -> Counts]
    BY <2>1, <2>2, CountedType
  <2> QED BY <1>1, <1>2, <2>1, <2>3, UpdateKeeps
<1>4. CASE s \notin up
  <2>1. UNCHANGED <<source, verify, handlers, unheard>>
    BY <1>4 DEF HandleHereIAm
  <2>2. NetTypeOK'
    BY <1>1, <1>2, <2>1 DEF ClientsInv, NetTypeOK
  <2> QED BY <1>2, <2>1, <2>2, ElsewhereKeeps
<1> QED BY <1>3, <1>4

LEMMA NewForeignClientKeeps ==
  ASSUME ClientsOK, ClientsInv, NEW s \in Server, NEW t \in Server, new_foreign_client(s, t)
  PROVE  ClientsInv'
<1>1. nfc[s][t] \in Seq(Server) /\ nfc[s][t] # <<>> /\ nfc[s] \in [Server -> Seq(Server)]
  BY DEF new_foreign_client, ClientsInv, NetTypeOK
<1>2. Head(nfc[s][t]) \in Server /\ Tail(nfc[s][t]) \in Seq(Server)
  BY <1>1, HeadTailProperties
<1>3. nfc' = [nfc EXCEPT ![s] = [nfc[s] EXCEPT ![t] = Tail(nfc[s][t])]]
  BY DEF new_foreign_client
<1>4. [nfc[s] EXCEPT ![t] = Tail(nfc[s][t])] \in [Server -> Seq(Server)]
  BY <1>1, <1>2
<1>5. nfc' \in [Server -> [Server -> Seq(Server)]]
  BY <1>3, <1>4 DEF ClientsInv, NetTypeOK
<1>6. /\ faults' \in Nat /\ here_i_am' \in [Server -> Nat]
      /\ handlers' \in [Server -> Counts]
      /\ UNCHANGED <<handlerVars, mail>> /\ UNCHANGED <<down>> /\ unheard' = unheard
      /\ ClientUpdate(t, Head(nfc[s][t]))
  BY DEF new_foreign_client, ClientsInv, NetTypeOK
<1> QED BY <1>2, <1>5, <1>6, UpdateKeeps

\* What a server says to the client can always be said, and taken back if it is
\* "registered", because the server believes it.
LEMMA MailKeeps ==
  ASSUME ClientsInv, NEW x \in Answers, mail' = Append(mail, x), UNCHANGED handlerVars,
         UNCHANGED <<source, verify, unheard>>, NetTypeOK',
         \A s \in Server : x = Registered(s) => source[s] = s
  PROVE  ClientsInv'
<1> USE DEF ClientsInv
<1>1. mail \in Seq(Answers) /\ registrationQueue \in Seq(Items)
  BY DEF HandlerTypeOK, NetTypeOK
<1>2. HandlerTypeOK'
  BY DEF HandlerTypeOK, handlerVars
<1>3. ASSUME NEW s \in Server, source[s] # s, verify[s] = Nobody, s \notin unheard
      PROVE  Retracted(s, registrationQueue, Append(mail, x))
  <2>1. x # Registered(s) /\ Retracted(s, registrationQueue, mail)
    BY <1>3 DEF AnswersRetracted
  <2> QED BY <1>1, <2>1, RetractedByNews
<1>4. AnswersRetracted'
  BY <1>3 DEF AnswersRetracted, handlerVars, Nobody
<1>5. registrationState = 2 => currentServer \in Server
  BY DEF HandlerTypeOK
<1>6. registrationState = 2 => (Asked(currentServer, registrationQueue, mail)
        => Asked(currentServer, registrationQueue, Append(mail, x)))
  BY <1>1, <1>5, AskedStays
<1>7. HomeAsks'
  BY <1>6, HomeStillAsks DEF handlerVars
<1> QED BY <1>2, <1>4, <1>7

LEMMA AnswerKeeps ==
  ASSUME ClientsOK, ClientsInv, NEW s \in Server, NEW n \in Ticks, Answer(s, n)
  PROVE  ClientsInv'
<1>1. handlers' \in [Server -> Counts]
  BY CountedType DEF Answer, ClientsInv, NetTypeOK
<1>2. nfc' \in [Server -> [Server -> Seq(Server)]]
  <2>1. \A t \in Server : Append(nfc[s][t], s) \in Seq(Server) /\ nfc[s][t] \in Seq(Server)
    BY AppendProperties DEF ClientsInv, NetTypeOK
  <2>2. nfc' = [nfc EXCEPT ![s] = [t \in Server |-> IF t = s THEN nfc[s][t]
                                                            ELSE Append(nfc[s][t], s)]]
    BY DEF Answer, Broadcast
  <2>3. [t \in Server |-> IF t = s THEN nfc[s][t] ELSE Append(nfc[s][t], s)]
          \in [Server -> Seq(Server)]
    BY <2>1
  <2> QED BY <2>2, <2>3 DEF ClientsInv, NetTypeOK
<1>3. /\ UNCHANGED handlerVars /\ UNCHANGED <<source, verify, unheard>>
      /\ UNCHANGED <<down, here_i_am, faults>>
  BY DEF Answer
<1>4. CASE source[s] = s
  <2>1. mail' = Append(mail, Registered(s)) /\ Registered(s) \in Answers
    BY <1>4, ItemKinds DEF Answer
  <2>2. \A t \in Server : Registered(s) = Registered(t) => source[t] = t
    BY <1>4, ItemKinds
  <2>3. NetTypeOK'
    BY <1>1, <1>2, <1>3, <2>1, AppendProperties DEF ClientsInv, NetTypeOK
  <2> QED BY <1>3, <2>1, <2>2, <2>3, MailKeeps
<1>5. CASE source[s] # s
  <2>1. mail' = mail
    BY <1>5 DEF Answer
  <2>2. NetTypeOK'
    BY <1>1, <1>2, <1>3, <2>1 DEF ClientsInv, NetTypeOK
  <2> QED BY <1>3, <2>1, <2>2, ElsewhereKeeps
<1> QED BY <1>4, <1>5

\* Who was to be asked has come back or is asked now.
LEMMA VerifyKeeps ==
  ASSUME ClientsOK, ClientsInv, NEW s \in Server, NEW n \in Ticks, Verify(s, n)
  PROVE  ClientsInv'
<1> USE DEF ClientsInv
<1>1. verify' \in [Server -> Counts] /\ \A t \in Server : t # s => verify'[t] = verify[t]
  BY CountedType DEF Verify, NetTypeOK
<1>2. /\ UNCHANGED handlerVars
      /\ UNCHANGED <<source, down, here_i_am, handlers, nfc, faults, unheard>>
  BY DEF Verify
<1>3. HandlerTypeOK'
  BY <1>2 DEF HandlerTypeOK, handlerVars
<1>4. mail \in Seq(Answers) /\ registrationQueue \in Seq(Items)
  BY DEF HandlerTypeOK, NetTypeOK
<1>5. registrationState = 2 => currentServer \in Server
  BY DEF HandlerTypeOK
<1>6. CASE source[s] = s
  <2>1. mail' = mail
    BY <1>6 DEF Verify
  <2>2. NetTypeOK'
    BY <1>1, <1>2, <2>1 DEF NetTypeOK
  <2>3. AnswersRetracted'
    BY <1>1, <1>2, <1>6, <2>1 DEF AnswersRetracted, handlerVars, Nobody
  <2>4. HomeAsks'
    BY <1>1, <1>2, <1>5, <1>6, <2>1 DEF HomeAsks, Home, handlerVars, Nobody
  <2> QED BY <1>3, <2>2, <2>3, <2>4
<1>7. CASE source[s] # s
  <2>1. mail' = Append(mail, Deregistered(s)) /\ Deregistered(s) \in Answers
    BY <1>7, ItemKinds DEF Verify
  <2>2. NetTypeOK'
    BY <1>1, <1>2, <2>1, AppendProperties DEF NetTypeOK
  <2>3. ASSUME NEW t \in Server, source[t] # t, verify'[t] = Nobody, t \notin unheard
        PROVE  Retracted(t, registrationQueue, mail')
    <3>1. CASE t = s
      BY <1>4, <2>1, <3>1, RetractedByDeregistered
    <3>2. CASE t # s
      <4>1. Retracted(t, registrationQueue, mail)
        BY <1>1, <2>3, <3>2 DEF AnswersRetracted
      <4> QED BY <1>4, <2>1, <4>1, ItemKinds, RetractedByNews
    <3> QED BY <3>1, <3>2
  <2>4. AnswersRetracted'
    BY <1>2, <2>3 DEF AnswersRetracted, handlerVars, Nobody
  <2>5. ASSUME registrationState = 2, source[currentServer] # currentServer,
               verify'[currentServer] = Nobody, currentServer \notin unheard
        PROVE  Asked(currentServer, registrationQueue, mail')
    <3>1. CASE currentServer = s
      BY <1>4, <2>1, <3>1, RetractedByDeregistered DEF Asked
    <3>2. CASE currentServer # s
      <4>1. Asked(currentServer, registrationQueue, mail)
        BY <1>1, <1>5, <2>5, <3>2 DEF HomeAsks, Home
      <4> QED BY <1>4, <1>5, <2>1, <2>5, <4>1, AskedStays
    <3> QED BY <3>1, <3>2
  <2>6. HomeAsks'
    BY <1>2, <2>5 DEF HomeAsks, Home, handlerVars, Nobody
  <2> QED BY <1>3, <2>2, <2>4, <2>6
<1> QED BY <1>6, <1>7

-----------------------------------------------------------------------------
(* Faults and time.                                                        *)

LEMMA SlowLDAPKeeps ==
  ASSUME ClientsOK, ClientsInv, NEW s \in Server, SlowLDAP(s)
  PROVE  ClientsInv'
<1>1. 0 \in Ticks /\ ConfirmTicks \in Ticks /\ 0 # ConfirmTicks
  BY DEF ClientsOK, Ticks
<1>2. handlers \in [Server -> Counts] /\ handlers[s][0] > 0
  BY DEF SlowLDAP, ClientsInv, NetTypeOK
<1>3. [handlers EXCEPT ![s][0] = @ - 1] \in [Server -> Counts]
  BY <1>1, <1>2, CountedType
<1>4. [handlers EXCEPT ![s][0] = @ - 1, ![s][ConfirmTicks] = @ + 1] \in [Server -> Counts]
  <2> DEFINE h == [handlers EXCEPT ![s][0] = @ - 1]
  <2>1. [h EXCEPT ![s][ConfirmTicks] = @ + 1] \in [Server -> Counts]
    BY <1>1, <1>3, CountedType
  <2>2. [handlers EXCEPT ![s][0] = @ - 1, ![s][ConfirmTicks] = @ + 1]
          = [h EXCEPT ![s][ConfirmTicks] = @ + 1]
    BY <1>1, <1>2 DEF Counts
  <2> QED BY <2>1, <2>2
<1>5. handlers' \in [Server -> Counts]
  BY <1>3, <1>4 DEF SlowLDAP
<1>6. NetTypeOK'
  BY <1>5 DEF SlowLDAP, Fault, ClientsInv, NetTypeOK
<1> QED BY <1>6, ElsewhereKeeps DEF SlowLDAP

LEMMA LoseMailKeeps ==
  ASSUME ClientsOK, ClientsInv, LoseMail
  PROVE  ClientsInv'
<1>1. /\ UNCHANGED handlerVars /\ UNCHANGED <<down, source, handlers, nfc, verify>>
      /\ faults' \in Nat
  BY DEF LoseMail, Fault, ClientsInv, NetTypeOK
<1>2. ASSUME UNCHANGED <<mail, unheard>>, NEW s \in Server, here_i_am[s] > 0,
             here_i_am' = [here_i_am EXCEPT ![s] = @ - 1]
      PROVE  ClientsInv'
  <2>1. here_i_am' \in [Server -> Nat]
    BY <1>2 DEF ClientsInv, NetTypeOK
  <2>2. NetTypeOK'
    BY <1>1, <1>2, <2>1 DEF ClientsInv, NetTypeOK
  <2> QED BY <1>1, <1>2, <2>2, ElsewhereKeeps
<1>3. ASSUME NEW n \in DOMAIN mail, mail' = RemoveAt(mail, n), here_i_am' = here_i_am,
             unheard' = IF mail[n] = Deregistered(mail[n].source)
                             /\ source[mail[n].source] # mail[n].source
                        THEN unheard \cup {mail[n].source} ELSE unheard
      PROVE  ClientsInv'
  <2> USE DEF ClientsInv
  <2>1. /\ mail \in Seq(Answers) /\ registrationQueue \in Seq(Items)
        /\ mail' \in Seq(Answers) /\ mail[n].source \in Server
    <3>1. mail \in Seq(Answers) /\ registrationQueue \in Seq(Items)
      BY DEF HandlerTypeOK, NetTypeOK
    <3>2. mail[n] \in Answers
      BY <3>1
    <3> QED BY <1>3, <3>1, <3>2, Removed DEF Answers
  <2>2. HandlerTypeOK' /\ NetTypeOK'
    BY <1>1, <1>3, <2>1 DEF HandlerTypeOK, NetTypeOK, handlerVars
  <2>3. unheard \subseteq unheard'
    BY <1>3
  <2>4. ASSUME NEW s \in Server, source[s] # s, s \notin unheard' PROVE mail[n] # Deregistered(s)
    <3>1. SUFFICES ASSUME mail[n] = Deregistered(s) PROVE FALSE
      OBVIOUS
    <3>2. mail[n].source = s
      BY <3>1 DEF Deregistered
    <3> QED BY <1>3, <2>4, <3>1, <3>2
  <2>5. ASSUME NEW s \in Server, source[s] # s, verify[s] = Nobody, s \notin unheard'
        PROVE  Retracted(s, registrationQueue, mail')
    <3>1. Retracted(s, registrationQueue, mail)
      BY <2>3, <2>5 DEF AnswersRetracted
    <3> QED BY <1>3, <2>1, <2>4, <2>5, <3>1, RetractedLoss
  <2>6. AnswersRetracted'
    BY <1>1, <2>5 DEF AnswersRetracted, handlerVars, Nobody
  <2>7. ASSUME registrationState = 2, source[currentServer] # currentServer,
               verify[currentServer] = Nobody, currentServer \notin unheard'
        PROVE  Asked(currentServer, registrationQueue, mail')
    <3>1. currentServer \in Server
      BY <2>7 DEF HandlerTypeOK
    <3>2. Asked(currentServer, registrationQueue, mail)
      BY <2>3, <2>7 DEF HomeAsks, Home
    <3> QED BY <1>3, <2>1, <2>4, <2>7, <3>1, <3>2, RetractedLoss
  <2>8. HomeAsks'
    BY <1>1, <2>7 DEF HomeAsks, Home, handlerVars, Nobody
  <2> QED BY <2>2, <2>6, <2>8
<1> QED BY <1>2, <1>3 DEF LoseMail

LEMMA ConfirmRegistrationKeeps ==
  ASSUME ClientsOK, ClientsInv, ConfirmRegistration
  PROVE  ClientsInv'
<1>1. faults' \in Nat /\ timers' \in [{"timeout", "confirm_timeout"} -> Counts]
  BY DEF ConfirmRegistration, Fault, ClientsInv, HandlerTypeOK, NetTypeOK
<1> QED BY <1>1, QueuedKeeps DEF ConfirmRegistration

LEMMA NobodyType == Nobody \in Counts
  BY DEF Nobody, Counts

\* The goroutine that a server takes with it is one that nobody needs.
LEMMA StopKeeps ==
  ASSUME ClientsOK, ClientsInv, NEW s \in Server, Stop(s),
         verify[s] = Nobody \/ source[s] = s \/ ~Trusts(s)
  PROVE  ClientsInv'
<1> USE DEF ClientsInv
<1>1. /\ UNCHANGED handlerVars /\ UNCHANGED <<source, here_i_am, mail, unheard>>
      /\ verify' = [verify EXCEPT ![s] = Nobody] /\ verify \in [Server -> Counts]
  BY DEF Stop, NetTypeOK
<1>2. HandlerTypeOK'
  BY <1>1 DEF HandlerTypeOK, handlerVars
<1>3. NetTypeOK'
  <2>1. down' \in [Server -> Nat] /\ faults' \in Nat
    BY DEF Stop, Fault, NetTypeOK, ClientsOK
  <2>2. handlers' \in [Server -> Counts] /\ verify' \in [Server -> Counts]
    BY NobodyType DEF Stop, NetTypeOK
  <2>3. nfc' \in [Server -> [Server -> Seq(Server)]]
    <3>1. [t \in Server |-> <<>>] \in [Server -> Seq(Server)]
      OBVIOUS
    <3> QED BY <3>1 DEF Stop, NetTypeOK
  <2> QED BY <1>1, <2>1, <2>2, <2>3 DEF NetTypeOK
<1>4. \A t \in Server : t # s => verify'[t] = verify[t]
  BY <1>1
<1>5. ASSUME NEW t \in Server, source[t] # t, verify'[t] = Nobody, t \notin unheard
      PROVE  Retracted(t, registrationQueue, mail)
  <2>1. CASE verify[t] = Nobody
    BY <1>5, <2>1 DEF AnswersRetracted
  <2>2. CASE verify[t] # Nobody
    <3>1. ~Trusts(t)
      BY <1>4, <1>5, <2>2
    <3> QED BY <3>1 DEF Trusts, Retracted, Range
  <2> QED BY <2>1, <2>2
<1>6. AnswersRetracted'
  BY <1>1, <1>5 DEF AnswersRetracted, handlerVars, Nobody
<1>7. ASSUME registrationState = 2, source[currentServer] # currentServer,
             verify'[currentServer] = Nobody, currentServer \notin unheard
      PROVE  Asked(currentServer, registrationQueue, mail)
  <2>1. currentServer \in Server /\ Trusts(currentServer)
    BY <1>7 DEF HandlerTypeOK, Trusts, Home
  <2>2. verify[currentServer] = Nobody
    BY <1>4, <1>7, <2>1
  <2> QED BY <1>7, <2>2 DEF HomeAsks, Home
<1>8. HomeAsks'
  BY <1>1, <1>7 DEF HomeAsks, Home, handlerVars, Nobody
<1> QED BY <1>2, <1>3, <1>6, <1>8

\* A server asks the clients that it had.
LEMMA StartKeeps ==
  ASSUME ClientsOK, ClientsInv, NEW s \in Server, Start(s)
  PROVE  ClientsInv'
<1> USE DEF ClientsInv
<1>1. /\ UNCHANGED handlerVars /\ UNCHANGED <<here_i_am, handlers, verify, faults, unheard>>
      /\ source' = [source EXCEPT ![s] = IF source[s] = s THEN NoServer ELSE source[s]]
      /\ source \in [Server -> Known] /\ NoServer # s
  BY DEF Start, NetTypeOK, ClientsOK
<1>2. HandlerTypeOK'
  BY <1>1 DEF HandlerTypeOK, handlerVars
<1>3. mail \in Seq(Answers) /\ registrationQueue \in Seq(Items)
  BY DEF HandlerTypeOK, NetTypeOK
<1>4. mail' = IF source[s] = s THEN Append(mail, Deregistered(s)) ELSE mail
  BY DEF Start
<1>5. NetTypeOK'
  <2>1. source' \in [Server -> Known] /\ down' \in [Server -> Nat]
    BY <1>1 DEF Start, NetTypeOK, Known
  <2>2. mail' \in Seq(Answers)
    BY <1>3, <1>4, ItemKinds, AppendProperties
  <2>3. nfc' \in [Server -> [Server -> Seq(Server)]]
    <3>1. \A t \in Server : nfc[t] \in [Server -> Seq(Server)] /\ nfc[t][s] \in Seq(Server)
      BY DEF NetTypeOK
    <3>2. \A t \in Server : Append(nfc[t][s], t) \in Seq(Server)
      BY <3>1, AppendProperties
    <3>3. \A t \in Server : [nfc[t] EXCEPT ![s] = Append(@, t)] \in [Server -> Seq(Server)]
      BY <3>1, <3>2
    <3> QED BY <3>1, <3>3 DEF Start
  <2> QED BY <1>1, <2>1, <2>2, <2>3 DEF NetTypeOK
<1>6. \A t \in Server : t # s => source'[t] = source[t]
  BY <1>1
<1>7. ASSUME NEW t \in Server, source'[t] # t, verify[t] = Nobody, t \notin unheard
      PROVE  Retracted(t, registrationQueue, mail')
  <2>1. CASE t = s /\ source[s] = s
    BY <1>3, <1>4, <2>1, RetractedByDeregistered
  <2>2. CASE ~(t = s /\ source[s] = s)
    <3>1. source[t] # t
      BY <1>1, <1>6, <1>7, <2>2
    <3>2. Retracted(t, registrationQueue, mail)
      BY <1>7, <3>1 DEF AnswersRetracted
    <3> QED BY <1>3, <1>4, <3>2, ItemKinds, RetractedByNews
  <2> QED BY <2>1, <2>2
<1>8. AnswersRetracted'
  BY <1>1, <1>7 DEF AnswersRetracted, handlerVars, Nobody
<1>9. ASSUME registrationState = 2, source'[currentServer] # currentServer,
             verify[currentServer] = Nobody, currentServer \notin unheard
      PROVE  Asked(currentServer, registrationQueue, mail')
  <2>0. currentServer \in Server
    BY <1>9 DEF HandlerTypeOK
  <2>1. CASE currentServer = s /\ source[s] = s
    BY <1>3, <1>4, <2>1, RetractedByDeregistered DEF Asked
  <2>2. CASE ~(currentServer = s /\ source[s] = s)
    <3>1. source[currentServer] # currentServer
      BY <1>1, <1>6, <1>9, <2>0, <2>2
    <3>2. Asked(currentServer, registrationQueue, mail)
      BY <1>9, <3>1 DEF HomeAsks, Home
    <3> QED BY <1>3, <1>4, <2>0, <3>2, ItemKinds, AskedStays
  <2> QED BY <2>1, <2>2
<1>10. HomeAsks'
  BY <1>1, <1>9 DEF HomeAsks, Home, handlerVars, Nobody
<1> QED BY <1>2, <1>5, <1>8, <1>10

\* A tick forgets none of those that sleep longer.
LEMMA LaterCounts ==
  ASSUME ClientsOK, NEW count \in Counts
  PROVE  /\ Later(count) \in Counts
         /\ count # Nobody /\ count[0] = 0 => Later(count) # Nobody
<1>1. \A n \in Ticks : n = ConfirmTicks \/ n + 1 \in Ticks
  BY DEF Ticks, ClientsOK
<1>2. Later(count) \in Counts
  BY <1>1 DEF Later, Counts
<1>3. ASSUME count # Nobody, count[0] = 0 PROVE Later(count) # Nobody
  <2>1. PICK n \in Ticks : count[n] # 0
    BY <1>3 DEF Nobody, Counts
  <2>2. n # 0
    BY <1>3, <2>1
  <2>3. n - 1 \in Ticks /\ n - 1 # ConfirmTicks /\ (n - 1) + 1 = n
    BY <2>2 DEF Ticks, ClientsOK
  <2>4. Later(count)[n - 1] = count[n]
    BY <2>3 DEF Later
  <2> QED BY <2>1, <2>3, <2>4 DEF Nobody
<1> QED BY <1>2, <1>3

LEMMA TickKeeps ==
  ASSUME ClientsOK, ClientsInv, ClientsTick
  PROVE  ClientsInv'
<1> USE DEF ClientsInv
<1>1. UNCHANGED <<registrationState, currentServer, serverList, indexInList, sends,
                  source, here_i_am, nfc, mail, faults, unheard>>
  BY DEF ClientsTick
<1>2. mail \in Seq(Answers) /\ registrationQueue \in Seq(Items)
  BY DEF HandlerTypeOK, NetTypeOK
<1>3. Queued("register") \in Items /\ \A s \in Server : Queued("register") # Registered(s)
  BY ItemKinds DEF Items
<1>4. /\ WakeUp \in Seq(Items)
      /\ registrationQueue' \in {registrationQueue, WakeUp}
  BY <1>2, <1>3 DEF ClientsTick, WakeUp
<1>5. HandlerTypeOK'
  <2>1. timers' \in [{"timeout", "confirm_timeout"} -> Counts]
    BY LaterCounts DEF ClientsTick, HandlerTypeOK
  <2>2. asleep' \in Nat
    BY DEF ClientsTick, HandlerTypeOK
  <2> QED BY <1>1, <1>2, <1>4, <2>1, <2>2 DEF HandlerTypeOK
<1>6. NetTypeOK'
  <2>1. handlers' \in [Server -> Counts] /\ verify' \in [Server -> Counts]
    BY LaterCounts DEF ClientsTick, NetTypeOK
  <2>2. down' \in [Server -> Nat]
    BY DEF ClientsTick, NetTypeOK, up
  <2> QED BY <1>1, <2>1, <2>2 DEF NetTypeOK
<1>7. ASSUME NEW s \in Server, verify'[s] = Nobody PROVE verify[s] = Nobody
  <2>1. verify[s][0] = 0 /\ verify[s] \in Counts /\ verify'[s] = Later(verify[s])
    BY DEF ClientsTick, Prompt, NetTypeOK
  <2> QED BY <1>7, <2>1, LaterCounts
<1>8. ASSUME NEW s \in Server, Retracted(s, registrationQueue, mail)
      PROVE  Retracted(s, registrationQueue', mail)
  <2>1. Retracted(s, WakeUp, mail)
    BY <1>2, <1>3, <1>8, RetractedWakeUp DEF WakeUp
  <2> QED BY <1>4, <1>8, <2>1
<1>9. ASSUME NEW s \in Server, Asked(s, registrationQueue, mail)
      PROVE  Asked(s, registrationQueue', mail)
  <2>1. Asked(s, WakeUp, mail)
    BY <1>2, <1>3, <1>9, AskedStays DEF WakeUp
  <2> QED BY <1>4, <1>9, <2>1
<1>10. AnswersRetracted'
  BY <1>1, <1>7, <1>8 DEF AnswersRetracted, Nobody
<1>11. registrationState = 2 => currentServer \in Server
  BY DEF HandlerTypeOK
<1>12. HomeAsks'
  BY <1>1, <1>7, <1>9, <1>11 DEF HomeAsks, Home, Nobody
<1> QED BY <1>5, <1>6, <1>10, <1>12

-----------------------------------------------------------------------------
(* All steps.                                                              *)

LEMMA InitClientsInv == ClientsOK /\ InitClients => ClientsInv
<1> SUFFICES ASSUME ClientsOK, InitClients PROVE ClientsInv
  OBVIOUS
<1> USE DEF InitClients, InitHandler, InitServers
<1>1. Queued("register") \in Items /\ \A s \in Server : Queued("register") # Registered(s)
  BY ItemKinds DEF Items
<1>2. HandlerTypeOK
  <2>1. [n \in 0..ConfirmTicks |-> 0] \in Counts
    BY DEF Counts, Ticks
  <2> QED BY <1>1, <2>1 DEF HandlerTypeOK, Known
<1>3. NetTypeOK
  <2>1. [t \in Server |-> <<>>] \in [Server -> Seq(Server)]
    OBVIOUS
  <2> QED BY <2>1, NobodyType DEF NetTypeOK, Known
<1>4. AnswersRetracted
  <2>1. \A s \in Server : Retracted(s, registrationQueue, mail)
    <3>1. /\ \A i \in DOMAIN mail : FALSE
          /\ \A i \in DOMAIN registrationQueue : registrationQueue[i] = Queued("register")
      OBVIOUS
    <3> QED BY <1>1, <3>1 DEF Retracted
  <2> QED BY <2>1 DEF AnswersRetracted
<1>5. HomeAsks
  BY DEF HomeAsks
<1> QED BY <1>2, <1>3, <1>4, <1>5 DEF ClientsInv

LEMMA ClientsStep ==
  ASSUME ClientsOK, ClientsInv, ClientsNext \/ UNCHANGED clientsVars,
         Survive \/ UNCHANGED clientsVars
  PROVE  ClientsInv'
<1>1. CASE UNCHANGED clientsVars
  <2>1. UNCHANGED handlerVars /\ UNCHANGED netVars
    BY <1>1 DEF clientsVars
  <2>2. NetTypeOK'
    BY <2>1 DEF netVars, ClientsInv, NetTypeOK
  <2> QED BY <2>1, <2>2, ElsewhereKeeps DEF netVars
<1>2. CASE HandlerStep
  BY <1>2, HandlerKeeps DEF HandlerStep
<1>3. CASE Send_here_i_am
  BY <1>3, SendKeeps
<1>4. CASE \E kind \in DOMAIN timers : Fire(kind)
  BY <1>4, FireKeeps
<1>5. CASE \E n \in DOMAIN mail : Receive(n)
  BY <1>5, ReceiveKeeps
<1>6. CASE \E s \in Server : ServerStep(s)
  <2>1. PICK s \in Server : ServerStep(s)
    BY <1>6
  <2> QED BY <2>1, HandleHereIAmKeeps, StartKeeps, AnswerKeeps, VerifyKeeps,
             NewForeignClientKeeps DEF ServerStep
<1>7. CASE ClientsTick
  BY <1>7, TickKeeps
<1>8. CASE LoseMail
  BY <1>8, LoseMailKeeps
<1>9. CASE ConfirmRegistration
  BY <1>9, ConfirmRegistrationKeeps
<1>10. CASE \E s \in Server : Stop(s) /\ Survive
  BY <1>10, StopKeeps DEF Survive
<1>11. CASE \E s \in Server : SlowLDAP(s)
  BY <1>11, SlowLDAPKeeps
<1>12. CASE ClientsNext /\ Survive
  BY <1>2, <1>3, <1>4, <1>5, <1>6, <1>7, <1>8, <1>9, <1>10, <1>11, <1>12
     DEF ClientsNext, Progress, Faults, Client, Elsewhere
<1> QED BY <1>1, <1>12

\* What the invariant says of the client's server.
LEMMA InvRepaired == ClientsInv => Repaired
<1> SUFFICES ASSUME ClientsInv, registrationState = 2, source[Home] # Home,
                    verify[Home] = Nobody, ~GivenUp
             PROVE  \E item \in Range(mail) \cup Range(registrationQueue) :
                      item = Deregistered(Home)
  BY DEF Repaired
<1>1. Asked(Home, registrationQueue, mail)
  BY DEF ClientsInv, HomeAsks, GivenUp, Home
<1> QED BY <1>1 DEF Asked, Range

\* A client that is registered at a server which has lost it is asked in the end:
\* the answer of a server is taken back behind the answer, or a goroutine will do
\* so, unless that goroutine dies with its server or what it sends is lost.
THEOREM RepairedTheorem == ClientsOK => (ClientsSpec /\ VerificationsSurvive => []Repaired)
<1> SUFFICES ASSUME ClientsOK PROVE ClientsSpec /\ VerificationsSurvive => []Repaired
  OBVIOUS
<1>1. InitClients => ClientsInv
  BY InitClientsInv
<1>2. ClientsInv /\ [ClientsNext]_clientsVars /\ [Survive]_clientsVars => ClientsInv'
  BY ClientsStep
<1> QED BY <1>1, <1>2, InvRepaired, PTL DEF ClientsSpec, VerificationsSurvive

\* Where no server is restarted nothing else is needed: whatever is lost besides the
\* one "deregistered" that asks the client.
THEOREM RepairedWithoutRestarts ==
  ClientsOK /\ (\A set \in FaultSets : "restart" \notin set) => (ClientsSpec => []Repaired)
<1> SUFFICES ASSUME ClientsOK, \A set \in FaultSets : "restart" \notin set
             PROVE  ClientsSpec => []Repaired
  OBVIOUS
<1> DEFINE I == ClientsInv /\ "restart" \notin kinds
<1>1. InitClients => I
  BY InitClientsInv DEF InitClients, InitServers
<1>2. ASSUME I, [ClientsNext]_clientsVars PROVE I'
  <2>1. kinds' = kinds
    <3>1. CASE UNCHANGED clientsVars
      BY <3>1 DEF clientsVars, netVars
    <3>2. CASE Progress
      BY <3>2 DEF Progress, Client, HandlerStep, netVars, Send_here_i_am, Elsewhere, Fire,
                  Receive, ServerStep, HandleHereIAm, Start, Answer, Verify,
                  new_foreign_client, ClientsTick
    <3>3. CASE Faults
      BY <3>3 DEF Faults, LoseMail, ConfirmRegistration, Stop, SlowLDAP, Fault
    <3> QED BY <1>2, <3>1, <3>2, <3>3 DEF ClientsNext
  <2>2. Survive
    BY <1>2 DEF Survive, Stop, Fault
  <2> QED BY <1>2, <2>1, <2>2, ClientsStep
<1>3. I => Repaired
  BY InvRepaired
<1> HIDE DEF I
<1> QED BY <1>1, <1>2, <1>3, PTL DEF ClientsSpec
=============================================================================
