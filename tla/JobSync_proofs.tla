--------------------------- MODULE JobSync_proofs ---------------------------
(***************************************************************************)
(* What JobSync says of lost messages, for every value of its constants    *)
(* but Overlap.  What is on its way along a link is one sequence of        *)
(* messages, from the one a goroutine of the receiver works on to the last *)
(* entry of the sender's channel, and what becomes of the copy is a        *)
(* function of that sequence.  A step either moves a message within it,    *)
(* which changes nothing, or takes the first, or adds a last one along     *)
(* with the edit it tells of, or loses some; and when it loses some, a new *)
(* connection, and with it a greeting and a complete copy, is due.         *)
(*                                                                         *)
(* Whether a new connection is due can be read off the state only together *)
(* with the facts of Shape, so the invariant is State and LossIsRepaired.  *)
(***************************************************************************)
EXTENDS JobSync, SequenceTheorems, WellFoundedInduction, TLAPS

-----------------------------------------------------------------------------
(* Processing one sequence of messages after another.                      *)

IsAfter(after, table, messages) ==
  after = [n \in 0..Len(messages) |->
             IF n = 0 THEN table ELSE InOrder(after[n - 1], messages[n])]

LEMMA AfterExists ==
  ASSUME NEW S, NEW table, NEW messages \in Seq(S)
  PROVE  \E after : IsAfter(after, table, messages)
<1> DEFINE Upto(f, k) == f = [n \in 0..k |->
             IF n = 0 THEN table ELSE InOrder(f[n - 1], messages[n])]
           Bad == {k \in Nat : ~\E f : Upto(f, k)}
<1>1. Bad = {}
  <2> SUFFICES ASSUME Bad # {} PROVE FALSE OBVIOUS
  <2>1. PICK k \in Bad : \A j \in Bad : ~(<<j, k>> \in OpToRel(<, Nat))
    <3> Bad \subseteq Nat OBVIOUS
    <3> HIDE DEF Bad
    <3> QED BY NatLessThanWellFounded, WFMin
  <2>2. CASE k = 0
    <3> DEFINE f == [n \in 0..0 |-> table]
    <3>1. Upto(f, 0) OBVIOUS
    <3> HIDE DEF f
    <3> QED BY <3>1, <2>1, <2>2
  <2>3. CASE k # 0
    <3>1. k \in Nat \ {0} BY <2>1, <2>3
    <3>2. k - 1 \in Nat /\ k - 1 < k BY <3>1
    <3>3. k - 1 \notin Bad
      <4>1. ~(<<k - 1, k>> \in OpToRel(<, Nat)) => FALSE BY <3>1, <3>2 DEF OpToRel
      <4> HIDE DEF Bad
      <4> QED BY <4>1, <2>1
    <3>4. PICK f : Upto(f, k - 1) BY <3>2, <3>3
    <3> DEFINE g == [n \in 0..k |-> IF n = k THEN InOrder(f[k - 1], messages[k]) ELSE f[n]]
    <3>5. Upto(g, k)
      <4> SUFFICES ASSUME NEW n \in 0..k
                   PROVE  g[n] = IF n = 0 THEN table ELSE InOrder(g[n - 1], messages[n])
        <5> HIDE DEF g
        <5>1. g = [n \in 0..k |-> g[n]] BY DEF g
        <5> QED BY <5>1
      <4>1. CASE n = k BY <3>1, <4>1
      <4>2. CASE n # k /\ n # 0
        <5>1. n \in 0..(k - 1) /\ n - 1 \in 0..k /\ n - 1 # k BY <4>2, <3>1
        <5>2. g[n] = f[n] /\ g[n - 1] = f[n - 1] BY <5>1, <4>2
        <5>3. f[n] = InOrder(f[n - 1], messages[n])
          <6> HIDE DEF g
          <6> QED BY <3>4, <5>1, <4>2
        <5> QED BY <5>2, <5>3, <4>2
      <4>3. CASE n = 0 /\ n # k
        <5>1. n \in 0..(k - 1) BY <4>3, <3>1
        <5>2. g[n] = f[n] BY <4>3
        <5>3. f[n] = table
          <6> HIDE DEF g
          <6> QED BY <3>4, <5>1, <4>3
        <5> QED BY <5>2, <5>3, <4>3
      <4> QED BY <4>1, <4>2, <4>3
    <3> HIDE DEF g
    <3> QED BY <3>5, <2>1
  <2> QED BY <2>2, <2>3
<1>2. Len(messages) \in Nat OBVIOUS
<1>3. \E f : Upto(f, Len(messages)) BY <1>1, <1>2
<1> QED BY <1>3 DEF IsAfter

LEMMA AfterRun ==
  ASSUME NEW S, NEW table, NEW messages \in Seq(S)
  PROVE  \E after : IsAfter(after, table, messages)
                    /\ After(table, messages) = after[Len(messages)]
<1> DEFINE g == CHOOSE f : IsAfter(f, table, messages)
<1>1. IsAfter(g, table, messages) BY AfterExists
<1>2. After(table, messages) = g[Len(messages)] BY Zenon DEF After, IsAfter
<1> QED BY <1>1, <1>2

RunsAlike(f, g, a, b, d, k) ==
  /\ f[0] = g[d]
  /\ \A n \in 1..k : /\ f[n] = InOrder(f[n - 1], a[n])
                     /\ g[d + n] = InOrder(g[d + n - 1], b[d + n])
                     /\ a[n] = b[d + n]

LEMMA RunsAgree ==
  ASSUME NEW f, NEW g, NEW a, NEW b, NEW d \in Nat, NEW k \in Nat,
         RunsAlike(f, g, a, b, d, k)
  PROVE  f[k] = g[d + k]
<1> USE DEF RunsAlike
<1> DEFINE Bad == {n \in 0..k : f[n] # g[d + n]}
<1>1. Bad = {}
  <2> SUFFICES ASSUME Bad # {} PROVE FALSE OBVIOUS
  <2>1. PICK n \in Bad : \A j \in Bad : ~(<<j, n>> \in OpToRel(<, Nat))
    <3> Bad \subseteq Nat OBVIOUS
    <3> HIDE DEF Bad
    <3> QED BY NatLessThanWellFounded, WFMin
  <2>2. n \in 1..k
    <3>1. n \in 0..k /\ f[n] # g[d + n] BY <2>1
    <3>2. d + 0 = d OBVIOUS
    <3>3. n # 0 BY <3>1, <3>2
    <3> QED BY <3>1, <3>3
  <2>3. n - 1 \in 0..k /\ n - 1 \in Nat /\ n - 1 < n /\ n \in Nat BY <2>2
  <2>4. n - 1 \notin Bad
    <3> HIDE DEF Bad
    <3> QED BY <2>1, <2>3 DEF OpToRel
  <2>5. f[n - 1] = g[d + n - 1]
    <3>1. f[n - 1] = g[d + (n - 1)] BY <2>3, <2>4
    <3>2. d + (n - 1) = d + n - 1 BY <2>3
    <3> QED BY <3>1, <3>2
  <2>6. f[n] = g[d + n] BY <2>2, <2>5
  <2> QED BY <2>1, <2>6
<1>2. k \in 0..k OBVIOUS
<1> QED BY <1>1, <1>2

LEMMA AfterConcat ==
  ASSUME NEW S, NEW table, NEW a \in Seq(S), NEW b \in Seq(S)
  PROVE  After(table, a \o b) = After(After(table, a), b)
<1>1. a \o b \in Seq(S) /\ Len(a \o b) = Len(a) + Len(b)
      /\ \A i \in 1..(Len(a) + Len(b)) :
           (a \o b)[i] = IF i <= Len(a) THEN a[i] ELSE b[i - Len(a)]
  BY ConcatProperties
<1>2. PICK g : IsAfter(g, table, a \o b) /\ After(table, a \o b) = g[Len(a \o b)]
  BY <1>1, AfterRun
<1>3. PICK f : IsAfter(f, table, a) /\ After(table, a) = f[Len(a)]
  BY AfterRun
<1>4. PICK h : IsAfter(h, After(table, a), b) /\ After(After(table, a), b) = h[Len(b)]
  BY AfterRun
<1>5. Len(a) \in Nat /\ Len(b) \in Nat OBVIOUS
<1> DEFINE c == a \o b
<1>6. g[0] = table /\ \A n \in 1..(Len(a) + Len(b)) : g[n] = InOrder(g[n - 1], c[n])
  <2>1. IsAfter(g, table, c) /\ Len(c) = Len(a) + Len(b) BY <1>1, <1>2
  <2> HIDE DEF c
  <2> QED BY <2>1, <1>5 DEF IsAfter
<1>7. f[0] = table /\ \A n \in 1..Len(a) : f[n] = InOrder(f[n - 1], a[n])
  BY <1>3, <1>5 DEF IsAfter
<1>8. h[0] = f[Len(a)] /\ \A n \in 1..Len(b) : h[n] = InOrder(h[n - 1], b[n])
  <2>1. \A n \in 0..Len(b) : h[n] = IF n = 0 THEN After(table, a)
                                   ELSE InOrder(h[n - 1], b[n])
    <3> HIDE DEF c
    <3> QED BY <1>4 DEF IsAfter
  <2>2. h[0] = After(table, a) BY <2>1, <1>5
  <2> HIDE DEF c
  <2> QED BY <2>1, <2>2, <1>3, <1>5
<1>9. f[Len(a)] = g[Len(a)]
  <2>1. \A n \in 1..Len(a) : f[n] = InOrder(f[n - 1], a[n])
                         /\ g[0 + n] = InOrder(g[0 + n - 1], c[0 + n])
                         /\ a[n] = c[0 + n]
    <3> SUFFICES ASSUME NEW n \in 1..Len(a)
                 PROVE  f[n] = InOrder(f[n - 1], a[n])
                         /\ g[0 + n] = InOrder(g[0 + n - 1], c[0 + n])
                         /\ a[n] = c[0 + n]
      OBVIOUS
    <3>1. 0 + n = n /\ 0 + n - 1 = n - 1 /\ n \in 1..(Len(a) + Len(b)) BY <1>5
    <3>2. a[n] = c[n] BY <1>1, <3>1
    <3> HIDE DEF c
    <3> QED BY <3>1, <3>2, <1>6, <1>7
  <2>2. f[0] = g[0] BY <1>6, <1>7
  <2>3. f[Len(a)] = g[0 + Len(a)]
    <3>1. RunsAlike(f, g, a, c, 0, Len(a)) BY <2>1, <2>2 DEF RunsAlike
    <3> HIDE DEF c
    <3> QED BY <3>1, <1>5, RunsAgree
  <2> QED BY <2>3, <1>5
<1>10. h[Len(b)] = g[Len(a) + Len(b)]
  <2>1. \A n \in 1..Len(b) : h[n] = InOrder(h[n - 1], b[n])
                         /\ g[Len(a) + n] = InOrder(g[Len(a) + n - 1], c[Len(a) + n])
                         /\ b[n] = c[Len(a) + n]
    <3> SUFFICES ASSUME NEW n \in 1..Len(b)
                 PROVE  h[n] = InOrder(h[n - 1], b[n])
                         /\ g[Len(a) + n] = InOrder(g[Len(a) + n - 1], c[Len(a) + n])
                         /\ b[n] = c[Len(a) + n]
      OBVIOUS
    <3>1. Len(a) + n \in 1..(Len(a) + Len(b)) /\ ~(Len(a) + n <= Len(a))
          /\ Len(a) + n - Len(a) = n BY <1>5
    <3>2. b[n] = c[Len(a) + n] BY <1>1, <3>1
    <3> HIDE DEF c
    <3> QED BY <3>1, <3>2, <1>6, <1>8
  <2>2. h[0] = g[Len(a)] BY <1>8, <1>9
  <2>3. RunsAlike(h, g, b, c, Len(a), Len(b)) BY <2>1, <2>2 DEF RunsAlike
  <2> HIDE DEF c
  <2> QED BY <2>3, <1>5, RunsAgree
<1> QED BY <1>1, <1>2, <1>4, <1>10

LEMMA AfterNothing ==
  ASSUME NEW table
  PROVE  After(table, <<>>) = table
<1>1. <<>> \in Seq({}) /\ Len(<<>>) = 0 OBVIOUS
<1>2. PICK f : IsAfter(f, table, <<>>) /\ After(table, <<>>) = f[Len(<<>>)] BY <1>1, AfterRun
<1>3. f[0] = table BY <1>1, <1>2 DEF IsAfter
<1> QED BY <1>1, <1>2, <1>3

LEMMA AfterOne ==
  ASSUME NEW table, NEW m
  PROVE  After(table, <<m>>) = InOrder(table, m)
<1>1. <<m>> \in Seq({m}) /\ Len(<<m>>) = 1 /\ <<m>>[1] = m OBVIOUS
<1> DEFINE s == <<m>>
<1> HIDE DEF s
<1>2. s \in Seq({m}) /\ Len(s) = 1 /\ s[1] = m BY <1>1 DEF s
<1>3. PICK f : IsAfter(f, table, s) /\ After(table, s) = f[Len(s)] BY <1>2, AfterRun
<1>4. f[0] = table /\ f[1] = InOrder(f[1 - 1], s[1]) BY <1>2, <1>3 DEF IsAfter
<1>5. 1 - 1 = 0 OBVIOUS
<1> QED BY <1>2, <1>3, <1>4, <1>5 DEF s

-----------------------------------------------------------------------------
(* Jobs, copies of them, and what changes make of a copy.                  *)

\* The jobs of a server, and jobs or the fact that they are gone.
IsFcn(f) == f = [i \in DOMAIN f |-> f[i]]
IsCopy(table) == IsFcn(table) /\ \A i \in DOMAIN table : table[i] \in Job
IsEdit(jobs) == IsFcn(jobs) /\ \A i \in DOMAIN jobs : jobs[i] \in Job \cup {Done}

LEMMA DoneIsNoJob == Done \notin Job
<1> SUFFICES ASSUME Done \in Job PROVE FALSE OBVIOUS
<1>1. Done.status \in Status BY DEF Job
<1> QED BY <1>1 DEF Done, Status

LEMMA NoneIsCopy == IsCopy(None) /\ IsEdit(None) /\ DOMAIN None = {}
BY DEF IsCopy, IsEdit, IsFcn, None

LEMMA CopyIsEdit == ASSUME NEW t, IsCopy(t) PROVE IsEdit(t)
BY DEF IsCopy, IsEdit

\* A known job keeps its name.
Renewed(job, old) == [job EXCEPT !.what = old.what]

LEMMA KeepsWhat ==
  ASSUME NEW job \in Job, NEW old \in Job
  PROVE  /\ Renewed(job, old) \in Job
         /\ Renewed(Renewed(job, old), old) = Renewed(job, old)
<1>1. old.what \in What BY DEF Job
<1>2. Renewed(job, old) \in Job BY <1>1 DEF Job, Renewed
<1>3. Renewed(job, old).what = old.what BY DEF Job, Renewed
<1>4. \A j \in Job : [j EXCEPT !.what = j.what] = j BY DEF Job
<1> QED BY <1>2, <1>3, <1>4 DEF Renewed

LEMMA MergedDomain ==
  ASSUME NEW t, NEW jobs, NEW i
  PROVE  i \in DOMAIN Merge(t, jobs) <=>
           IF i \in DOMAIN jobs THEN jobs[i] # Done ELSE i \in DOMAIN t
BY DEF Merge

LEMMA MergedFcn == ASSUME NEW t, NEW jobs PROVE IsFcn(Merge(t, jobs))
BY DEF Merge, IsFcn

LEMMA MergedValue ==
  ASSUME NEW t, NEW jobs, NEW i \in DOMAIN Merge(t, jobs)
  PROVE  Merge(t, jobs)[i] = IF i \notin DOMAIN jobs THEN t[i]
                             ELSE IF i \notin DOMAIN t THEN jobs[i]
                             ELSE Renewed(jobs[i], t[i])
BY DEF Merge, Renewed

LEMMA MergeType ==
  ASSUME NEW t, NEW jobs, IsCopy(t), IsEdit(jobs)
  PROVE  IsCopy(Merge(t, jobs))
<1> SUFFICES ASSUME NEW i \in DOMAIN Merge(t, jobs)
             PROVE  Merge(t, jobs)[i] \in Job
  BY MergedFcn DEF IsCopy
<1>1. CASE i \notin DOMAIN jobs
  BY <1>1, MergedDomain, MergedValue DEF IsCopy
<1>2. CASE i \in DOMAIN jobs
  <2>1. jobs[i] \in Job BY <1>2, MergedDomain DEF IsEdit
  <2>2. i \in DOMAIN t => t[i] \in Job BY DEF IsCopy
  <2> QED BY <2>1, <2>2, <1>2, MergedValue, KeepsWhat
<1> QED BY <1>1, <1>2

LEMMA SameTables ==
  ASSUME NEW t, NEW u, IsFcn(t), IsFcn(u),
         \A i : i \in DOMAIN t <=> i \in DOMAIN u, \A i \in DOMAIN t : t[i] = u[i]
  PROVE  t = u
<1>1. DOMAIN t = DOMAIN u OBVIOUS
<1> QED BY <1>1 DEF IsFcn

LEMMA MergeNone ==
  ASSUME NEW t, IsCopy(t)
  PROVE  Merge(t, None) = t
<1>1. \A i : i \in DOMAIN Merge(t, None) <=> i \in DOMAIN t BY MergedDomain, NoneIsCopy
<1>2. \A i \in DOMAIN t : Merge(t, None)[i] = t[i] BY <1>1, MergedValue, NoneIsCopy
<1>3. IsFcn(t) BY DEF IsCopy
<1> QED BY <1>1, <1>2, <1>3, MergedFcn, SameTables

LEMMA NoneMerge ==
  ASSUME NEW t, IsCopy(t)
  PROVE  Merge(None, t) = t
<1>1. \A i : i \in DOMAIN Merge(None, t) <=> i \in DOMAIN t BY MergedDomain, NoneIsCopy, DoneIsNoJob DEF IsCopy
<1>2. \A i \in DOMAIN t : Merge(None, t)[i] = t[i] BY <1>1, MergedValue, NoneIsCopy
<1>3. IsFcn(t) BY DEF IsCopy
<1> QED BY <1>1, <1>2, <1>3, MergedFcn, SameTables

LEMMA OneEdit ==
  ASSUME NEW i, NEW job
  PROVE  /\ DOMAIN One(i, job) = {i} /\ One(i, job)[i] = job
         /\ job \in Job \cup {Done} => IsEdit(One(i, job))
BY DEF One, IsEdit, IsFcn

\* Jobs that are merged one after the other.
LEMMA MergeStep ==
  ASSUME NEW t, NEW jobs, IsCopy(t), IsEdit(jobs), NEW i \in DOMAIN jobs
  PROVE  /\ IsEdit(Restrict(jobs, DOMAIN jobs \ {i}))
         /\ Merge(Merge(t, One(i, jobs[i])), Restrict(jobs, DOMAIN jobs \ {i})) = Merge(t, jobs)
<1> DEFINE one == One(i, jobs[i])
           rest == Restrict(jobs, DOMAIN jobs \ {i})
           u == Merge(t, one)
<1>1. DOMAIN rest = DOMAIN jobs \ {i} /\ \A j \in DOMAIN rest : rest[j] = jobs[j]
  BY DEF Restrict
<1>2. IsEdit(rest) BY DEF Restrict, IsEdit, IsFcn
<1>3. DOMAIN one = {i} /\ one[i] = jobs[i] BY OneEdit
<1> HIDE DEF one, rest
<1>4. \A j : j \in DOMAIN u <=> IF j = i THEN jobs[i] # Done ELSE j \in DOMAIN t
  BY <1>3, MergedDomain
<1>5. \A j \in DOMAIN u : u[j] = IF j # i THEN t[j]
                                 ELSE IF i \notin DOMAIN t THEN jobs[i]
                                 ELSE Renewed(jobs[i], t[i])
  BY <1>3, MergedValue
<1> HIDE DEF u
<1>6. \A j : j \in DOMAIN Merge(u, rest) <=> j \in DOMAIN Merge(t, jobs)
  BY MergedDomain, <1>1, <1>4
<1>7. \A j \in DOMAIN Merge(t, jobs) : Merge(u, rest)[j] = Merge(t, jobs)[j]
  <2> SUFFICES ASSUME NEW j \in DOMAIN Merge(t, jobs)
               PROVE  Merge(u, rest)[j] = Merge(t, jobs)[j]
    OBVIOUS
  <2>1. Merge(u, rest)[j] = IF j \notin DOMAIN rest THEN u[j]
                             ELSE IF j \notin DOMAIN u THEN rest[j]
                             ELSE Renewed(rest[j], u[j])
    BY <1>6, MergedValue
  <2>2. Merge(t, jobs)[j] = IF j \notin DOMAIN jobs THEN t[j]
                             ELSE IF j \notin DOMAIN t THEN jobs[j]
                             ELSE Renewed(jobs[j], t[j])
    BY MergedValue
  <2>3. IF j \in DOMAIN jobs THEN jobs[j] # Done ELSE j \in DOMAIN t
    BY MergedDomain
  <2>4. CASE j = i
    <3>1. j \in DOMAIN u /\ j \notin DOMAIN rest BY <2>3, <2>4, <1>1, <1>4
    <3> QED BY <3>1, <2>1, <2>2, <2>4, <1>5
  <2>5. CASE j # i /\ j \in DOMAIN jobs
    <3>1. j \in DOMAIN rest /\ rest[j] = jobs[j] BY <2>5, <1>1
    <3>2. j \in DOMAIN u <=> j \in DOMAIN t BY <2>5, <1>4
    <3>3. j \in DOMAIN u => u[j] = t[j] BY <2>5, <1>5
    <3> QED BY <3>1, <3>2, <3>3, <2>1, <2>2, <2>5
  <2>6. CASE j # i /\ j \notin DOMAIN jobs
    <3>1. j \notin DOMAIN rest BY <2>6, <1>1
    <3>2. j \in DOMAIN u /\ u[j] = t[j] BY <2>6, <2>3, <1>4, <1>5
    <3> QED BY <3>1, <3>2, <2>1, <2>2, <2>6
  <2> QED BY <2>4, <2>5, <2>6
<1>8. Merge(u, rest) = Merge(t, jobs)
  BY <1>6, <1>7, MergedFcn, SameTables
<1> QED BY <1>2, <1>8 DEF u, one, rest

\* What a server tells others of an edit is what it has made of it.
Told(t, jobs) == [i \in DOMAIN jobs |-> IF i \in DOMAIN t THEN t[i] ELSE Done]

LEMMA MergeAgain ==
  ASSUME NEW t, NEW jobs, IsCopy(t), IsEdit(jobs)
  PROVE  LET u == Merge(t, jobs)
         IN  IsEdit(Told(u, jobs)) /\ Merge(t, Told(u, jobs)) = u
<1> DEFINE u == Merge(t, jobs)
           told == Told(u, jobs)
<1>1. IsCopy(u) BY MergeType
<1>2. \A j : j \in DOMAIN u <=> IF j \in DOMAIN jobs THEN jobs[j] # Done ELSE j \in DOMAIN t
  BY MergedDomain
<1>3. \A j \in DOMAIN u : u[j] = IF j \notin DOMAIN jobs THEN t[j]
                             ELSE IF j \notin DOMAIN t THEN jobs[j]
                             ELSE Renewed(jobs[j], t[j])
  BY MergedValue
<1> HIDE DEF u
<1>4. DOMAIN told = DOMAIN jobs
      /\ \A j \in DOMAIN jobs : told[j] = IF j \in DOMAIN u THEN u[j] ELSE Done
  BY DEF Told
<1>5. IsEdit(told) BY <1>1, <1>4 DEF Told, IsEdit, IsCopy, IsFcn
<1> HIDE DEF told
<1>6. \A j : j \in DOMAIN Merge(t, told) <=> j \in DOMAIN u
  <2>1. \A j \in DOMAIN u : u[j] # Done BY <1>1, DoneIsNoJob DEF IsCopy
  <2> QED BY <2>1, <1>2, <1>4, MergedDomain
<1>7. \A j \in DOMAIN u : Merge(t, told)[j] = u[j]
  <2> SUFFICES ASSUME NEW j \in DOMAIN u PROVE Merge(t, told)[j] = u[j]
    OBVIOUS
  <2>1. Merge(t, told)[j] = IF j \notin DOMAIN told THEN t[j]
                             ELSE IF j \notin DOMAIN t THEN told[j]
                             ELSE Renewed(told[j], t[j])
    BY <1>6, MergedValue
  <2>2. CASE j \notin DOMAIN jobs BY <2>1, <2>2, <1>3, <1>4
  <2>3. CASE j \in DOMAIN jobs /\ j \notin DOMAIN t BY <2>1, <2>3, <1>4
  <2>4. CASE j \in DOMAIN jobs /\ j \in DOMAIN t
    <3>1. jobs[j] \in Job /\ t[j] \in Job BY <2>4, <1>2 DEF IsEdit, IsCopy
    <3>2. Merge(t, told)[j] = Renewed(u[j], t[j]) BY <2>1, <2>4, <1>4
    <3>3. u[j] = Renewed(jobs[j], t[j]) BY <2>4, <1>3
    <3> QED BY <3>1, <3>2, <3>3, KeepsWhat
  <2> QED BY <2>2, <2>3, <2>4
<1>8. Merge(t, told) = u BY <1>6, <1>7, <1>1, MergedFcn, SameTables DEF IsCopy
<1> QED BY <1>5, <1>8 DEF u, told

-----------------------------------------------------------------------------
(* Pipelines as sequences.                                                 *)

LEMMA AfterAppend ==
  ASSUME NEW S, NEW table, NEW a \in Seq(S), NEW m \in S
  PROVE  After(table, Append(a, m)) = InOrder(After(table, a), m)
<1> DEFINE one == <<m>>
<1>1. Append(a, m) = a \o one /\ one \in Seq(S) BY AppendIsConcat
<1>2. \A u : After(u, one) = InOrder(u, m) BY AfterOne
<1> HIDE DEF one
<1>3. After(table, a \o one) = After(After(table, a), one) BY <1>1, AfterConcat
<1> QED BY <1>1, <1>2, <1>3

LEMMA AfterCons ==
  ASSUME NEW S, NEW table, NEW a \in Seq(S), NEW m \in S
  PROVE  After(table, <<m>> \o a) = After(InOrder(table, m), a)
<1> DEFINE one == <<m>>
<1>1. one \in Seq(S) OBVIOUS
<1>2. After(table, one) = InOrder(table, m) BY AfterOne
<1> HIDE DEF one
<1>3. After(table, one \o a) = After(After(table, one), a) BY <1>1, AfterConcat
<1> QED BY <1>2, <1>3 DEF one

LEMMA ContainsConcat ==
  ASSUME NEW S, NEW a \in Seq(S), NEW b \in Seq(S), NEW m
  PROVE  Contains(a \o b, m) <=> Contains(a, m) \/ Contains(b, m)
<1>1. Len(a) \in Nat /\ Len(b) \in Nat /\ Len(a \o b) = Len(a) + Len(b) BY ConcatProperties
<1>2. \A i \in 1..(Len(a) + Len(b)) : (a \o b)[i] = IF i <= Len(a) THEN a[i] ELSE b[i - Len(a)]
  BY ConcatProperties
<1>3. ASSUME Contains(a \o b, m) PROVE Contains(a, m) \/ Contains(b, m)
  <2>1. PICK i \in 1..(Len(a) + Len(b)) : (a \o b)[i] = m BY <1>1, <1>3 DEF Contains
  <2>2. CASE i <= Len(a)
    <3>1. i \in 1..Len(a) /\ a[i] = m BY <1>1, <1>2, <2>1, <2>2
    <3> QED BY <3>1 DEF Contains
  <2>3. CASE ~(i <= Len(a))
    <3>1. i - Len(a) \in 1..Len(b) /\ b[i - Len(a)] = m BY <1>1, <1>2, <2>1, <2>3
    <3> QED BY <3>1 DEF Contains
  <2> QED BY <2>2, <2>3
<1>4. ASSUME Contains(a, m) PROVE Contains(a \o b, m)
  <2>1. PICK i \in 1..Len(a) : a[i] = m BY <1>4 DEF Contains
  <2>2. i \in 1..(Len(a) + Len(b)) /\ (a \o b)[i] = m BY <1>1, <1>2, <2>1
  <2> QED BY <1>1, <2>2 DEF Contains
<1>5. ASSUME Contains(b, m) PROVE Contains(a \o b, m)
  <2>1. PICK i \in 1..Len(b) : b[i] = m BY <1>5 DEF Contains
  <2> DEFINE k == Len(a) + i
  <2>2. k \in 1..(Len(a) + Len(b)) /\ ~(k <= Len(a)) /\ k - Len(a) = i BY <1>1, <2>1
  <2>3. (a \o b)[k] = m BY <1>2, <2>1, <2>2
  <2> HIDE DEF k
  <2> QED BY <1>1, <2>2, <2>3 DEF Contains
<1> QED BY <1>3, <1>4, <1>5

LEMMA ContainsOne == ASSUME NEW x, NEW m PROVE Contains(<<x>>, m) <=> x = m
<1>1. Len(<<x>>) = 1 /\ <<x>>[1] = x OBVIOUS
<1> QED BY <1>1 DEF Contains

LEMMA ContainsAppend ==
  ASSUME NEW S, NEW a \in Seq(S), NEW x \in S, NEW m
  PROVE  Contains(Append(a, x), m) <=> Contains(a, m) \/ x = m
<1> DEFINE one == <<x>>
<1>1. Append(a, x) = a \o one /\ one \in Seq(S) BY AppendIsConcat
<1>2. Contains(one, m) <=> x = m BY ContainsOne
<1> HIDE DEF one
<1> QED BY <1>1, <1>2, ContainsConcat

LEMMA HeadTailConcat ==
  ASSUME NEW S, NEW s \in Seq(S), s # <<>>
  PROVE  /\ Head(s) \in S /\ Tail(s) \in Seq(S) /\ s = <<Head(s)>> \o Tail(s)
<1>1. Head(s) \in S /\ Tail(s) \in Seq(S) BY HeadTailProperties
<1>2. s = <<Head(s)>> \o Tail(s) OBVIOUS
<1> QED BY <1>1, <1>2

-----------------------------------------------------------------------------
(* The parts of a pipeline.                                                *)

Wires(rs) == FlattenSeq([n \in DOMAIN rs |-> Unread(rs[n])])
Chan(l, us) == [n \in DOMAIN us |-> Along(l, us[n])]

LEMMA PipelineParts ==
  ASSUME NEW l
  PROVE  Pipeline(l) = (Wires(readers[l]) \o queue[l]) \o Chan(l, updates[l[1]])
BY DEF Pipeline, Wires, Chan

LEMMA OngoingType ==
  ASSUME NEW r \in Reader
  PROVE  Ongoing(r) \in Message /\ Unread(r) \in Seq(Message)
         /\ <<Ongoing(r)>> \in Seq(Message) /\ r.wire \in Seq(Message)
<1>1. Ongoing(r) \in Message
  <2>1. r.jobs \in Changes BY DEF Reader
  <2> QED BY <2>1 DEF Ongoing, Fju, Message
<1>2. r.wire \in Seq(Message)
  <2>1. r.wire \in Seq(Message \ {Ping}) BY DEF Reader
  <2> QED BY <2>1, SeqMonotonic
<1>3. <<Ongoing(r)>> \in Seq(Message) BY <1>1
<1> QED BY <1>1, <1>2, <1>3, ConcatProperties DEF Unread

LEMMA FlattenNothing == FlattenSeq(<<>>) = <<>>
BY Zenon, EmptySeq DEF FlattenSeq

LEMMA FlattenOne == ASSUME NEW s PROVE FlattenSeq(<<s>>) = s
<1> DEFINE ss == <<s>>
<1>1. ss[1] = s /\ Len(ss) = 1 OBVIOUS
<1> HIDE DEF ss
<1> DEFINE IsFlat(f) == f = [i \in 1..Len(ss) |-> IF i = 1 THEN ss[i] ELSE f[i - 1] \o ss[i]]
           g == CHOOSE f : IsFlat(f)
<1>2. \E f : IsFlat(f)
  <2> DEFINE f == [i \in 1..1 |-> s]
  <2>1. f = [i \in 1..1 |-> IF i = 1 THEN ss[i] ELSE f[i - 1] \o ss[i]] BY <1>1
  <2> HIDE DEF f
  <2> QED BY <2>1, <1>1
<1>3. IsFlat(g)
  <2> HIDE DEF IsFlat
  <2> QED BY <1>2
<1>4. FlattenSeq(ss) = g[Len(ss)]
  <2>1. Len(ss) # 0 BY <1>1
  <2> QED BY <2>1, Zenon DEF FlattenSeq
<1>5. g[1] = s
  <2> HIDE DEF g
  <2> QED BY <1>1, <1>3
<1> QED BY <1>1, <1>4, <1>5 DEF ss

LEMMA WiresOfNone == Wires(<<>>) = <<>>
<1>1. [n \in DOMAIN <<>> |-> Unread(<<>>[n])] = <<>> OBVIOUS
<1> QED BY <1>1, FlattenNothing DEF Wires

LEMMA WiresOfOne ==
  ASSUME NEW rs \in Seq(Reader), Len(rs) = 1
  PROVE  Wires(rs) = <<Ongoing(rs[1])>> \o rs[1].wire
<1>1. DOMAIN rs = 1..1 OBVIOUS
<1>2. [n \in DOMAIN rs |-> Unread(rs[n])] = <<Unread(rs[1])>> BY <1>1
<1> QED BY <1>2, FlattenOne DEF Wires, Unread

LEMMA WiresType ==
  ASSUME NEW rs \in Seq(Reader), Len(rs) <= 1
  PROVE  Wires(rs) \in Seq(Message)
<1>1. CASE Len(rs) = 0
  <2>1. rs = <<>> BY <1>1
  <2>2. <<>> \in Seq(Message) OBVIOUS
  <2> QED BY <2>1, <2>2, WiresOfNone
<1>2. CASE Len(rs) = 1
  <2>1. rs[1] \in Reader BY <1>2
  <2> QED BY <2>1, <1>2, WiresOfOne, OngoingType DEF Unread
<1>3. Len(rs) \in Nat OBVIOUS
<1>4. Len(rs) = 0 \/ Len(rs) = 1
  <2>1. \A n \in Nat : n <= 1 => n = 0 \/ n = 1 OBVIOUS
  <2> QED BY <1>3, <2>1
<1> QED BY <1>1, <1>2, <1>4

LEMMA AlongType ==
  ASSUME NEW l \in Link, NEW u \in Entry
  PROVE  Along(l, u) \in Message
BY DEF Along, Entry, Message, Ping

LEMMA ChanType ==
  ASSUME NEW l \in Link, NEW us \in Seq(Entry)
  PROVE  /\ Chan(l, us) \in Seq(Message) /\ Len(Chan(l, us)) = Len(us)
         /\ \A n \in 1..Len(us) : Chan(l, us)[n] = Along(l, us[n])
<1>1. DOMAIN us = 1..Len(us) /\ Len(us) \in Nat OBVIOUS
<1>2. \A n \in 1..Len(us) : Along(l, us[n]) \in Message BY AlongType
<1> QED BY <1>1, <1>2 DEF Chan

LEMMA ChanAppend ==
  ASSUME NEW l \in Link, NEW us \in Seq(Entry), NEW u \in Entry
  PROVE  Chan(l, Append(us, u)) = Append(Chan(l, us), Along(l, u))
<1> DEFINE a == Chan(l, Append(us, u))
           b == Append(Chan(l, us), Along(l, u))
<1>1. Append(us, u) \in Seq(Entry) /\ Len(Append(us, u)) = Len(us) + 1
      /\ \A n \in 1..Len(us) : Append(us, u)[n] = us[n]
      /\ Append(us, u)[Len(us) + 1] = u
  BY AppendProperties
<1>2. a \in Seq(Message) /\ Len(a) = Len(us) + 1
      /\ \A n \in 1..(Len(us) + 1) : a[n] = Along(l, Append(us, u)[n])
  BY <1>1, ChanType
<1>3. b \in Seq(Message) /\ Len(b) = Len(us) + 1
      /\ (\A n \in 1..Len(us) : b[n] = Chan(l, us)[n]) /\ b[Len(us) + 1] = Along(l, u)
  BY ChanType, AlongType, AppendProperties
<1>4. \A n \in 1..Len(a) : a[n] = b[n]
  <2> HIDE DEF a, b
  <2> QED BY <1>1, <1>2, <1>3, ChanType
<1> HIDE DEF a, b
<1>5. a = b BY <1>2, <1>3, <1>4, SeqEqual
<1> QED BY <1>5 DEF a, b

LEMMA ChanTail ==
  ASSUME NEW l \in Link, NEW us \in Seq(Entry), us # <<>>
  PROVE  /\ Head(us) \in Entry /\ Tail(us) \in Seq(Entry)
         /\ Chan(l, us) = <<Along(l, Head(us))>> \o Chan(l, Tail(us))
<1>1. Head(us) \in Entry /\ Tail(us) \in Seq(Entry) /\ Len(Tail(us)) = Len(us) - 1
      /\ \A n \in 1..Len(Tail(us)) : Tail(us)[n] = us[n + 1]
  BY HeadTailProperties
<1>2. Len(us) \in Nat \ {0} /\ Head(us) = us[1] OBVIOUS
<1> DEFINE a == Chan(l, us)
           t == Chan(l, Tail(us))
           b == <<Along(l, Head(us))>> \o t
<1>3. a \in Seq(Message) /\ Len(a) = Len(us) /\ \A n \in 1..Len(us) : a[n] = Along(l, us[n])
  BY ChanType
<1>4. t \in Seq(Message) /\ Len(t) = Len(us) - 1
      /\ \A n \in 1..(Len(us) - 1) : t[n] = Along(l, Tail(us)[n])
  BY ChanType, <1>1
<1>5. <<Along(l, Head(us))>> \in Seq(Message) /\ Len(<<Along(l, Head(us))>>) = 1
      /\ <<Along(l, Head(us))>>[1] = Along(l, Head(us))
  BY <1>1, AlongType
<1> HIDE DEF a, t
<1>6. b \in Seq(Message) /\ Len(b) = Len(us)
      /\ \A n \in 1..Len(us) : b[n] = IF n <= 1 THEN Along(l, Head(us)) ELSE t[n - 1]
  BY <1>2, <1>4, <1>5, ConcatProperties
<1> HIDE DEF b
<1>7. \A n \in 1..Len(a) : a[n] = b[n]
  <2> SUFFICES ASSUME NEW n \in 1..Len(us) PROVE a[n] = b[n] BY <1>3
  <2>1. CASE n = 1 BY <2>1, <1>2, <1>3, <1>6
  <2>2. CASE n # 1
    <3>1. n - 1 \in 1..(Len(us) - 1) /\ ~(n <= 1) /\ n - 1 + 1 = n BY <2>2, <1>2
    <3>2. b[n] = Along(l, us[n]) BY <3>1, <1>1, <1>4, <1>6
    <3> QED BY <3>2, <1>3
  <2> QED BY <2>1, <2>2
<1>8. a = b BY <1>3, <1>6, <1>7, SeqEqual
<1> QED BY <1>1, <1>8 DEF a, b, t

-----------------------------------------------------------------------------
(* What happens to the beginning and in the middle of a pipeline.          *)

Greetings == {NewServer, Confirm}

\* What arrives is the same, and no greeting is missing.
Alike(p, q) ==
  /\ \A table : After(table, q) = After(table, p)
  /\ \A m \in Greetings : Contains(p, m) => Contains(q, m)

LEMMA GreetingsAreInert ==
  ASSUME NEW table
  PROVE  /\ \A m \in Greetings : InOrder(table, m) = table /\ m \in Message /\ m # Ping
         /\ InOrder(table, Ping) = table
         /\ \A m : m.kind = "request" => InOrder(table, m) = table
<1>1. InOrder(table, NewServer) = table BY DEF InOrder, NewServer
<1>2. InOrder(table, Confirm) = table BY DEF InOrder, Confirm
<1>3. InOrder(table, Ping) = table BY DEF InOrder, Ping
<1>4. NewServer # Ping BY DEF NewServer, Ping
<1>5. Confirm # Ping BY DEF Confirm, Ping
<1>6. \A m : m.kind = "request" => InOrder(table, m) = table BY DEF InOrder
<1> QED BY <1>1, <1>2, <1>3, <1>4, <1>5, <1>6 DEF Greetings, Message

LEMMA PingIsMessage == Ping \in Message /\ NewServer \in Message /\ Confirm \in Message
BY DEF Message

LEMMA Concatenated ==
  ASSUME NEW a \in Seq(Message), NEW b \in Seq(Message)
  PROVE  /\ a \o b \in Seq(Message)
         /\ \A table : After(table, a \o b) = After(After(table, a), b)
<1>1. a \o b \in Seq(Message) BY ConcatProperties
<1>2. ASSUME NEW table PROVE After(table, a \o b) = After(After(table, a), b)
  BY AfterConcat
<1> QED BY <1>1, <1>2

LEMMA Associated ==
  ASSUME NEW a \in Seq(Message), NEW b \in Seq(Message), NEW c \in Seq(Message)
  PROVE  (a \o b) \o c = a \o (b \o c)
BY ConcatAssociative

LEMMA PingBetween ==
  ASSUME NEW a \in Seq(Message), NEW b \in Seq(Message)
  PROVE  /\ Alike(a \o b, a \o (<<Ping>> \o b))
         /\ Alike(a \o (<<Ping>> \o b), a \o b)
<1> DEFINE one == <<Ping>>
           c == one \o b
<1>1. one \in Seq(Message) BY PingIsMessage
<1>2. c \in Seq(Message) BY <1>1, ConcatProperties
<1>3. \A table : After(table, c) = After(table, b)
  BY AfterCons, PingIsMessage, GreetingsAreInert
<1>4. \A m : Contains(one, m) <=> Ping = m BY ContainsOne
<1>5. \A m \in Greetings : Contains(c, m) <=> Contains(b, m)
  <2> HIDE DEF one
  <2> QED BY <1>1, <1>4, ContainsConcat, GreetingsAreInert
<1> HIDE DEF c
<1>6. \A table : After(table, a \o c) = After(table, a \o b)
  BY <1>2, <1>3, Concatenated
<1>7. \A m \in Greetings : Contains(a \o c, m) <=> Contains(a \o b, m)
  BY <1>2, <1>5, ContainsConcat
<1>8. Alike(a \o b, a \o c) /\ Alike(a \o c, a \o b) BY <1>6, <1>7 DEF Alike
<1> QED BY <1>8 DEF c

\* The next message from the channel is queued.
LEMMA Queued ==
  ASSUME NEW w \in Seq(Message), NEW q \in Seq(Message), NEW x \in Message,
         NEW c \in Seq(Message)
  PROVE  (w \o Append(q, x)) \o c = (w \o q) \o (<<x>> \o c)
<1> DEFINE one == <<x>>
<1>1. one \in Seq(Message) /\ Append(q, x) = q \o one BY AppendIsConcat
<1> HIDE DEF one
<1>2. one \o c \in Seq(Message) /\ w \o q \in Seq(Message) BY <1>1, ConcatProperties
<1>3. w \o (q \o one) = (w \o q) \o one BY <1>1, Associated
<1>4. ((w \o q) \o one) \o c = (w \o q) \o (one \o c) BY <1>1, <1>2, Associated
<1>5. (w \o Append(q, x)) \o c = (w \o q) \o (one \o c) BY <1>1, <1>3, <1>4
<1> QED BY <1>5 DEF one

LEMMA PingQueued ==
  ASSUME NEW w \in Seq(Message), NEW q \in Seq(Message), NEW c \in Seq(Message)
  PROVE  Alike((w \o q) \o c, (w \o Append(q, Ping)) \o c)
<1>1. w \o q \in Seq(Message) BY ConcatProperties
<1>2. (w \o Append(q, Ping)) \o c = (w \o q) \o (<<Ping>> \o c) BY PingIsMessage, Queued
<1>3. Alike((w \o q) \o c, (w \o q) \o (<<Ping>> \o c)) BY <1>1, PingBetween
<1> QED BY <1>2, <1>3

\* The next message of the queue is sent.
LEMMA Sent ==
  ASSUME NEW o \in Message, NEW wire \in Seq(Message), NEW q \in Seq(Message), q # <<>>,
         NEW c \in Seq(Message)
  PROVE  Alike(((<<o>> \o wire) \o q) \o c,
               ((<<o>> \o (wire \o Line(Head(q)))) \o Tail(q)) \o c)
<1> DEFINE w == <<o>> \o wire
           x == Head(q)
           r == Tail(q)
<1>1. x \in Message /\ r \in Seq(Message) /\ q = <<x>> \o r BY HeadTailConcat
<1>2. w \in Seq(Message) /\ <<o>> \in Seq(Message) BY ConcatProperties
<1>3. r \o c \in Seq(Message) BY <1>1, ConcatProperties
<1>4. (w \o q) \o c = w \o (<<x>> \o (r \o c))
  <2> DEFINE one == <<x>>
  <2>1. one \in Seq(Message) /\ q = one \o r BY <1>1
  <2> HIDE DEF one, w, x, r
  <2>2. (w \o q) \o c = w \o (q \o c) BY <1>2, Associated
  <2>3. (one \o r) \o c = one \o (r \o c) BY <1>1, <2>1, Associated
  <2>4. (w \o q) \o c = w \o (one \o (r \o c)) BY <2>1, <2>2, <2>3
  <2> QED BY <2>4 DEF one
<1>5. CASE x = Ping
  <2>1. Line(x) = <<>> BY <1>5 DEF Line
  <2>2. wire \o Line(x) = wire BY <2>1, ConcatEmptySeq
  <2>3. (w \o r) \o c = w \o (r \o c)
    <3> HIDE DEF w, r
    <3> QED BY <1>1, <1>2, Associated
  <2>4. Alike(w \o (<<Ping>> \o (r \o c)), w \o (r \o c))
    <3> HIDE DEF w, r
    <3> QED BY <1>2, <1>3, PingBetween
  <2>5. Alike((w \o q) \o c, (w \o r) \o c) BY <2>3, <2>4, <1>4, <1>5
  <2> QED BY <2>2, <2>5
<1>6. CASE x # Ping
  <2> DEFINE one == <<x>>
             first == <<o>>
  <2>1. Line(x) = one BY <1>6 DEF Line
  <2>2. one \in Seq(Message) /\ first \in Seq(Message) BY <1>1
  <2>3. first \o (wire \o one) = w \o one
    <3> HIDE DEF one, first
    <3> QED BY <2>2, Associated DEF first
  <2> HIDE DEF w, one, x, r
  <2>4. w \o one \in Seq(Message) BY <1>2, <2>2, ConcatProperties
  <2>5. ((w \o one) \o r) \o c = (w \o one) \o (r \o c) BY <1>1, <2>4, Associated
  <2>6. (w \o one) \o (r \o c) = w \o (one \o (r \o c)) 
    <3> DEFINE rc == r \o c
    <3>1. rc \in Seq(Message) /\ w \in Seq(Message) /\ one \in Seq(Message) BY <1>2, <1>3, <2>2
    <3> HIDE DEF rc
    <3>2. (w \o one) \o rc = w \o (one \o rc) BY <3>1, Associated
    <3> QED BY <3>2 DEF rc
  <2>7. ((w \o one) \o r) \o c = (w \o q) \o c BY <2>5, <2>6, <1>4 DEF one
  <2>8. Alike((w \o q) \o c, ((w \o one) \o r) \o c) BY <2>7 DEF Alike
  <2> QED BY <2>1, <2>3, <2>8 DEF w, x, r, first
<1> QED BY <1>5, <1>6

\* The first message is read.
LEMMA ReadFirst ==
  ASSUME NEW m \in Message, NEW w \in Seq(Message), NEW q \in Seq(Message),
         NEW c \in Seq(Message)
  PROVE  /\ \A table : After(table, ((<<m>> \o w) \o q) \o c)
                          = After(InOrder(table, m), (w \o q) \o c)
         /\ \A x : Contains(((<<m>> \o w) \o q) \o c, x)
                     <=> x = m \/ Contains((w \o q) \o c, x)
<1> DEFINE one == <<m>>
           rest == (w \o q) \o c
<1>1. one \in Seq(Message) OBVIOUS
<1>2. rest \in Seq(Message) BY ConcatProperties
<1>3. ((one \o w) \o q) \o c = one \o rest
  <2> HIDE DEF one
  <2>1. one \o w \in Seq(Message) /\ w \o q \in Seq(Message) BY <1>1, ConcatProperties
  <2>2. (one \o w) \o q = one \o (w \o q) BY <1>1, Associated
  <2>3. (one \o (w \o q)) \o c = one \o ((w \o q) \o c) BY <1>1, <2>1, Associated
  <2> QED BY <2>2, <2>3
<1>4. \A x : Contains(one, x) <=> m = x BY ContainsOne
<1>5. \A x : Contains(one \o rest, x) <=> x = m \/ Contains(rest, x)
  <2> HIDE DEF one, rest
  <2> QED BY <1>1, <1>2, <1>4, ContainsConcat
<1>6. \A table : After(table, one \o rest) = After(InOrder(table, m), rest)
  <2> HIDE DEF rest
  <2> QED BY <1>2, AfterCons
<1> QED BY <1>3, <1>5, <1>6

-----------------------------------------------------------------------------
(* The types of jobs and messages.                                         *)

LEMMA TableIsCopy ==
  ASSUME NEW t
  PROVE  t \in Table <=> IsCopy(t) /\ DOMAIN t \subseteq 1..MaxID
<1>1. ASSUME t \in Table PROVE IsCopy(t) /\ DOMAIN t \subseteq 1..MaxID
  <2>1. PICK ids \in SUBSET (1..MaxID) : t \in [ids -> Job] BY <1>1 DEF Table
  <2> QED BY <2>1 DEF IsCopy, IsFcn
<1>2. ASSUME IsCopy(t), DOMAIN t \subseteq 1..MaxID PROVE t \in Table
  <2>1. t \in [DOMAIN t -> Job] BY <1>2 DEF IsCopy, IsFcn
  <2> QED BY <2>1, <1>2 DEF Table
<1> QED BY <1>1, <1>2

LEMMA ChangesAreEdit ==
  ASSUME NEW t
  PROVE  t \in Changes <=> IsEdit(t) /\ DOMAIN t \subseteq 1..MaxID
<1>1. ASSUME t \in Changes PROVE IsEdit(t) /\ DOMAIN t \subseteq 1..MaxID
  <2>1. PICK ids \in SUBSET (1..MaxID) : t \in [ids -> Job \cup {Done}] BY <1>1 DEF Changes
  <2> QED BY <2>1 DEF IsEdit, IsFcn
<1>2. ASSUME IsEdit(t), DOMAIN t \subseteq 1..MaxID PROVE t \in Changes
  <2>1. t \in [DOMAIN t -> Job \cup {Done}] BY <1>2 DEF IsEdit, IsFcn
  <2> QED BY <2>1, <1>2 DEF Changes
<1> QED BY <1>1, <1>2

LEMMA TableIsChange == Table \subseteq Changes
BY TableIsCopy, ChangesAreEdit, CopyIsEdit

LEMMA NoneType == None \in Table /\ None \in Changes
BY TableIsCopy, ChangesAreEdit, NoneIsCopy

LEMMA OneType ==
  ASSUME NEW i \in 1..MaxID, NEW job \in Job \cup {Done}
  PROVE  One(i, job) \in Changes
<1>1. IsEdit(One(i, job)) /\ DOMAIN One(i, job) = {i} BY OneEdit
<1>2. DOMAIN One(i, job) \subseteq 1..MaxID BY <1>1
<1> QED BY <1>1, <1>2, ChangesAreEdit

LEMMA MergedType ==
  ASSUME NEW t \in Table, NEW jobs \in Changes
  PROVE  /\ Merge(t, jobs) \in Table
         /\ Told(Merge(t, jobs), jobs) \in Changes
         /\ Merge(t, Told(Merge(t, jobs), jobs)) = Merge(t, jobs)
<1>1. IsCopy(t) /\ IsEdit(jobs) /\ DOMAIN t \subseteq 1..MaxID /\ DOMAIN jobs \subseteq 1..MaxID
  BY TableIsCopy, ChangesAreEdit
<1>2. DOMAIN Merge(t, jobs) \subseteq 1..MaxID BY <1>1, MergedDomain
<1>3. IsCopy(Merge(t, jobs)) BY <1>1, MergeType
<1>4. IsEdit(Told(Merge(t, jobs), jobs))
      /\ Merge(t, Told(Merge(t, jobs), jobs)) = Merge(t, jobs)
  BY <1>1, MergeAgain
<1>5. DOMAIN Told(Merge(t, jobs), jobs) = DOMAIN jobs BY DEF Told
<1> QED BY <1>1, <1>2, <1>3, <1>4, <1>5, TableIsCopy, ChangesAreEdit

LEMMA MessageTypes ==
  /\ NewServer \in Message \ {Ping} /\ Confirm \in Message \ {Ping} /\ Ping \in Message
  /\ \A jobs \in Changes, sync \in {"ordered", "all"} : Fju(sync, jobs) \in Message \ {Ping}
  /\ \A i \in 1..MaxID, job \in Job \cup {Done}, asked \in SUBSET Field :
       Request(i, job, asked) \in Message \ {Ping}
<1>1. NewServer \in Message \ {Ping} /\ Confirm \in Message \ {Ping} /\ Ping \in Message
  BY DEF Message, NewServer, Confirm, Ping
<1>2. ASSUME NEW jobs \in Changes, NEW sync \in {"ordered", "all"}
      PROVE  Fju(sync, jobs) \in Message \ {Ping}
  <2>1. Fju(sync, jobs) \in Message BY DEF Message, Fju
  <2>2. Fju(sync, jobs).kind # Ping.kind BY DEF Fju, Ping
  <2> QED BY <2>1, <2>2
<1>3. ASSUME NEW i \in 1..MaxID, NEW job \in Job \cup {Done}, NEW asked \in SUBSET Field
      PROVE  Request(i, job, asked) \in Message \ {Ping}
  <2>1. Request(i, job, asked) \in Message BY DEF Message, Request
  <2>2. Request(i, job, asked).kind # Ping.kind BY DEF Request, Ping
  <2> QED BY <2>1, <2>2
<1> QED BY <1>1, <1>2, <1>3

LEMMA MessageKinds ==
  ASSUME NEW m \in Message
  PROVE  /\ m.kind = "foreign_job_updates" =>
              m = Fju(m.sync, m.jobs) /\ m.sync \in {"ordered", "all"} /\ m.jobs \in Changes
         /\ m.kind = "request" => m.id \in 1..MaxID /\ m.job \in Job \cup {Done}
<1>1. CASE m \in {NewServer, Confirm, Ping}
  <2>1. NewServer.kind \notin {"foreign_job_updates", "request"} BY DEF NewServer
  <2>2. Confirm.kind \notin {"foreign_job_updates", "request"} BY DEF Confirm
  <2>3. Ping.kind \notin {"foreign_job_updates", "request"} BY DEF Ping
  <2>4. m.kind \notin {"foreign_job_updates", "request"} BY <1>1, <2>1, <2>2, <2>3
  <2> QED BY <2>4
<1>2. CASE m \in [kind : {"foreign_job_updates"}, sync : {"ordered", "all"}, jobs : Changes]
  BY <1>2 DEF Fju
<1>3. CASE m \in [kind : {"request"}, id : 1..MaxID, job : Job \cup {Done}, asked : SUBSET Field]
  BY <1>3
<1> QED BY <1>1, <1>2, <1>3 DEF Message

LEMMA ToEntry ==
  ASSUME NEW m \in Message
  PROVE  To({}, m) \in Entry /\ \A t \in Server : To({t}, m) \in Entry
BY DEF To, Entry

LEMMA AppliedType ==
  ASSUME NEW job \in Job, NEW update \in Updates
  PROVE  Apply(job, update) \in Job
<1>1. update \in [status : {"waiting", "processing"}] \cup [timestamp : Time]
  BY JobSyncConstants
<1>2. CASE update \in [status : {"waiting", "processing"}]
  <2>1. DOMAIN update = {"status"} /\ update.status \in Status BY <1>2 DEF Status
  <2> QED BY <2>1 DEF Apply, Job
<1>3. CASE update \in [timestamp : Time]
  <2>1. DOMAIN update = {"timestamp"} /\ update.timestamp \in Time BY <1>3
  <2> QED BY <2>1 DEF Apply, Job
<1> QED BY <1>1, <1>2, <1>3

LEMMA AskedType ==
  ASSUME NEW update \in Updates \cup {Done}
  PROVE  DOMAIN update \in SUBSET Field
<1>1. CASE update = Done
  BY <1>1 DEF Done, Field
<1>2. CASE update \in [status : {"waiting", "processing"}] BY <1>2 DEF Field
<1>3. CASE update \in [timestamp : Time] BY <1>3 DEF Field
<1> QED BY <1>1, <1>2, <1>3, JobSyncConstants

LEMMA LinkFacts ==
  ASSUME NEW l \in Link
  PROVE  /\ l[1] \in Server /\ l[2] \in Server /\ l[1] # l[2] /\ l = <<l[1], l[2]>>
         /\ Back(l) \in Link /\ Back(l)[1] = l[2] /\ Back(l)[2] = l[1] /\ Back(Back(l)) = l
         /\ Back(l) # l
BY DEF Link, Back

LEMMA EditFacts ==
  ASSUME TypeOK, NEW s \in Server, NEW jobs \in Changes, Edit(s, jobs)
  PROVE  LET table == Merge(db[s][s], jobs)
             u == To({}, Fju("ordered", Told(table, jobs)))
         IN  /\ db' = [db EXCEPT ![s][s] = table] /\ table \in Table
             /\ u \in Entry /\ updates' = [updates EXCEPT ![s] = Append(@, u)]
             /\ Merge(db[s][s], Told(table, jobs)) = table
             /\ db' \in [Server -> [Server -> Table]]
             /\ updates' \in [Server -> Seq(Entry)]
<1> DEFINE table == Merge(db[s][s], jobs)
           u == To({}, Fju("ordered", Told(table, jobs)))
<1>1. db[s][s] \in Table BY DEF TypeOK
<1>2. table \in Table /\ Told(table, jobs) \in Changes
      /\ Merge(db[s][s], Told(table, jobs)) = table
  BY <1>1, MergedType
<1>3. u \in Entry BY <1>2, MessageTypes, ToEntry
<1>4. db' = [db EXCEPT ![s][s] = table] /\ updates' = [updates EXCEPT ![s] = Append(@, u)]
  BY DEF Edit, Told
<1> HIDE DEF table, u
<1>5. db' \in [Server -> [Server -> Table]] BY <1>2, <1>4 DEF TypeOK
<1>6. updates' \in [Server -> Seq(Entry)] BY <1>3, <1>4 DEF TypeOK
<1> QED BY <1>2, <1>3, <1>4, <1>5, <1>6 DEF table, u

-----------------------------------------------------------------------------
(* The state of the servers.                                               *)

\* With Overlap = FALSE a receiver has one goroutine for each peer, and whoever has
\* no connection is about to open one.
Shape ==
  \A l \in Link : /\ Len(readers[l]) <= 1
                  /\ tcp[l] = "absent" => l \in greets
                  /\ tcp[l] = "down" => WillConnect(l)

DisksOK == \A s \in Server : FirstFreeId(disk[s]) \in 1..(MaxID + 1)

State == TypeOK /\ Shape /\ DisksOK

LEMMA OneReader ==
  ASSUME TypeOK, Shape, NEW l \in Link
  PROVE  /\ readers[l] \in Seq(Reader)
         /\ readers[l] = <<>> \/ Len(readers[l]) = 1
         /\ \A n \in DOMAIN readers[l] : n = 1 /\ Len(readers[l]) = 1
         /\ Len(readers[l]) = 1 => readers[l][1] \in Reader /\ DOMAIN readers[l] = {1}
<1>1. readers[l] \in Seq(Reader) /\ Len(readers[l]) <= 1 BY DEF TypeOK, Shape
<1> DEFINE rs == readers[l]
<1>2. rs \in Seq(Reader) /\ Len(rs) <= 1 BY <1>1
<1> HIDE DEF rs
<1>3. Len(rs) \in Nat /\ DOMAIN rs = 1..Len(rs) BY <1>2
<1>4. Len(rs) = 0 \/ Len(rs) = 1
  <2>1. \A n \in Nat : n <= 1 => n = 0 \/ n = 1 OBVIOUS
  <2> QED BY <1>2, <1>3, <2>1
<1>5. CASE Len(rs) = 0
  <2>1. rs = <<>> /\ DOMAIN rs = {} BY <1>2, <1>3, <1>5
  <2> QED BY <1>2, <1>5, <2>1 DEF rs
<1>6. CASE Len(rs) = 1
  <2>1. DOMAIN rs = {1} BY <1>3, <1>6
  <2>2. rs[1] \in Reader BY <1>2, <1>6
  <2> QED BY <1>2, <1>6, <2>1, <2>2 DEF rs
<1> QED BY <1>4, <1>5, <1>6

LEMMA ReaderSet ==
  ASSUME TypeOK, NEW l \in Link, Len(readers[l]) = 1, NEW r \in Reader,
         readers' = [readers EXCEPT ![l] = [@ EXCEPT ![1] = r]]
  PROVE  /\ readers' \in [Link -> Seq(Reader)]
         /\ readers'[l] \in Seq(Reader) /\ Len(readers'[l]) = 1 /\ readers'[l] # <<>> /\ readers'[l][1] = r
         /\ \A k \in Link : k # l => readers'[k] = readers[k]
<1>1. readers \in [Link -> Seq(Reader)] BY DEF TypeOK
<1> DEFINE rs == [readers[l] EXCEPT ![1] = r]
<1>2. rs \in Seq(Reader) /\ Len(rs) = 1 /\ rs[1] = r /\ rs # <<>>
  <2>1. readers[l] \in Seq(Reader) /\ 1 \in 1..Len(readers[l]) BY <1>1
  <2>2. rs \in Seq(Reader) /\ Len(rs) = 1
        /\ \A j \in 1..Len(readers[l]) : rs[j] = IF j = 1 THEN r ELSE readers[l][j]
    BY <2>1, ExceptSeq
  <2> DEFINE old == readers[l]
  <2>3. old \in Seq(Reader) /\ Len(old) = 1 BY <2>1
  <2> HIDE DEF rs, old
  <2>4. Len(rs) = 1 /\ rs[1] = r BY <2>2, <2>3 DEF old
  <2>5. rs # <<>>
    <3>1. Len(<<>>) = 0 OBVIOUS
    <3> QED BY <2>4, <3>1
  <2> QED BY <2>2, <2>4, <2>5
<1>3. readers' = [readers EXCEPT ![l] = rs] OBVIOUS
<1> HIDE DEF rs
<1> QED BY <1>1, <1>2, <1>3

\* Steps of goroutines of the receiver.
LEMMA WireSet ==
  ASSUME NEW r \in Reader, NEW wire \in Seq(Message \ {Ping})
  PROVE  /\ [r EXCEPT !.wire = wire] \in Reader
         /\ [r EXCEPT !.wire = wire].wire = wire
         /\ Ongoing([r EXCEPT !.wire = wire]) = Ongoing(r)
<1>1. [r EXCEPT !.wire = wire] \in Reader /\ [r EXCEPT !.wire = wire].wire = wire
      /\ [r EXCEPT !.wire = wire].clear = r.clear /\ [r EXCEPT !.wire = wire].jobs = r.jobs
  BY DEF Reader
<1> QED BY <1>1 DEF Ongoing

LEMMA WireFacts ==
  ASSUME NEW r \in Reader, r.wire # <<>>
  PROVE  /\ Head(r.wire) \in Message \ {Ping} /\ Tail(r.wire) \in Seq(Message \ {Ping})
         /\ Tail(r.wire) \in Seq(Message)
         /\ r.wire = <<Head(r.wire)>> \o Tail(r.wire)
         /\ Front(r.wire) \in Seq(Message \ {Ping})
<1> DEFINE w == r.wire
<1>1. w \in Seq(Message \ {Ping}) BY DEF Reader
<1> HIDE DEF w
<1>2. w # <<>> BY DEF w
<1>3. Head(w) \in Message \ {Ping} /\ Tail(w) \in Seq(Message \ {Ping}) BY <1>1, <1>2
<1>4. Tail(w) \in Seq(Message) BY <1>3, SeqMonotonic
<1>5. w = <<Head(w)>> \o Tail(w) BY <1>1, <1>2, HeadTailConcat
<1>6. Front(w) \in Seq(Message \ {Ping})
  <2>1. \A i \in 1..(Len(w) - 1) : w[i] \in Message \ {Ping} BY <1>1
  <2> QED BY <1>1, <2>1, SubSeqProperties DEF Front
<1> QED BY <1>3, <1>4, <1>5, <1>6 DEF w

LEMMA LineType ==
  ASSUME NEW m \in Message
  PROVE  Line(m) \in Seq(Message \ {Ping})
<1>1. CASE m = Ping BY <1>1 DEF Line
<1>2. CASE m # Ping
  <2>1. m \in Message \ {Ping} BY <1>2
  <2>2. <<m>> \in Seq(Message \ {Ping}) BY <2>1
  <2> QED BY <1>2, <2>2 DEF Line
<1> QED BY <1>1, <1>2

LEMMA NoOverlap ==
  ASSUME NEW rs, \A n \in DOMAIN rs : ~Busy(rs[n])
  PROVE  Unfinished(rs) = <<>>
BY Zenon DEF Unfinished

LEMMA FreshType ==
  ASSUME NEW m \in Message
  PROVE  [Fresh EXCEPT !.wire = Line(m)] \in Reader
<1>1. Line(m) \in Seq(Message \ {Ping}) BY LineType
<1> QED BY <1>1, NoneType DEF Fresh, Reader

-----------------------------------------------------------------------------
(* Steps of the database keep it.                                          *)

LEMMA EditTypes ==
  ASSUME State, NEW s \in Server,
         JobAddLocal(s) \/ JobsModifyLocal(s) \/ JobsRemoveLocal(s)
  PROVE  /\ \E jobs \in Changes : Edit(s, jobs)
         /\ nextID' \in [Server -> 1..(MaxID + 1)]
         /\ events' \in 0..MaxEvents /\ UNCHANGED faults
<1> USE DEF State
<1>1. events \in 0..MaxEvents /\ nextID \in [Server -> 1..(MaxID + 1)] BY DEF TypeOK
<1>2. events' \in 0..MaxEvents /\ UNCHANGED faults
  BY <1>1, JobSyncConstants DEF JobAddLocal, JobsModifyLocal, JobsRemoveLocal, Happens
<1>3. db[s][s] \in Table BY DEF TypeOK
<1>4. DOMAIN db[s][s] \subseteq 1..MaxID /\ \A i \in DOMAIN db[s][s] : db[s][s][i] \in Job
  BY <1>3, TableIsCopy DEF IsCopy
<1>5. CASE JobAddLocal(s)
  <2>1. nextID[s] \in 1..MaxID /\ nextID' = [nextID EXCEPT ![s] = @ + 1]
    BY <1>1, <1>5, JobSyncConstants DEF JobAddLocal
  <2>2. nextID' \in [Server -> 1..(MaxID + 1)] BY <1>1, <2>1, JobSyncConstants
  <2>3. PICK what \in What, t \in Time :
          Edit(s, One(nextID[s], [what |-> what, status |-> "waiting", timestamp |-> t]))
    BY <1>5 DEF JobAddLocal
  <2>4. [what |-> what, status |-> "waiting", timestamp |-> t] \in Job BY DEF Job, Status
  <2>5. One(nextID[s], [what |-> what, status |-> "waiting", timestamp |-> t]) \in Changes
    BY <2>1, <2>4, OneType
  <2> QED BY <1>2, <2>2, <2>3, <2>5
<1>6. CASE JobsModifyLocal(s)
  <2>1. PICK i \in DOMAIN db[s][s], update \in Updates :
          Edit(s, One(i, Apply(db[s][s][i], update)))
    BY <1>6 DEF JobsModifyLocal
  <2>2. One(i, Apply(db[s][s][i], update)) \in Changes
    BY <1>4, AppliedType, OneType
  <2>3. UNCHANGED nextID BY <1>6 DEF JobsModifyLocal
  <2> QED BY <1>1, <1>2, <2>1, <2>2, <2>3
<1>7. CASE JobsRemoveLocal(s)
  <2>1. PICK ids \in SUBSET DOMAIN db[s][s] \ {{}} : Edit(s, [i \in ids |-> Done])
    BY <1>7 DEF JobsRemoveLocal
  <2>2. [i \in ids |-> Done] \in Changes
    <3>1. ids \subseteq 1..MaxID BY <1>4
    <3> QED BY <3>1 DEF Changes
  <2>3. UNCHANGED nextID BY <1>7 DEF JobsRemoveLocal
  <2> QED BY <1>1, <1>2, <2>1, <2>2, <2>3
<1> QED BY <1>5, <1>6, <1>7

LEMMA EditState ==
  ASSUME State, NEW s \in Server,
         JobAddLocal(s) \/ JobsModifyLocal(s) \/ JobsRemoveLocal(s)
  PROVE  State'
<1>1. PICK jobs \in Changes : Edit(s, jobs) BY EditTypes
<1>2. db' \in [Server -> [Server -> Table]] /\ updates' \in [Server -> Seq(Entry)]
  BY <1>1, EditFacts DEF State
<1>3. UNCHANGED <<disk, syncs, greets, confirms, connVars>>
  BY DEF JobAddLocal, JobsModifyLocal, JobsRemoveLocal
<1>4. TypeOK' BY <1>2, <1>3, EditTypes DEF State, TypeOK, connVars
<1>5. Shape' BY <1>3 DEF State, Shape, WillConnect, connVars
<1> QED BY <1>3, <1>4, <1>5 DEF State, DisksOK

LEMMA ForwardFacts ==
  ASSUME State, NEW l \in Link, Forward(l)
  PROVE  \E m \in Message : /\ m.kind = "request"
                            /\ updates' = [updates EXCEPT ![l[1]] = Append(@, To({l[2]}, m))]
                            /\ To({l[2]}, m) \in Entry
<1>1. PICK i \in DOMAIN db[l[1]][l[2]], update \in Updates \cup {Done} :
        updates' = [updates EXCEPT ![l[1]] = Append(@,
          To({l[2]}, Request(i, IF update = Done THEN Done
                                ELSE Apply(db[l[1]][l[2]][i], update), DOMAIN update)))]
  BY DEF Forward
<1>2. db[l[1]][l[2]] \in Table BY LinkFacts DEF State, TypeOK
<1>3. i \in 1..MaxID /\ db[l[1]][l[2]][i] \in Job BY <1>2, TableIsCopy DEF IsCopy
<1> DEFINE job == IF update = Done THEN Done ELSE Apply(db[l[1]][l[2]][i], update)
           m == Request(i, job, DOMAIN update)
<1>4. job \in Job \cup {Done} BY <1>3, AppliedType
<1>5. m \in Message BY <1>3, <1>4, AskedType, MessageTypes
<1>6. m.kind = "request" BY DEF Request
<1>7. To({l[2]}, m) \in Entry BY <1>5, ToEntry, LinkFacts
<1> QED BY <1>1, <1>5, <1>6, <1>7

LEMMA ForwardState ==
  ASSUME State, NEW l \in Link, Forward(l)
  PROVE  State'
<1>1. PICK u \in Entry : updates' = [updates EXCEPT ![l[1]] = Append(@, u)] BY ForwardFacts
<1>2. updates' \in [Server -> Seq(Entry)] BY <1>1, LinkFacts DEF State, TypeOK
<1>3. UNCHANGED <<db, disk, nextID, syncs, greets, confirms, connVars>> /\ Happens(1) BY DEF Forward
<1>4. events' \in 0..MaxEvents /\ UNCHANGED faults BY <1>3, JobSyncConstants DEF Happens, State, TypeOK
<1>5. TypeOK' BY <1>2, <1>3, <1>4 DEF State, TypeOK, connVars
<1>6. Shape' BY <1>3 DEF State, Shape, WillConnect, connVars
<1> QED BY <1>3, <1>5, <1>6 DEF State, DisksOK

LEMMA SyncAllFacts ==
  ASSUME State, NEW l \in Link, SyncAll(l)
  PROVE  LET u == To({l[2]}, Fju("all", db[l[1]][l[1]]))
         IN  u \in Entry /\ updates' = [updates EXCEPT ![l[1]] = Append(@, u)]
<1>1. db[l[1]][l[1]] \in Changes BY LinkFacts, TableIsChange DEF State, TypeOK
<1> QED BY <1>1, MessageTypes, ToEntry, LinkFacts DEF SyncAll

LEMMA SyncAllState ==
  ASSUME State, NEW l \in Link, SyncAll(l)
  PROVE  State'
<1>1. PICK u \in Entry : updates' = [updates EXCEPT ![l[1]] = Append(@, u)] BY SyncAllFacts
<1>2. updates' \in [Server -> Seq(Entry)] BY <1>1, LinkFacts DEF State, TypeOK
<1>3. UNCHANGED <<dbVars, greets, confirms, connVars, bounds>> BY DEF SyncAll
<1>4. syncs' \in [Link -> Nat]
  <2>1. syncs \in [Link -> Nat] BY DEF State, TypeOK
  <2>2. syncs[l] \in Nat /\ syncs[l] > 0 /\ syncs' = [syncs EXCEPT ![l] = @ - 1]
    BY <2>1 DEF SyncAll
  <2>3. syncs[l] - 1 \in Nat BY <2>2
  <2> QED BY <2>1, <2>2, <2>3
<1>5. TypeOK' BY <1>2, <1>3, <1>4 DEF State, TypeOK, dbVars, connVars, bounds
<1>6. Shape' BY <1>3 DEF State, Shape, WillConnect, connVars
<1> QED BY <1>3, <1>5, <1>6 DEF State, DisksOK, dbVars

LEMMA DistributeState ==
  ASSUME State, NEW s \in Server, DistributeForeignJobUpdates(s)
  PROVE  State'
<1> DEFINE u == Head(updates[s])
           reached == {l \in Link : l[1] = s /\ IF u.target = {} THEN tcp[l] # "absent"
                                                ELSE l[2] \in u.target}
<1>1. updates[s] \in Seq(Entry) /\ updates[s] # <<>>
  BY DEF State, TypeOK, DistributeForeignJobUpdates
<1>2. u \in Entry /\ Tail(updates[s]) \in Seq(Entry) BY <1>1
<1>3. u.message \in Message BY <1>2 DEF Entry
<1>4. queue' = [l \in Link |-> IF l \in reached THEN Append(queue[l], u.message) ELSE queue[l]]
      /\ tcp' = [l \in Link |-> IF l \in reached /\ tcp[l] = "absent" THEN "down" ELSE tcp[l]]
      /\ updates' = [updates EXCEPT ![s] = Tail(@)]
      /\ UNCHANGED <<dbVars, syncs, greets, confirms, pinger, readers, bounds>>
  BY DEF DistributeForeignJobUpdates
<1> HIDE DEF reached, u
<1>5. updates' \in [Server -> Seq(Entry)] BY <1>2, <1>4 DEF State, TypeOK
<1>6. queue' \in [Link -> Seq(Message)] BY <1>3, <1>4 DEF State, TypeOK
<1>7. tcp' \in [Link -> {"absent", "down", "up", "dead"}] BY <1>4 DEF State, TypeOK
<1>8. \A l \in Link : tcp'[l] = "up" => readers'[l] # <<>> BY <1>4 DEF State, TypeOK
<1>9. TypeOK' BY <1>4, <1>5, <1>6, <1>7, <1>8 DEF State, TypeOK, dbVars, bounds
<1>10. Shape'
  <2> SUFFICES ASSUME NEW l \in Link
               PROVE  /\ Len(readers'[l]) <= 1
                      /\ tcp'[l] = "absent" => l \in greets'
                      /\ tcp'[l] = "down" => WillConnect(l)'
    BY DEF Shape
  <2>1. Len(readers'[l]) <= 1 /\ (tcp'[l] = "absent" => l \in greets')
    BY <1>4 DEF State, Shape
  <2>2. ASSUME tcp'[l] = "down" PROVE WillConnect(l)'
    <3>1. CASE tcp[l] = "absent" BY <3>1, <1>4 DEF State, Shape, WillConnect
    <3>2. CASE tcp[l] = "down"
      <4>1. l \in greets \/ queue[l] # <<>> \/ pinger[l] BY <3>2 DEF State, Shape, WillConnect
      <4>2. queue[l] # <<>> => queue'[l] # <<>> 
        <5>1. queue[l] \in Seq(Message) BY DEF State, TypeOK
        <5>2. Append(queue[l], u.message) # <<>> BY <5>1, <1>3, AppendProperties
        <5> QED BY <5>2, <1>4
      <4> QED BY <4>1, <4>2, <2>2, <1>4 DEF WillConnect
    <3>3. tcp[l] = "absent" \/ tcp[l] = "down" BY <2>2, <1>4
    <3> QED BY <3>1, <3>2, <3>3
  <2> QED BY <2>1, <2>2
<1> QED BY <1>4, <1>9, <1>10 DEF State, DisksOK, dbVars

-----------------------------------------------------------------------------
(* Steps of the sender keep it.                                            *)

LEMMA QueueSet ==
  ASSUME State, NEW l \in Link, NEW q \in Seq(Message), queue' = [queue EXCEPT ![l] = q]
  PROVE  queue' \in [Link -> Seq(Message)] /\ queue'[l] = q
         /\ \A k \in Link : k # l => queue'[k] = queue[k]
BY DEF State, TypeOK

LEMMA QueueTypes ==
  ASSUME State, NEW l \in Link
  PROVE  /\ queue[l] \in Seq(Message)
         /\ \A m \in Message : Append(queue[l], m) \in Seq(Message) /\ Append(queue[l], m) # <<>>
         /\ queue[l] # <<>> => /\ Head(queue[l]) \in Message /\ Tail(queue[l]) \in Seq(Message)
                               /\ \A m \in Message : Append(Tail(queue[l]), m) \in Seq(Message)
                                                     /\ Append(Tail(queue[l]), m) # <<>>
<1> DEFINE q == queue[l]
<1>1. q \in Seq(Message) BY DEF State, TypeOK
<1> HIDE DEF q
<1>2. \A m \in Message : Append(q, m) \in Seq(Message) /\ Append(q, m) # <<>>
  BY <1>1, AppendProperties
<1>3. q # <<>> => Head(q) \in Message /\ Tail(q) \in Seq(Message)
  BY <1>1, HeadTailProperties
<1>4. q # <<>> => \A m \in Message : Append(Tail(q), m) \in Seq(Message) /\ Append(Tail(q), m) # <<>>
  BY <1>3, AppendProperties
<1> QED BY <1>1, <1>2, <1>3, <1>4 DEF q

LEMMA KnownFacts ==
  ASSUME State, NEW l \in Link, tcp' = Known(l)
  PROVE  /\ tcp' \in [Link -> {"absent", "down", "up", "dead"}]
         /\ \A k \in Link : tcp'[k] = tcp[k] \/ (tcp[k] = "absent" /\ tcp'[k] = "down")
         /\ tcp'[l] # "absent"
BY DEF State, TypeOK, Known

LEMMA ShapeKept ==
  ASSUME State, NEW l \in Link, Len(readers'[l]) <= 1, greets' = greets, pinger' = pinger,
         queue[l] # <<>> => queue'[l] # <<>>,
         tcp'[l] = tcp[l] \/ (tcp[l] = "absent" /\ tcp'[l] = "down")
  PROVE  /\ Len(readers'[l]) <= 1
         /\ tcp'[l] = "absent" => l \in greets'
         /\ tcp'[l] = "down" => WillConnect(l)'
BY DEF State, Shape, WillConnect

LEMMA BroadcastState ==
  ASSUME State, NEW l \in Link, BroadcastNewServer(l)
  PROVE  State'
<1>1. /\ l \in greets /\ greets' = greets \ {l} /\ tcp' = Known(l)
      /\ queue' = [queue EXCEPT ![l] = Append(queue[l], NewServer)]
      /\ UNCHANGED <<dbVars, updates, syncs, confirms, pinger, readers, bounds>>
  BY DEF BroadcastNewServer
<1>2. queue' \in [Link -> Seq(Message)] /\ queue'[l] # <<>>
      /\ \A k \in Link : k # l => queue'[k] = queue[k]
  BY <1>1, QueueSet, QueueTypes, MessageTypes
<1>3. TypeOK' BY <1>1, <1>2, KnownFacts DEF State, TypeOK, dbVars, bounds
<1>4. Shape'
  <2> SUFFICES ASSUME NEW k \in Link
               PROVE  /\ Len(readers'[k]) <= 1
                      /\ tcp'[k] = "absent" => k \in greets'
                      /\ tcp'[k] = "down" => WillConnect(k)'
    BY DEF Shape
  <2>1. CASE k = l BY <2>1, <1>1, <1>2, KnownFacts DEF State, Shape, WillConnect
  <2>2. CASE k # l
    <3>1. tcp'[k] = tcp[k] BY <2>2, <1>1 DEF State, TypeOK, Known
    <3> QED BY <3>1, <2>2, <1>1, <1>2 DEF State, Shape, WillConnect
  <2> QED BY <2>1, <2>2
<1> QED BY <1>1, <1>3, <1>4 DEF State, DisksOK, dbVars

LEMMA ConfirmState ==
  ASSUME State, NEW l \in Link, ConfirmNewServer(l)
  PROVE  State'
<1>1. /\ confirms[l] > 0 /\ confirms' = [confirms EXCEPT ![l] = @ - 1] /\ tcp' = Known(l)
      /\ queue' = [queue EXCEPT ![l] = Append(queue[l], Confirm)]
      /\ syncs' = [syncs EXCEPT ![l] = @ + 1]
      /\ UNCHANGED <<dbVars, updates, greets, pinger, readers, bounds>>
  BY DEF ConfirmNewServer
<1>2. queue' \in [Link -> Seq(Message)] /\ queue'[l] # <<>>
      /\ \A k \in Link : k # l => queue'[k] = queue[k]
  BY <1>1, QueueSet, QueueTypes, MessageTypes
<1>3. confirms' \in [Link -> Nat] /\ syncs' \in [Link -> Nat]
  <2>1. confirms \in [Link -> Nat] /\ syncs \in [Link -> Nat] BY DEF State, TypeOK
  <2>2. confirms[l] - 1 \in Nat /\ syncs[l] + 1 \in Nat BY <2>1, <1>1
  <2> QED BY <2>1, <2>2, <1>1
<1>4. TypeOK' BY <1>1, <1>2, <1>3, KnownFacts DEF State, TypeOK, dbVars, bounds
<1>5. Shape'
  <2> SUFFICES ASSUME NEW k \in Link
               PROVE  /\ Len(readers'[k]) <= 1
                      /\ tcp'[k] = "absent" => k \in greets'
                      /\ tcp'[k] = "down" => WillConnect(k)'
    BY DEF Shape
  <2>1. Len(readers'[k]) <= 1 BY <1>1 DEF State, Shape
  <2>2. queue[k] # <<>> => queue'[k] # <<>> BY <1>2
  <2> QED BY <2>1, <2>2, <1>1, KnownFacts, ShapeKept
<1> QED BY <1>1, <1>4, <1>5 DEF State, DisksOK, dbVars

\* The sender: what is put on the wire.
LEMMA TransmitFacts ==
  ASSUME State, NEW l \in Link, Transmit(l), tcp[l] = "up"
  PROVE  LET r == readers[l][1]
             wire == r.wire \o Line(Head(queue[l]))
             sent == [r EXCEPT !.wire = wire]
         IN  /\ Len(readers[l]) = 1 /\ r \in Reader /\ sent \in Reader
             /\ wire \in Seq(Message \ {Ping})
             /\ readers' = [readers EXCEPT ![l] = [@ EXCEPT ![1] = sent]]
<1>1. Len(readers[l]) = 1 /\ readers[l][1] \in Reader BY OneReader DEF State, TypeOK
<1>2. Head(queue[l]) \in Message BY QueueTypes DEF Transmit
<1>3. Line(Head(queue[l])) \in Seq(Message \ {Ping}) BY <1>2, LineType
<1>4. readers[l][1].wire \in Seq(Message \ {Ping}) BY <1>1 DEF Reader
<1> DEFINE wire == readers[l][1].wire \o Line(Head(queue[l]))
<1>5. wire \in Seq(Message \ {Ping}) BY <1>3, <1>4, ConcatProperties
<1>6. [readers[l][1] EXCEPT !.wire = wire] \in Reader BY <1>1, <1>5, WireSet
<1>7. readers' = [readers EXCEPT ![l] = [@ EXCEPT ![1] = [readers[l][1] EXCEPT !.wire = wire]]]
  BY <1>1 DEF Transmit
<1> QED BY <1>1, <1>5, <1>6, <1>7

LEMMA TransmitState ==
  ASSUME State, NEW l \in Link, Transmit(l)
  PROVE  State'
<1>1. /\ queue[l] # <<>> /\ tcp[l] \in {"up", "dead"}
      /\ queue' = [queue EXCEPT ![l] = Tail(queue[l])]
      /\ tcp[l] = "dead" => readers' = readers
      /\ UNCHANGED <<dbVars, chanVars, tcp, pinger, bounds>>
  BY DEF Transmit
<1>2. queue' \in [Link -> Seq(Message)] /\ \A k \in Link : k # l => queue'[k] = queue[k]
  BY <1>1, QueueSet, QueueTypes
<1>3. /\ readers' \in [Link -> Seq(Reader)]
      /\ \A k \in Link : Len(readers'[k]) <= 1 /\ (readers[k] # <<>> => readers'[k] # <<>>)
  <2>1. CASE tcp[l] = "dead" BY <2>1, <1>1 DEF State, TypeOK, Shape
  <2>2. CASE tcp[l] = "up"
    <3>1. PICK r \in Reader : Len(readers[l]) = 1 /\ readers' = [readers EXCEPT ![l] = [@ EXCEPT ![1] = r]]
      BY <2>2, TransmitFacts
    <3>2. /\ readers' \in [Link -> Seq(Reader)] /\ Len(readers'[l]) = 1 /\ readers'[l] # <<>>
          /\ \A k \in Link : k # l => readers'[k] = readers[k]
      BY <3>1, ReaderSet DEF State
    <3>3. \A k \in Link : Len(readers[k]) <= 1 BY DEF State, Shape
    <3>4. \A k \in Link : Len(readers'[k]) <= 1 BY <3>2, <3>3
    <3> QED BY <3>2, <3>4
  <2> QED BY <2>1, <2>2, <1>1
<1>4. TypeOK' BY <1>1, <1>2, <1>3 DEF State, TypeOK, dbVars, chanVars, bounds
<1>5. Shape'
  <2> SUFFICES ASSUME NEW k \in Link
               PROVE  /\ Len(readers'[k]) <= 1
                      /\ tcp'[k] = "absent" => k \in greets'
                      /\ tcp'[k] = "down" => WillConnect(k)'
    BY DEF Shape
  <2>1. tcp'[k] = "absent" => k \in greets' BY <1>1 DEF State, Shape, chanVars
  <2>2. tcp'[k] = "down" => WillConnect(k)'
    BY <1>1, <1>2 DEF State, Shape, WillConnect, chanVars
  <2> QED BY <2>1, <2>2, <1>3
<1> QED BY <1>1, <1>4, <1>5 DEF State, DisksOK, dbVars

LEMMA ConnectState ==
  ASSUME State, Overlap = FALSE, NEW l \in Link, Connect(l)
  PROVE  State'
<1> DEFINE r == [Fresh EXCEPT !.wire = Line(Head(queue[l]))]
<1>1. /\ queue[l] # <<>> /\ tcp' = [tcp EXCEPT ![l] = "up"]
      /\ \A n \in DOMAIN readers[l] : ~Busy(readers[l][n])
      /\ queue' = [queue EXCEPT ![l] = Append(Tail(queue[l]), NewServer)]
      /\ readers' = [readers EXCEPT ![l] = Append(Unfinished(readers[l]), r)]
      /\ UNCHANGED <<dbVars, chanVars, pinger, bounds>>
  BY DEF Connect
<1>2. Unfinished(readers[l]) = <<>> BY <1>1, NoOverlap
<1>3. r \in Reader BY <1>1, FreshType, QueueTypes
<1> HIDE DEF r
<1>4. Append(<<>>, r) \in Seq(Reader) /\ Append(<<>>, r) # <<>> /\ Len(Append(<<>>, r)) = 1
  BY <1>3
<1>5. readers' = [readers EXCEPT ![l] = Append(<<>>, r)] BY <1>1, <1>2
<1>6. /\ readers' \in [Link -> Seq(Reader)] /\ readers'[l] # <<>> /\ Len(readers'[l]) = 1
      /\ \A k \in Link : k # l => readers'[k] = readers[k]
  BY <1>4, <1>5 DEF State, TypeOK
<1>7. queue' \in [Link -> Seq(Message)] /\ \A k \in Link : k # l => queue'[k] = queue[k]
  BY <1>1, QueueSet, QueueTypes, MessageTypes
<1>8. TypeOK' BY <1>1, <1>6, <1>7 DEF State, TypeOK, dbVars, chanVars, bounds
<1>9. Shape'
  <2> SUFFICES ASSUME NEW k \in Link
               PROVE  /\ Len(readers'[k]) <= 1
                      /\ tcp'[k] = "absent" => k \in greets'
                      /\ tcp'[k] = "down" => WillConnect(k)'
    BY DEF Shape
  <2>1. CASE k = l
    <3>1. tcp'[k] = "up" BY <2>1, <1>1 DEF State, TypeOK
    <3> QED BY <3>1, <2>1, <1>6
  <2>2. CASE k # l
    BY <2>2, <1>1, <1>6, <1>7 DEF State, TypeOK, Shape, WillConnect, chanVars
  <2> QED BY <2>1, <2>2
<1> QED BY <1>1, <1>8, <1>9 DEF State, DisksOK, dbVars

LEMMA ConnectFailsState ==
  ASSUME State, NEW l \in Link, ConnectFails(l)
  PROVE  State'
<1>1. /\ queue[l] # <<>> /\ tcp' = [tcp EXCEPT ![l] = "down"]
      /\ queue' = [queue EXCEPT ![l] = Tail(queue[l])]
      /\ pinger' = [pinger EXCEPT ![l] = TRUE]
      /\ UNCHANGED <<dbVars, chanVars, readers>> /\ Happens(1)
  BY DEF ConnectFails
<1>2. queue' \in [Link -> Seq(Message)] /\ \A k \in Link : k # l => queue'[k] = queue[k]
  BY <1>1, QueueSet, QueueTypes
<1>3. events' \in 0..MaxEvents /\ UNCHANGED faults BY <1>1, JobSyncConstants DEF Happens, State, TypeOK
<1>4. TypeOK' BY <1>1, <1>2, <1>3 DEF State, TypeOK, dbVars, chanVars
<1>5. Shape'
  <2> SUFFICES ASSUME NEW k \in Link
               PROVE  /\ Len(readers'[k]) <= 1
                      /\ tcp'[k] = "absent" => k \in greets'
                      /\ tcp'[k] = "down" => WillConnect(k)'
    BY DEF Shape
  <2>1. CASE k = l BY <2>1, <1>1 DEF State, TypeOK, Shape, WillConnect
  <2>2. CASE k # l BY <2>2, <1>1, <1>2 DEF State, TypeOK, Shape, WillConnect, chanVars
  <2> QED BY <2>1, <2>2
<1> QED BY <1>1, <1>4, <1>5 DEF State, DisksOK, dbVars

LEMMA PingState ==
  ASSUME State, NEW l \in Link, PingQueue(l) \/ MonitorConnection(l)
  PROVE  State'
<1>1. /\ queue' = [queue EXCEPT ![l] = Append(queue[l], Ping)]
      /\ tcp' = tcp \/ tcp' = [tcp EXCEPT ![l] = "down"]
      /\ pinger' = pinger \/ pinger' = [pinger EXCEPT ![l] = FALSE]
      /\ UNCHANGED <<dbVars, chanVars, readers, bounds>>
  BY DEF PingQueue, MonitorConnection
<1>2. queue' \in [Link -> Seq(Message)] /\ queue'[l] # <<>>
      /\ \A k \in Link : k # l => queue'[k] = queue[k]
  BY <1>1, QueueSet, QueueTypes, MessageTypes
<1>3. tcp' \in [Link -> {"absent", "down", "up", "dead"}]
      /\ \A k \in Link : tcp'[k] = tcp[k] \/ (k = l /\ tcp'[k] = "down")
  BY <1>1 DEF State, TypeOK
<1>4. pinger' \in [Link -> BOOLEAN] /\ \A k \in Link : k # l => pinger'[k] = pinger[k]
  BY <1>1 DEF State, TypeOK
<1>5. TypeOK' BY <1>1, <1>2, <1>3, <1>4 DEF State, TypeOK, dbVars, chanVars, bounds
<1>6. Shape'
  <2> SUFFICES ASSUME NEW k \in Link
               PROVE  /\ Len(readers'[k]) <= 1
                      /\ tcp'[k] = "absent" => k \in greets'
                      /\ tcp'[k] = "down" => WillConnect(k)'
    BY DEF Shape
  <2>1. CASE k = l BY <2>1, <1>1, <1>2, <1>3 DEF State, Shape, WillConnect, chanVars
  <2>2. CASE k # l BY <2>2, <1>1, <1>2, <1>3, <1>4 DEF State, Shape, WillConnect, chanVars
  <2> QED BY <2>1, <2>2
<1> QED BY <1>1, <1>5, <1>6 DEF State, DisksOK, dbVars

-----------------------------------------------------------------------------
(* The receiver.                                                           *)

\* What a step of a goroutine makes of it.
LEMMA ReaderSteps ==
  ASSUME State, NEW l \in Link, NEW n \in DOMAIN readers[l], NEW r, NEW old,
         old = readers[l][n], r \in Reader,
         readers' = [readers EXCEPT ![l] = [@ EXCEPT ![n] = r]]
  PROVE  /\ readers' \in [Link -> Seq(Reader)]
         /\ readers'[l] # <<>> /\ Len(readers'[l]) = 1 /\ readers'[l][1] = r
         /\ Len(readers[l]) = 1 /\ readers[l][1] = old /\ old \in Reader
         /\ \A k \in Link : k # l => readers'[k] = readers[k]
         /\ \A k \in Link : Len(readers'[k]) <= 1 /\ (readers[k] # <<>> => readers'[k] # <<>>)
<1>1. n = 1 /\ Len(readers[l]) = 1 /\ readers[l][1] \in Reader BY OneReader DEF State
<1>2. readers' = [readers EXCEPT ![l] = [@ EXCEPT ![1] = r]] BY <1>1
<1>3. /\ readers' \in [Link -> Seq(Reader)] /\ Len(readers'[l]) = 1 /\ readers'[l] # <<>>
      /\ readers'[l][1] = r /\ \A k \in Link : k # l => readers'[k] = readers[k]
  BY <1>1, <1>2, ReaderSet DEF State
<1>4. \A k \in Link : Len(readers[k]) <= 1 BY DEF State, Shape
<1>5. \A k \in Link : Len(readers'[k]) <= 1 /\ (readers[k] # <<>> => readers'[k] # <<>>)
  BY <1>3, <1>4
<1> QED BY <1>1, <1>3, <1>5

LEMMA ReadUpdatesFacts ==
  ASSUME State, NEW l \in Link, NEW n \in DOMAIN readers[l], ReadUpdates(l, n)
  PROVE  LET old == readers[l][n]
             m == Head(old.wire)
             r == [wire |-> Tail(old.wire), clear |-> m.sync = "all", jobs |-> m.jobs]
         IN  /\ old \in Reader /\ r \in Reader /\ ~old.clear /\ old.jobs = None
             /\ old.wire # <<>> /\ m \in Message /\ m = Fju(m.sync, m.jobs)
             /\ readers' = [readers EXCEPT ![l] = [@ EXCEPT ![n] = r]]
<1> DEFINE old == readers[l][n]
           m == Head(old.wire)
           r == [wire |-> Tail(old.wire), clear |-> m.sync = "all", jobs |-> m.jobs]
<1>1. old \in Reader BY OneReader DEF State
<1>2. ~Working(old) /\ old.wire # <<>> /\ m.kind = "foreign_job_updates"
  BY DEF ReadUpdates, Reads, Received
<1>3. m \in Message /\ Tail(old.wire) \in Seq(Message \ {Ping})
  <2> HIDE DEF old
  <2> QED BY <1>1, <1>2, WireFacts
<1>4. m = Fju(m.sync, m.jobs) /\ m.jobs \in Changes
  <2> HIDE DEF m, old
  <2> QED BY <1>2, <1>3, MessageKinds
<1>5. r \in Reader BY <1>3, <1>4 DEF Reader
<1>6. ~old.clear /\ old.jobs = None BY <1>2 DEF Working
<1>7. readers' = [readers EXCEPT ![l] = [@ EXCEPT ![n] = r]] BY DEF ReadUpdates, Received
<1> QED BY <1>1, <1>2, <1>3, <1>4, <1>5, <1>6, <1>7

LEMMA RemoveForeignFacts ==
  ASSUME State, NEW l \in Link, NEW n \in DOMAIN readers[l], RemoveForeign(l, n)
  PROVE  LET old == readers[l][n]
             r == [old EXCEPT !.clear = FALSE]
         IN  /\ old \in Reader /\ r \in Reader /\ old.clear
             /\ r.wire = old.wire /\ r.jobs = old.jobs /\ ~r.clear
             /\ readers' = [readers EXCEPT ![l] = [@ EXCEPT ![n] = r]]
             /\ db' = [db EXCEPT ![l[2]][l[1]] = None]
             /\ db' \in [Server -> [Server -> Table]]
<1> DEFINE old == readers[l][n]
           r == [old EXCEPT !.clear = FALSE]
<1>1. old \in Reader BY OneReader DEF State
<1>2. old.clear /\ db' = [db EXCEPT ![l[2]][l[1]] = None]
      /\ readers' = [readers EXCEPT ![l] = [@ EXCEPT ![n] = r]]
  BY DEF RemoveForeign
<1>3. r \in Reader /\ r.wire = old.wire /\ r.jobs = old.jobs /\ ~r.clear
  <2> HIDE DEF old
  <2> QED BY <1>1 DEF Reader
<1>4. db' \in [Server -> [Server -> Table]] BY <1>2, NoneType DEF State, TypeOK
<1> QED BY <1>1, <1>2, <1>3, <1>4

LEMMA AddOrModifyFacts ==
  ASSUME State, NEW l \in Link, NEW n \in DOMAIN readers[l], AddOrModifyForeign(l, n)
  PROVE  LET old == readers[l][n]
         IN  /\ old \in Reader /\ ~old.clear
             /\ \E i \in DOMAIN old.jobs :
                  LET rest == Restrict(old.jobs, DOMAIN old.jobs \ {i})
                      r == [old EXCEPT !.jobs = rest]
                      table == Merge(db[l[2]][l[1]], One(i, old.jobs[i]))
                  IN  /\ r \in Reader /\ r.wire = old.wire /\ r.jobs = rest /\ ~r.clear
                      /\ readers' = [readers EXCEPT ![l] = [@ EXCEPT ![n] = r]]
                      /\ db' = [db EXCEPT ![l[2]][l[1]] = table]
                      /\ db' \in [Server -> [Server -> Table]]
                      /\ Merge(table, rest) = Merge(db[l[2]][l[1]], old.jobs)
<1> DEFINE old == readers[l][n]
<1>1. old \in Reader /\ ~old.clear BY OneReader DEF State, AddOrModifyForeign
<1>2. PICK i \in DOMAIN old.jobs :
        /\ db' = [db EXCEPT ![l[2]][l[1]] = Merge(db[l[2]][l[1]], One(i, old.jobs[i]))]
        /\ readers' = [readers EXCEPT ![l] = [@ EXCEPT ![n] =
             [old EXCEPT !.jobs = Restrict(old.jobs, DOMAIN old.jobs \ {i})]]]
  BY DEF AddOrModifyForeign
<1> DEFINE rest == Restrict(old.jobs, DOMAIN old.jobs \ {i})
           r == [old EXCEPT !.jobs = rest]
           t == db[l[2]][l[1]]
           table == Merge(t, One(i, old.jobs[i]))
<1>3. t \in Table BY LinkFacts DEF State, TypeOK
<1>4. old.jobs \in Changes
  <2> HIDE DEF old
  <2> QED BY <1>1 DEF Reader
<1>5. IsCopy(t) /\ IsEdit(old.jobs) /\ DOMAIN old.jobs \subseteq 1..MaxID
  <2> HIDE DEF old, t
  <2> QED BY <1>3, <1>4, TableIsCopy, ChangesAreEdit
<1>6. IsEdit(rest) /\ Merge(table, rest) = Merge(t, old.jobs)
  <2> DEFINE jobs == old.jobs
  <2> HIDE DEF old, t
  <2>1. IsEdit(jobs) /\ i \in DOMAIN jobs /\ IsCopy(t) BY <1>2, <1>5
  <2> HIDE DEF jobs
  <2>2. IsEdit(Restrict(jobs, DOMAIN jobs \ {i})) /\
        Merge(Merge(t, One(i, jobs[i])), Restrict(jobs, DOMAIN jobs \ {i})) = Merge(t, jobs)
    BY <2>1, MergeStep
  <2> QED BY <2>2 DEF jobs
<1>7. rest \in Changes
  <2>1. DOMAIN rest \subseteq 1..MaxID BY <1>5 DEF Restrict
  <2> HIDE DEF rest
  <2> QED BY <1>6, <2>1, ChangesAreEdit
<1>8. r \in Reader /\ r.wire = old.wire /\ r.jobs = rest /\ ~r.clear
  <2> HIDE DEF old, rest
  <2> QED BY <1>1, <1>7 DEF Reader
<1>9. table \in Table
  <2>1. i \in 1..MaxID /\ old.jobs[i] \in Job \cup {Done} BY <1>2, <1>5 DEF IsEdit
  <2>2. One(i, old.jobs[i]) \in Changes BY <2>1, OneType
  <2> HIDE DEF old, t
  <2> QED BY <1>3, <2>2, MergedType
<1>10. db' \in [Server -> [Server -> Table]]
  <2> HIDE DEF table
  <2>1. db' = [db EXCEPT ![l[2]][l[1]] = table] BY <1>2 DEF table
  <2> QED BY <1>9, <2>1 DEF State, TypeOK
<1> QED BY <1>1, <1>2, <1>6, <1>8, <1>10

\* Whatever a goroutine of the receiver reads, the rest of the state is typed.
LEMMA ReaderState ==
  ASSUME State, NEW l \in Link, NEW n \in DOMAIN readers[l], NEW r \in Reader,
         readers' = [readers EXCEPT ![l] = [@ EXCEPT ![n] = r]],
         db' \in [Server -> [Server -> Table]], updates' \in [Server -> Seq(Entry)],
         syncs' \in [Link -> Nat], confirms' \in [Link -> Nat],
         tcp' = tcp \/ tcp' = Known(Back(l)),
         UNCHANGED <<disk, nextID, greets, queue, pinger, bounds>>
  PROVE  State'
<1>1. /\ readers' \in [Link -> Seq(Reader)]
      /\ \A k \in Link : Len(readers'[k]) <= 1 /\ (readers[k] # <<>> => readers'[k] # <<>>)
  BY ReaderSteps
<1>2. /\ tcp' \in [Link -> {"absent", "down", "up", "dead"}]
      /\ \A k \in Link : tcp'[k] = tcp[k] \/ (tcp[k] = "absent" /\ tcp'[k] = "down")
  <2>1. CASE tcp' = tcp BY <2>1 DEF State, TypeOK
  <2>2. CASE tcp' = Known(Back(l)) BY <2>2, LinkFacts, KnownFacts
  <2> QED BY <2>1, <2>2
<1>3. TypeOK' BY <1>1, <1>2 DEF State, TypeOK, bounds
<1>4. Shape'
  <2> SUFFICES ASSUME NEW k \in Link
               PROVE  /\ Len(readers'[k]) <= 1
                      /\ tcp'[k] = "absent" => k \in greets'
                      /\ tcp'[k] = "down" => WillConnect(k)'
    BY DEF Shape
  <2> QED BY <1>1, <1>2, ShapeKept
<1> QED BY <1>3, <1>4 DEF State, DisksOK

LEMMA ReadUpdatesState ==
  ASSUME State, NEW l \in Link, NEW n \in DOMAIN readers[l], ReadUpdates(l, n)
  PROVE  State'
<1>1. UNCHANGED <<dbVars, chanVars, queue, tcp, pinger, bounds>> BY DEF ReadUpdates
<1> DEFINE old == readers[l][n]
           m == Head(old.wire)
           r == [wire |-> Tail(old.wire), clear |-> m.sync = "all", jobs |-> m.jobs]
<1>2. r \in Reader /\ readers' = [readers EXCEPT ![l] = [@ EXCEPT ![n] = r]]
  BY ReadUpdatesFacts
<1> HIDE DEF r
<1> QED BY <1>1, <1>2, ReaderState DEF State, TypeOK, dbVars, chanVars

LEMMA RemoveForeignState ==
  ASSUME State, NEW l \in Link, NEW n \in DOMAIN readers[l], RemoveForeign(l, n)
  PROVE  State'
<1>1. UNCHANGED <<disk, nextID, chanVars, queue, tcp, pinger, bounds>> BY DEF RemoveForeign
<1> DEFINE r == [readers[l][n] EXCEPT !.clear = FALSE]
<1>2. r \in Reader /\ readers' = [readers EXCEPT ![l] = [@ EXCEPT ![n] = r]]
  BY RemoveForeignFacts
<1> HIDE DEF r
<1>3. db' \in [Server -> [Server -> Table]] BY RemoveForeignFacts
<1> QED BY <1>1, <1>2, <1>3, ReaderState DEF State, TypeOK, chanVars

LEMMA AddOrModifyState ==
  ASSUME State, NEW l \in Link, NEW n \in DOMAIN readers[l], AddOrModifyForeign(l, n)
  PROVE  State'
<1>1. UNCHANGED <<disk, nextID, chanVars, queue, tcp, pinger, bounds>> BY DEF AddOrModifyForeign
<1>2. PICK r \in Reader : /\ readers' = [readers EXCEPT ![l] = [@ EXCEPT ![n] = r]]
                          /\ db' \in [Server -> [Server -> Table]]
  <2> DEFINE old == readers[l][n]
  <2>1. PICK i \in DOMAIN old.jobs :
     LET rest == Restrict(old.jobs, DOMAIN old.jobs \ {i})
         r == [old EXCEPT !.jobs = rest]
         table == Merge(db[l[2]][l[1]], One(i, old.jobs[i]))
     IN  /\ r \in Reader
         /\ readers' = [readers EXCEPT ![l] = [@ EXCEPT ![n] = r]]
         /\ db' = [db EXCEPT ![l[2]][l[1]] = table]
         /\ db' \in [Server -> [Server -> Table]]
    BY AddOrModifyFacts
  <2> QED BY <2>1
<1> QED BY <1>1, <1>2, ReaderState DEF State, TypeOK, chanVars

\* A goroutine has read the first line of its connection.
LEMMA ConsumeFacts ==
  ASSUME State, NEW l \in Link, NEW n \in DOMAIN readers[l], Reads(l, n), Consume(l, n)
  PROVE  LET old == readers[l][n]
             r == [old EXCEPT !.wire = Tail(old.wire)]
         IN  /\ n = 1 /\ old \in Reader /\ r \in Reader /\ old.wire # <<>>
             /\ Ongoing(r) = Ongoing(old) /\ r.wire = Tail(old.wire)
             /\ ~old.clear /\ old.jobs = None
             /\ Received(l, n) = Head(old.wire) /\ Head(old.wire) \in Message
             /\ readers' = [readers EXCEPT ![l] = [@ EXCEPT ![n] = r]]
<1> DEFINE old == readers[l][n]
           r == [old EXCEPT !.wire = Tail(old.wire)]
<1>1. n = 1 /\ old \in Reader BY OneReader DEF State
<1>2. ~Working(old) /\ old.wire # <<>> BY DEF Reads
<1>3. Head(old.wire) \in Message /\ Tail(old.wire) \in Seq(Message \ {Ping})
  <2> HIDE DEF old
  <2> QED BY <1>1, <1>2, WireFacts
<1>4. r \in Reader /\ Ongoing(r) = Ongoing(old) /\ r.wire = Tail(old.wire)
  <2> HIDE DEF old
  <2> QED BY <1>1, <1>3, WireSet
<1>5. readers' = [readers EXCEPT ![l] = [@ EXCEPT ![n] = r]] BY DEF Consume
<1>6. ~old.clear /\ old.jobs = None BY <1>2 DEF Working
<1> QED BY <1>1, <1>2, <1>3, <1>4, <1>5, <1>6 DEF Received

LEMMA ReadRequestFacts ==
  ASSUME State, NEW l \in Link, NEW n \in DOMAIN readers[l], ReadRequest(l, n)
  PROVE  \/ \E jobs \in Changes : Edit(l[2], jobs)
         \/ UNCHANGED <<db, updates>>
<1>1. Reads(l, n) /\ Consume(l, n) /\ Received(l, n).kind = "request" BY DEF ReadRequest
<1>2. Received(l, n) \in Message BY <1>1, ConsumeFacts
<1> DEFINE m == Received(l, n)
<1>3. m.id \in 1..MaxID /\ m.job \in Job \cup {Done}
  <2> HIDE DEF m
  <2>1. m \in Message /\ m.kind = "request" BY <1>1, <1>2 DEF m
  <2> QED BY <2>1, MessageKinds
<1>4. One(m.id, m.job) \in Changes BY <1>3, OneType
<1> QED BY <1>4 DEF ReadRequest

LEMMA ReadRequestState ==
  ASSUME State, NEW l \in Link, NEW n \in DOMAIN readers[l], ReadRequest(l, n)
  PROVE  State'
<1>1. /\ UNCHANGED <<disk, nextID, syncs, greets, confirms, queue, pinger, bounds>>
      /\ tcp' = Known(Back(l)) /\ Reads(l, n) /\ Consume(l, n)
  BY DEF ReadRequest
<1>2. db' \in [Server -> [Server -> Table]] /\ updates' \in [Server -> Seq(Entry)]
  <2>1. CASE UNCHANGED <<db, updates>> BY <2>1 DEF State, TypeOK
  <2>2. CASE \E jobs \in Changes : Edit(l[2], jobs)
    BY <2>2, EditFacts, LinkFacts DEF State
  <2> QED BY <2>1, <2>2, ReadRequestFacts
<1> DEFINE r == [readers[l][n] EXCEPT !.wire = Tail(readers[l][n].wire)]
<1>3. r \in Reader /\ readers' = [readers EXCEPT ![l] = [@ EXCEPT ![n] = r]]
  BY <1>1, ConsumeFacts
<1> HIDE DEF r
<1> QED BY <1>1, <1>2, <1>3, ReaderState DEF State, TypeOK

LEMMA ReadNewServerState ==
  ASSUME State, NEW l \in Link, NEW n \in DOMAIN readers[l], ReadNewServer(l, n)
  PROVE  State'
<1>1. /\ UNCHANGED <<dbVars, updates, syncs, greets, queue, pinger, bounds>>
      /\ tcp' = Known(Back(l)) /\ Reads(l, n) /\ Consume(l, n)
      /\ confirms' = [confirms EXCEPT ![Back(l)] = @ + 1]
  BY DEF ReadNewServer
<1>2. confirms' \in [Link -> Nat]
  <2>1. confirms \in [Link -> Nat] /\ Back(l) \in Link BY LinkFacts DEF State, TypeOK
  <2> QED BY <1>1, <2>1
<1> DEFINE r == [readers[l][n] EXCEPT !.wire = Tail(readers[l][n].wire)]
<1>3. r \in Reader /\ readers' = [readers EXCEPT ![l] = [@ EXCEPT ![n] = r]]
  BY <1>1, ConsumeFacts
<1> HIDE DEF r
<1> QED BY <1>1, <1>2, <1>3, ReaderState DEF State, TypeOK, dbVars

LEMMA ReadConfirmationState ==
  ASSUME State, NEW l \in Link, NEW n \in DOMAIN readers[l], ReadConfirmation(l, n)
  PROVE  State'
<1>1. /\ UNCHANGED <<dbVars, updates, greets, confirms, queue, pinger, bounds>>
      /\ tcp' = Known(Back(l)) /\ Reads(l, n) /\ Consume(l, n)
      /\ syncs' = [syncs EXCEPT ![Back(l)] = @ + 1]
  BY DEF ReadConfirmation
<1>2. syncs' \in [Link -> Nat]
  <2>1. syncs \in [Link -> Nat] /\ Back(l) \in Link BY LinkFacts DEF State, TypeOK
  <2> QED BY <1>1, <2>1
<1> DEFINE r == [readers[l][n] EXCEPT !.wire = Tail(readers[l][n].wire)]
<1>3. r \in Reader /\ readers' = [readers EXCEPT ![l] = [@ EXCEPT ![n] = r]]
  BY <1>1, ConsumeFacts
<1> HIDE DEF r
<1> QED BY <1>1, <1>2, <1>3, ReaderState DEF State, TypeOK, dbVars

LEMMA BreakState ==
  ASSUME State, NEW l \in Link, Break(l)
  PROVE  State'
<1>1. /\ tcp' = [tcp EXCEPT ![l] = "dead"] /\ Happens(1)
      /\ UNCHANGED <<dbVars, chanVars, queue, pinger, readers>>
  BY DEF Break
<1>2. events' \in 0..MaxEvents /\ UNCHANGED faults BY <1>1, JobSyncConstants DEF Happens, State, TypeOK
<1>3. TypeOK' BY <1>1, <1>2 DEF State, TypeOK, dbVars, chanVars
<1>4. Shape' BY <1>1 DEF State, TypeOK, Shape, WillConnect, chanVars
<1> QED BY <1>1, <1>3, <1>4 DEF State, DisksOK, dbVars

LEMMA LoseFacts ==
  ASSUME State, NEW l \in Link, Lose(l)
  PROVE  /\ tcp[l] # "up" /\ Len(readers[l]) = 1
         /\ LET r == [readers[l][1] EXCEPT !.wire = Front(readers[l][1].wire)]
            IN  r \in Reader /\ readers' = [readers EXCEPT ![l] = [@ EXCEPT ![1] = r]]
         /\ UNCHANGED <<dbVars, chanVars, queue, tcp, pinger, bounds>>
<1>1. PICK n \in DOMAIN readers[l] :
       /\ n = Len(readers[l]) => tcp[l] # "up"
       /\ readers[l][n].wire # <<>>
       /\ readers' = [readers EXCEPT ![l][n].wire = Front(@)]
  BY DEF Lose
<1>2. n = 1 /\ Len(readers[l]) = 1 /\ readers[l][1] \in Reader BY OneReader DEF State
<1> DEFINE old == readers[l][1]
           r == [old EXCEPT !.wire = Front(old.wire)]
<1>3. old \in Reader /\ old.wire # <<>> BY <1>1, <1>2
<1>4. r \in Reader
  <2> HIDE DEF old
  <2> QED BY <1>3, WireFacts, WireSet
<1>5. readers' = [readers EXCEPT ![l] = [@ EXCEPT ![1] = r]]
  <2>1. readers' = [readers EXCEPT ![l][1].wire = Front(@)] BY <1>1, <1>2
  <2> QED BY <2>1
<1> QED BY <1>1, <1>2, <1>4, <1>5 DEF Lose

LEMMA LoseState ==
  ASSUME State, NEW l \in Link, Lose(l)
  PROVE  State'
<1>1. 1 \in DOMAIN readers[l] BY LoseFacts, OneReader DEF State
<1> DEFINE r == [readers[l][1] EXCEPT !.wire = Front(readers[l][1].wire)]
<1>2. r \in Reader /\ readers' = [readers EXCEPT ![l] = [@ EXCEPT ![1] = r]] BY LoseFacts
<1> HIDE DEF r
<1>3. UNCHANGED <<dbVars, chanVars, queue, tcp, pinger, bounds>> BY LoseFacts
<1> QED BY <1>1, <1>2, <1>3, ReaderState DEF State, TypeOK, dbVars, chanVars

-----------------------------------------------------------------------------
(* Restarts and the initial state; every step keeps it.                    *)

LEMMA FreeIds ==
  /\ FirstFreeId(None) \in 1..(MaxID + 1)
  /\ \A job : FirstFreeId(One(1, job)) \in 1..(MaxID + 1)
<1>1. MaxID \in Nat \ {0} BY JobSyncConstants
<1>2. FirstFreeId(None) = 1
  <2>1. DOMAIN None \cup {0} = {0} /\ DOMAIN None = {} BY NoneIsCopy
  <2> DEFINE c == CHOOSE i \in DOMAIN None \cup {0} : \A j \in DOMAIN None : j <= i
  <2>2. c \in DOMAIN None \cup {0} BY <2>1
  <2>3. c = 0
    <3> HIDE DEF c
    <3> QED BY <2>1, <2>2
  <2>4. FirstFreeId(None) = 1 + c BY DEF FirstFreeId
  <2> HIDE DEF c
  <2> QED BY <2>3, <2>4
<1>3. ASSUME NEW job PROVE FirstFreeId(One(1, job)) = 2
  <2>1. DOMAIN One(1, job) = {1} BY OneEdit
  <2> DEFINE P(i) == i \in DOMAIN One(1, job) \cup {0} /\ \A j \in DOMAIN One(1, job) : j <= i
             c == CHOOSE i \in DOMAIN One(1, job) \cup {0} : \A j \in DOMAIN One(1, job) : j <= i
  <2>2. P(1) BY <2>1
  <2>3. P(c)
    <3>1. \E i \in DOMAIN One(1, job) \cup {0} : \A j \in DOMAIN One(1, job) : j <= i BY <2>2
    <3> QED BY <3>1
  <2>4. FirstFreeId(One(1, job)) = 1 + c BY DEF FirstFreeId
  <2> HIDE DEF c
  <2>5. c = 1 BY <2>1, <2>3
  <2> QED BY <2>4, <2>5
<1>4. 1 \in 1..(MaxID + 1) /\ 2 \in 1..(MaxID + 1) BY <1>1
<1> QED BY <1>2, <1>3, <1>4

LEMMA RestartState ==
  ASSUME State, NEW s \in Server, Restart(s)
  PROVE  State'
<1>1. /\ db' = [db EXCEPT ![s] = [t \in Server |-> IF t = s THEN disk[s] ELSE None]]
      /\ nextID' = [nextID EXCEPT ![s] = FirstFreeId(disk[s])]
      /\ updates' = [updates EXCEPT ![s] = <<>>]
      /\ syncs' = [l \in Link |-> IF l[1] = s THEN 0 ELSE syncs[l]]
      /\ confirms' = [l \in Link |-> IF l[1] = s THEN 0 ELSE confirms[l]]
      /\ greets' = greets \cup {l \in Link : l[1] = s}
      /\ queue' = [l \in Link |-> IF l[1] = s THEN <<>> ELSE queue[l]]
      /\ pinger' = [l \in Link |-> l[1] # s /\ pinger[l]]
      /\ tcp' = [l \in Link |-> IF l[1] = s THEN "absent"
                                ELSE IF l[2] = s /\ tcp[l] = "up" THEN "dead" ELSE tcp[l]]
      /\ readers' = [l \in Link |-> IF l[2] = s THEN <<>> ELSE readers[l]]
      /\ disk' = disk /\ Happens(events)
  BY DEF Restart
<1> USE DEF State, TypeOK
<1>2. events' \in 0..MaxEvents /\ UNCHANGED faults
  <2>1. events \in 0..MaxEvents /\ events' = events - events /\ UNCHANGED faults BY <1>1 DEF Happens
  <2> QED BY <2>1, JobSyncConstants
<1>3. db' \in [Server -> [Server -> Table]]
  <2>1. [t \in Server |-> IF t = s THEN disk[s] ELSE None] \in [Server -> Table] BY NoneType
  <2> QED BY <1>1, <2>1
<1>4. nextID' \in [Server -> 1..(MaxID + 1)] BY <1>1 DEF DisksOK
<1>5. /\ updates' \in [Server -> Seq(Entry)] /\ syncs' \in [Link -> Nat]
      /\ confirms' \in [Link -> Nat] /\ greets' \subseteq Link
  <2>1. <<>> \in Seq(Entry) OBVIOUS
  <2> QED BY <1>1, <2>1
<1>6. queue' \in [Link -> Seq(Message)] /\ pinger' \in [Link -> BOOLEAN]
  <2>1. <<>> \in Seq(Message) OBVIOUS
  <2>2. \A l \in Link : (l[1] # s /\ pinger[l]) \in BOOLEAN OBVIOUS
  <2> QED BY <1>1, <2>1, <2>2
<1>7. tcp' \in [Link -> {"absent", "down", "up", "dead"}] BY <1>1
<1>8. readers' \in [Link -> Seq(Reader)]
  <2>1. <<>> \in Seq(Reader) OBVIOUS
  <2> QED BY <1>1, <2>1
<1>9. \A l \in Link : tcp'[l] = "up" => readers'[l] # <<>>
  <2> SUFFICES ASSUME NEW l \in Link, tcp'[l] = "up" PROVE readers'[l] # <<>> OBVIOUS
  <2>1. l[1] # s /\ l[2] # s /\ tcp[l] = "up" BY <1>1
  <2> QED BY <1>1, <2>1
<1>10. TypeOK' BY <1>1, <1>2, <1>3, <1>4, <1>5, <1>6, <1>7, <1>8, <1>9
<1>11. Shape'
  <2> SUFFICES ASSUME NEW l \in Link
               PROVE  /\ Len(readers'[l]) <= 1
                      /\ tcp'[l] = "absent" => l \in greets'
                      /\ tcp'[l] = "down" => WillConnect(l)'
    BY DEF Shape
  <2>1. Len(readers'[l]) <= 1
    <3>1. Len(<<>>) = 0 OBVIOUS
    <3>2. Len(readers[l]) <= 1 BY DEF Shape
    <3> QED BY <1>1, <3>1, <3>2
  <2>2. CASE l[1] = s BY <1>1, <2>1, <2>2
  <2>3. CASE l[1] # s
    <3>1. /\ tcp'[l] = tcp[l] \/ tcp'[l] = "dead"
          /\ queue'[l] = queue[l] /\ pinger'[l] = pinger[l] /\ (l \in greets => l \in greets')
      BY <1>1, <2>3
    <3> QED BY <2>1, <3>1 DEF Shape, WillConnect
  <2> QED BY <2>2, <2>3
<1>12. DisksOK' BY <1>1 DEF DisksOK
<1> QED BY <1>10, <1>11, <1>12

LEMMA InitState ==
  ASSUME Init
  PROVE  /\ State
         /\ \A s \in Server, t \in Server : db[s][t] = db[t][t]
<1>1. PICK job \in [Owner -> {j \in Job : j.status = "waiting"}] :
       LET jobs == [s \in Server |-> IF s \in Owner THEN One(1, job[s]) ELSE None]
       IN  /\ db = [s \in Server |-> jobs]
           /\ disk = jobs
           /\ nextID = [s \in Server |-> FirstFreeId(jobs[s])]
  BY DEF Init
<1> DEFINE jobs == [s \in Server |-> IF s \in Owner THEN One(1, job[s]) ELSE None]
<1>2. \A s \in Server : jobs[s] \in Table /\ FirstFreeId(jobs[s]) \in 1..(MaxID + 1)
  <2> SUFFICES ASSUME NEW s \in Server
               PROVE  jobs[s] \in Table /\ FirstFreeId(jobs[s]) \in 1..(MaxID + 1)
    OBVIOUS
  <2>1. CASE s \in Owner
    <3>1. job[s] \in Job BY <2>1
    <3>2. jobs[s] = One(1, job[s]) BY <2>1
    <3>3. 1 \in 1..MaxID BY JobSyncConstants
    <3>4. IsCopy(One(1, job[s])) /\ DOMAIN One(1, job[s]) \subseteq 1..MaxID
      BY <3>1, <3>3 DEF IsCopy, IsFcn, One
    <3> HIDE DEF jobs
    <3> QED BY <3>2, <3>4, FreeIds, TableIsCopy
  <2>2. CASE s \notin Owner
    <3>1. jobs[s] = None BY <2>2
    <3> HIDE DEF jobs
    <3> QED BY <3>1, FreeIds, NoneType
  <2> QED BY <2>1, <2>2
<1>3. db = [s \in Server |-> jobs] /\ disk = jobs /\ nextID = [s \in Server |-> FirstFreeId(jobs[s])]
  BY <1>1
<1>4. jobs = [s \in Server |-> jobs[s]] OBVIOUS
<1> HIDE DEF jobs
<1>5. jobs \in [Server -> Table] BY <1>2, <1>4
<1>6. DisksOK BY <1>2, <1>3 DEF DisksOK
<1>7. Fresh \in Reader /\ <<Fresh>> \in Seq(Reader) /\ Len(<<Fresh>>) = 1 /\ <<Fresh>> # <<>>
  <2>1. <<>> \in Seq(Message \ {Ping}) OBVIOUS
  <2>2. Fresh \in Reader BY <2>1, NoneType DEF Fresh, Reader
  <2> QED BY <2>2
<1>8. /\ <<>> \in Seq(Entry) /\ <<>> \in Seq(Message) /\ 0 \in Nat /\ MaxEvents \in 0..MaxEvents
  BY JobSyncConstants
<1>9. /\ updates = [s \in Server |-> <<>>] /\ syncs = [l \in Link |-> 0]
      /\ greets = {} /\ confirms = [l \in Link |-> 0] /\ queue = [l \in Link |-> <<>>]
      /\ tcp = [l \in Link |-> "up"] /\ pinger = [l \in Link |-> FALSE]
      /\ readers = [l \in Link |-> <<Fresh>>] /\ faults \in FaultSets /\ events = MaxEvents
  BY DEF Init
<1>10. TypeOK BY <1>2, <1>3, <1>5, <1>7, <1>8, <1>9 DEF TypeOK
<1>11. Shape BY <1>7, <1>9 DEF Shape
<1>12. \A s \in Server, t \in Server : db[s][t] = db[t][t] BY <1>3
<1> QED BY <1>6, <1>10, <1>11, <1>12 DEF State

LEMMA StateKept ==
  ASSUME Overlap = FALSE, State, [Next]_vars
  PROVE  State'
<1>1. CASE UNCHANGED vars
  BY <1>1 DEF vars, dbVars, chanVars, connVars, bounds, State, TypeOK, Shape, DisksOK, WillConnect
<1>2. ASSUME NEW s \in Server, JobAddLocal(s) \/ JobsModifyLocal(s) \/ JobsRemoveLocal(s)
                               \/ DistributeForeignJobUpdates(s) \/ Restart(s)
      PROVE  State'
  BY <1>2, EditState, DistributeState, RestartState
<1>3. ASSUME NEW l \in Link, Forward(l) \/ SyncAll(l) \/ BroadcastNewServer(l)
                     \/ ConfirmNewServer(l) \/ Send(l) \/ ConnectFails(l) \/ PingQueue(l)
                     \/ MonitorConnection(l) \/ Break(l) \/ Lose(l)
      PROVE  State'
  BY <1>3, ForwardState, SyncAllState, BroadcastState, ConfirmState, TransmitState, ConnectState,
     ConnectFailsState, PingState, BreakState, LoseState DEF Send
<1>4. ASSUME NEW l \in Link, Receive(l) PROVE State'
  <2>1. PICK n \in DOMAIN readers[l] : Process(l, n) BY <1>4 DEF Receive
  <2> QED BY <2>1, ReadUpdatesState, RemoveForeignState, AddOrModifyState, ReadRequestState,
             ReadNewServerState, ReadConfirmationState DEF Process
<1>5. CASE Next BY <1>2, <1>3, <1>4, <1>5 DEF Next
<1> QED BY <1>1, <1>5

-----------------------------------------------------------------------------
(* What a step does to a link.                                             *)

InStep(l) == Outcome(l) = db[l[1]][l[1]] \/ RepairBegun(l)

Carries(l, m) == WillGreet(l, m) => WillGreet(l, m)'
Connects(l) == WillConnect(l) => WillConnect(l)'
Counts(l) == confirms[l] > 0 => confirms'[l] > 0
Delivers(l) ==
  /\ Outcome(l) = db[l[1]][l[1]] => (Outcome(l) = db[l[1]][l[1]])'
  /\ syncs[l] > 0 => syncs'[l] > 0

\* Nothing is lost along a link.
Upheld(l) == Counts(l) /\ \A m \in Greetings : Carries(l, m)

Still(l) ==
  /\ UNCHANGED <<readers[l], queue[l], updates[l[1]], db[l[2]][l[1]], db[l[1]][l[1]]>>
  /\ UNCHANGED <<syncs[l], confirms[l]>>
  /\ Connects(l)

LEMMA Kept ==
  ASSUME NEW l \in Link, InStep(l), Upheld(l), Upheld(Back(l)), Delivers(l)
  PROVE  InStep(l)'
BY DEF InStep, Upheld, Delivers, RepairBegun, Counts, Carries, Greetings

LEMMA StillFacts ==
  ASSUME NEW l \in Link, Still(l)
  PROVE  Upheld(l) /\ Delivers(l) /\ Pipeline(l)' = Pipeline(l)
<1>1. Pipeline(l)' = Pipeline(l) BY DEF Still, Pipeline
<1>2. Outcome(l)' = Outcome(l) BY <1>1 DEF Still, Outcome
<1>3. Delivers(l) BY <1>2 DEF Still, Delivers
<1>4. Upheld(l) BY <1>1 DEF Still, Upheld, Counts, Carries, WillGreet, Connects
<1> QED BY <1>1, <1>3, <1>4

LEMMA WillConnectRepairs ==
  ASSUME NEW l \in Link, WillConnect(l) \/ Contains(Pipeline(l), NewServer)
  PROVE  RepairBegun(l) /\ RepairBegun(Back(l))
<1>1. Back(Back(l)) = l BY LinkFacts
<1> QED BY <1>1 DEF RepairBegun, WillGreet

LEMMA AlikeKeeps ==
  ASSUME NEW l \in Link, Alike(Pipeline(l), Pipeline(l)'),
         db'[l[2]][l[1]] = db[l[2]][l[1]], db'[l[1]][l[1]] = db[l[1]][l[1]],
         Counts(l), Connects(l), syncs[l] > 0 => syncs'[l] > 0
  PROVE  Upheld(l) /\ Delivers(l)
<1>1. Outcome(l)' = Outcome(l) BY DEF Outcome, Alike
<1>2. Delivers(l) BY <1>1 DEF Delivers
<1>3. Upheld(l) BY DEF Upheld, Carries, WillGreet, Connects, Alike
<1> QED BY <1>2, <1>3

\* A step about one peer.
LEMMA Others ==
  ASSUME LossIsRepaired, NEW k \in Link,
         \A l \in Link \ {k, Back(k)} : Still(l),
         InStep(k)', InStep(Back(k))'
  PROVE  LossIsRepaired'
<1> SUFFICES ASSUME NEW l \in Link PROVE InStep(l)'
  BY DEF LossIsRepaired, InStep
<1>1. CASE l \in {k, Back(k)} BY <1>1
<1>2. CASE l \notin {k, Back(k)}
  <2>1. Back(l) \in Link /\ Back(l) \notin {k, Back(k)} BY <1>2, LinkFacts
  <2>2. InStep(l) BY DEF LossIsRepaired, InStep
  <2>3. Upheld(l) /\ Delivers(l) BY <1>2, StillFacts
  <2>4. Upheld(Back(l)) BY <2>1, StillFacts
  <2> QED BY <2>2, <2>3, <2>4, Kept
<1> QED BY <1>1, <1>2

LEMMA OneAlong ==
  ASSUME LossIsRepaired, NEW k \in Link,
         \A l \in Link \ {k} : Still(l), Upheld(k), Delivers(k)
  PROVE  LossIsRepaired'
<1>1. Back(k) \in Link /\ Back(k) # k /\ Back(Back(k)) = k BY LinkFacts
<1>2. InStep(k) /\ InStep(Back(k)) BY <1>1 DEF LossIsRepaired, InStep
<1>3. Upheld(Back(k)) /\ Delivers(Back(k)) BY <1>1, StillFacts
<1>4. InStep(k)' BY <1>2, <1>3, Kept
<1>5. InStep(Back(k))' BY <1>1, <1>2, <1>3, Kept
<1> QED BY <1>4, <1>5, Others

LEMMA RepairsBoth ==
  ASSUME LossIsRepaired, NEW k \in Link,
         \A l \in Link \ {k, Back(k)} : Still(l),
         WillConnect(k)' \/ Contains(Pipeline(k), NewServer)'
  PROVE  LossIsRepaired'
<1>1. RepairBegun(k)' /\ RepairBegun(Back(k))'
  <2>1. Back(Back(k)) = k BY LinkFacts
  <2> QED BY <2>1 DEF RepairBegun, WillGreet
<1>2. InStep(k)' /\ InStep(Back(k))' BY <1>1 DEF InStep
<1> QED BY <1>2, Others

-----------------------------------------------------------------------------
(* Edits and requests.                                                     *)

LEMMA PipelineTypes ==
  ASSUME State, NEW l \in Link
  PROVE  /\ Wires(readers[l]) \in Seq(Message) /\ queue[l] \in Seq(Message)
         /\ updates[l[1]] \in Seq(Entry) /\ Chan(l, updates[l[1]]) \in Seq(Message)
         /\ Pipeline(l) = (Wires(readers[l]) \o queue[l]) \o Chan(l, updates[l[1]])
         /\ Pipeline(l) \in Seq(Message)
<1>1. readers[l] \in Seq(Reader) /\ Len(readers[l]) <= 1 BY DEF State, TypeOK, Shape
<1>2. queue[l] \in Seq(Message) BY DEF State, TypeOK
<1>3. updates[l[1]] \in Seq(Entry) BY LinkFacts DEF State, TypeOK
<1>4. Wires(readers[l]) \in Seq(Message) BY <1>1, WiresType
<1>5. Chan(l, updates[l[1]]) \in Seq(Message) BY <1>3, ChanType
<1>6. Pipeline(l) = (Wires(readers[l]) \o queue[l]) \o Chan(l, updates[l[1]]) BY PipelineParts
<1>7. Pipeline(l) \in Seq(Message) BY <1>2, <1>4, <1>5, <1>6, ConcatProperties
<1> QED BY <1>2, <1>3, <1>4, <1>5, <1>6, <1>7

LEMMA PipelinePrime ==
  ASSUME NEW l
  PROVE  Pipeline(l)' = (Wires(readers'[l]) \o queue'[l]) \o Chan(l, updates'[l[1]])
BY DEF Pipeline, Wires, Chan

LEMMA Appended ==
  ASSUME NEW p \in Seq(Message), NEW x \in Message
  PROVE  /\ \A t : After(t, Append(p, x)) = InOrder(After(t, p), x)
         /\ \A m : Contains(p, m) => Contains(Append(p, x), m)
<1>1. ASSUME NEW t PROVE After(t, Append(p, x)) = InOrder(After(t, p), x)
  BY AfterAppend
<1>2. ASSUME NEW m PROVE Contains(p, m) => Contains(Append(p, x), m) BY ContainsAppend
<1> QED BY <1>1, <1>2

\* Another entry for the channel.
LEMMA Announced ==
  ASSUME State, NEW l \in Link, NEW u \in Entry,
         updates' = [updates EXCEPT ![l[1]] = Append(@, u)],
         readers'[l] = readers[l], queue'[l] = queue[l]
  PROVE  /\ Pipeline(l)' = Append(Pipeline(l), Along(l, u))
         /\ \A t : After(t, Pipeline(l)') = InOrder(After(t, Pipeline(l)), Along(l, u))
         /\ \A m : Contains(Pipeline(l), m) => Contains(Pipeline(l)', m)
<1> DEFINE a == Wires(readers[l]) \o queue[l]
           c == Chan(l, updates[l[1]])
           x == Along(l, u)
           p == Pipeline(l)
<1>1. updates'[l[1]] = Append(updates[l[1]], u) BY LinkFacts DEF State, TypeOK
<1>2. Chan(l, updates'[l[1]]) = Append(c, x) BY <1>1, PipelineTypes, ChanAppend
<1>3. a \in Seq(Message) /\ c \in Seq(Message) /\ p = a \o c /\ p \in Seq(Message)
  BY PipelineTypes, ConcatProperties
<1>4. x \in Message BY AlongType
<1>5. Pipeline(l)' = a \o Append(c, x) BY <1>2, PipelinePrime
<1> HIDE DEF a, c, x, p
<1>6. a \o Append(c, x) = Append(p, x)
  <2> DEFINE one == <<x>>
  <2>1. one \in Seq(Message) /\ Append(c, x) = c \o one /\ Append(p, x) = p \o one
    BY <1>3, <1>4, AppendIsConcat
  <2> HIDE DEF one
  <2>2. (a \o c) \o one = a \o (c \o one) BY <1>3, <2>1, Associated
  <2> QED BY <2>1, <2>2, <1>3
<1>7. /\ \A t : After(t, Append(p, x)) = InOrder(After(t, p), x)
      /\ \A m : Contains(p, m) => Contains(Append(p, x), m)
  BY <1>3, <1>4, Appended
<1>9. Pipeline(l)' = Append(p, x) BY <1>5, <1>6
<1> QED BY <1>7, <1>9 DEF p, x

\* An edit of a server's jobs is announced to all.
LEMMA EditDelivers ==
  ASSUME State, NEW l \in Link, NEW jobs \in Changes, Edit(l[1], jobs),
         readers'[l] = readers[l], queue'[l] = queue[l]
  PROVE  /\ Outcome(l) = db[l[1]][l[1]] => (Outcome(l) = db[l[1]][l[1]])'
         /\ \A m : Contains(Pipeline(l), m) => Contains(Pipeline(l)', m)
<1> DEFINE s == l[1]
           table == Merge(db[s][s], jobs)
           told == Told(table, jobs)
           u == To({}, Fju("ordered", told))
<1>1. s \in Server /\ l[2] \in Server /\ s # l[2] BY LinkFacts
<1>2. /\ db' = [db EXCEPT ![s][s] = table] /\ u \in Entry
      /\ updates' = [updates EXCEPT ![s] = Append(@, u)]
      /\ Merge(db[s][s], told) = table
  BY <1>1, EditFacts DEF State
<1>3. Along(l, u) = Fju("ordered", told) BY DEF Along, To
<1>4. \A t : InOrder(t, Along(l, u)) = Merge(t, told)
  BY <1>3 DEF InOrder, Fju
<1> HIDE DEF u, told, table
<1>5. /\ \A t : After(t, Pipeline(l)') = InOrder(After(t, Pipeline(l)), Along(l, u))
      /\ \A m : Contains(Pipeline(l), m) => Contains(Pipeline(l)', m)
  BY <1>2, Announced
<1>6. db'[s][s] = table /\ db'[l[2]][s] = db[l[2]][s] BY <1>1, <1>2 DEF State, TypeOK
<1>7. Outcome(l)' = Merge(Outcome(l), told) BY <1>4, <1>5, <1>6 DEF Outcome
<1>8. Outcome(l) = db[s][s] => (Outcome(l) = db[s][s])' BY <1>2, <1>6, <1>7
<1> QED BY <1>5, <1>8

LEMMA EditOthers ==
  ASSUME State, NEW s \in Server, NEW jobs \in Changes, Edit(s, jobs), NEW l \in Link, l[1] # s
  PROVE  UNCHANGED <<updates[l[1]], db[l[2]][l[1]], db[l[1]][l[1]]>>
<1>1. l[1] \in Server /\ l[2] \in Server BY LinkFacts
<1> DEFINE table == Merge(db[s][s], jobs)
           u == To({}, Fju("ordered", Told(table, jobs)))
<1>2. db' = [db EXCEPT ![s][s] = table] /\ updates' = [updates EXCEPT ![s] = Append(@, u)]
  BY EditFacts DEF State
<1> HIDE DEF table, u
<1>3. updates'[l[1]] = updates[l[1]] BY <1>1, <1>2 DEF State, TypeOK
<1>4. db'[l[1]] = db[l[1]] BY <1>1, <1>2 DEF State, TypeOK
<1>5. db'[l[2]][l[1]] = db[l[2]][l[1]] BY <1>1, <1>2 DEF State, TypeOK
<1> QED BY <1>3, <1>4, <1>5

LEMMA EditRepaired ==
  ASSUME State, LossIsRepaired, NEW s \in Server,
         JobAddLocal(s) \/ JobsModifyLocal(s) \/ JobsRemoveLocal(s)
  PROVE  LossIsRepaired'
<1>1. PICK jobs \in Changes : Edit(s, jobs) BY EditTypes
<1>2. UNCHANGED <<disk, syncs, greets, confirms, connVars>>
  BY DEF JobAddLocal, JobsModifyLocal, JobsRemoveLocal
<1>3. ASSUME NEW l \in Link PROVE Upheld(l) /\ Delivers(l)
  <2>1. CASE l[1] = s
    <3>1. /\ Outcome(l) = db[l[1]][l[1]] => (Outcome(l) = db[l[1]][l[1]])'
          /\ \A m : Contains(Pipeline(l), m) => Contains(Pipeline(l)', m)
      BY <2>1, <1>1, <1>2, EditDelivers DEF connVars
    <3> QED BY <3>1, <1>2 DEF Delivers, Upheld, Counts, Carries, WillGreet, WillConnect, connVars
  <2>2. CASE l[1] # s
    <3>1. UNCHANGED <<updates[l[1]], db[l[2]][l[1]], db[l[1]][l[1]]>> BY <2>2, <1>1, EditOthers
    <3>2. Still(l) BY <3>1, <1>2 DEF Still, Connects, WillConnect, connVars
    <3> QED BY <3>2, StillFacts
  <2> QED BY <2>1, <2>2
<1> SUFFICES ASSUME NEW l \in Link PROVE InStep(l)' BY DEF LossIsRepaired, InStep
<1>4. InStep(l) BY DEF LossIsRepaired, InStep
<1>5. Back(l) \in Link BY LinkFacts
<1> QED BY <1>3, <1>4, <1>5, Kept

LEMMA ForwardRepaired ==
  ASSUME State, LossIsRepaired, NEW k \in Link, Forward(k)
  PROVE  LossIsRepaired'
<1>1. PICK r \in Message : /\ r.kind = "request"
                           /\ updates' = [updates EXCEPT ![k[1]] = Append(@, To({k[2]}, r))]
                           /\ To({k[2]}, r) \in Entry
  BY ForwardFacts
<1> DEFINE u == To({k[2]}, r)
<1>2. UNCHANGED <<db, disk, nextID, syncs, greets, confirms, connVars>> BY DEF Forward
<1>3. ASSUME NEW l \in Link PROVE Upheld(l) /\ Delivers(l)
  <2>1. CASE l[1] = k[1]
    <3>1. Along(l, u) = r \/ Along(l, u) = Ping BY DEF Along, To
    <3>2. \A t : InOrder(t, Along(l, u)) = t BY <1>1, <3>1, GreetingsAreInert
    <3>3. Alike(Pipeline(l), Pipeline(l)')
      <4> HIDE DEF u
      <4>1. updates' = [updates EXCEPT ![l[1]] = Append(@, u)] /\ u \in Entry BY <1>1, <2>1 DEF u
      <4>2. /\ \A t : After(t, Pipeline(l)') = InOrder(After(t, Pipeline(l)), Along(l, u))
            /\ \A m : Contains(Pipeline(l), m) => Contains(Pipeline(l)', m)
        BY <4>1, <1>2, Announced DEF connVars
      <4> QED BY <3>2, <4>2 DEF Alike
    <3> QED BY <3>3, <1>2, AlikeKeeps DEF Counts, Connects, WillConnect, connVars
  <2>2. CASE l[1] # k[1]
    <3>1. updates'[l[1]] = updates[l[1]] BY <1>1, <2>2, LinkFacts DEF State, TypeOK
    <3>2. Still(l) BY <3>1, <1>2 DEF Still, Connects, WillConnect, connVars
    <3> QED BY <3>2, StillFacts
  <2> QED BY <2>1, <2>2
<1> SUFFICES ASSUME NEW l \in Link PROVE InStep(l)' BY DEF LossIsRepaired, InStep
<1>4. InStep(l) BY DEF LossIsRepaired, InStep
<1>5. Back(l) \in Link BY LinkFacts
<1> QED BY <1>3, <1>4, <1>5, Kept

-----------------------------------------------------------------------------
(* Complete copies, and entries of the channel.                            *)

LEMMA SyncAllRepaired ==
  ASSUME State, LossIsRepaired, NEW k \in Link, SyncAll(k)
  PROVE  LossIsRepaired'
<1> DEFINE own == db[k[1]][k[1]]
           u == To({k[2]}, Fju("all", own))
<1>1. u \in Entry /\ updates' = [updates EXCEPT ![k[1]] = Append(@, u)] BY SyncAllFacts
<1>2. /\ UNCHANGED <<dbVars, greets, confirms, connVars, bounds>>
      /\ syncs' = [syncs EXCEPT ![k] = @ - 1]
  BY DEF SyncAll
<1>3. \A l \in Link : Counts(l) /\ (WillConnect(l) <=> WillConnect(l)') /\ (l # k => syncs'[l] = syncs[l])
  BY <1>2 DEF State, TypeOK, Counts, WillConnect, connVars
<1>4. own \in Table /\ IsCopy(own) BY LinkFacts, TableIsCopy DEF State, TypeOK
<1>5. Along(k, u) = Fju("all", own) BY DEF Along, To
<1>6. \A t : InOrder(t, Along(k, u)) = own
  <2>1. \A t : InOrder(t, Along(k, u)) = Merge(None, own) BY <1>5 DEF InOrder, Fju
  <2> HIDE DEF own
  <2> QED BY <2>1, <1>4, NoneMerge
<1>7. \A l \in Link : l[1] = k[1] /\ l # k => Along(l, u) = Ping
  <2> SUFFICES ASSUME NEW l \in Link, l[1] = k[1], l # k PROVE Along(l, u) = Ping OBVIOUS
  <2>1. l[2] # k[2] BY LinkFacts
  <2> QED BY <2>1 DEF Along, To
<1> HIDE DEF u
<1>8. \A l \in Link : l[1] = k[1] =>
        /\ \A t : After(t, Pipeline(l)') = InOrder(After(t, Pipeline(l)), Along(l, u))
        /\ \A m : Contains(Pipeline(l), m) => Contains(Pipeline(l)', m)
  <2> SUFFICES ASSUME NEW l \in Link, l[1] = k[1]
               PROVE  /\ \A t : After(t, Pipeline(l)') = InOrder(After(t, Pipeline(l)), Along(l, u))
                      /\ \A m : Contains(Pipeline(l), m) => Contains(Pipeline(l)', m)
    OBVIOUS
  <2>1. updates' = [updates EXCEPT ![l[1]] = Append(@, u)] BY <1>1
  <2> QED BY <2>1, <1>1, <1>2, Announced DEF connVars
<1>9. InStep(k)'
  <2>1. Outcome(k)' = own BY <1>2, <1>6, <1>8 DEF Outcome, dbVars
  <2> QED BY <2>1, <1>2 DEF InStep, dbVars
<1>10. ASSUME NEW l \in Link PROVE Upheld(l) /\ (l # k => Delivers(l))
  <2>1. CASE l[1] = k[1]
    <3>1. \A m : Contains(Pipeline(l), m) => Contains(Pipeline(l)', m) BY <2>1, <1>8
    <3>2. Upheld(l) BY <3>1, <1>3 DEF Upheld, Carries, WillGreet
    <3>3. ASSUME l # k PROVE Outcome(l)' = Outcome(l)
      <4>1. \A t : InOrder(t, Along(l, u)) = t BY <2>1, <3>3, <1>7, GreetingsAreInert
      <4> QED BY <4>1, <2>1, <1>2, <1>8 DEF Outcome, dbVars
    <3> QED BY <3>2, <3>3, <1>2, <1>3 DEF Delivers, dbVars
  <2>2. CASE l[1] # k[1]
    <3>1. updates'[l[1]] = updates[l[1]] BY <1>1, <2>2, LinkFacts DEF State, TypeOK
    <3>2. Still(l) BY <3>1, <2>2, <1>2, <1>3 DEF Still, Connects, connVars, dbVars
    <3> QED BY <3>2, StillFacts
  <2> QED BY <2>1, <2>2
<1> SUFFICES ASSUME NEW l \in Link PROVE InStep(l)' BY DEF LossIsRepaired, InStep
<1>11. InStep(l) BY DEF LossIsRepaired, InStep
<1>12. Back(l) \in Link BY LinkFacts
<1> QED BY <1>9, <1>10, <1>11, <1>12, Kept

\* What a link becomes when the next entry is taken from the channel.
LEMMA Distributed ==
  ASSUME NEW w \in Seq(Message), NEW q \in Seq(Message), NEW l \in Link,
         NEW us \in Seq(Entry), us # <<>>
  PROVE  /\ (w \o Append(q, Along(l, Head(us)))) \o Chan(l, Tail(us)) = (w \o q) \o Chan(l, us)
         /\ Along(l, Head(us)) = Ping =>
              Alike((w \o q) \o Chan(l, us), (w \o q) \o Chan(l, Tail(us)))
<1> DEFINE x == Along(l, Head(us))
           c == Chan(l, Tail(us))
<1>1. Head(us) \in Entry /\ Tail(us) \in Seq(Entry) /\ Chan(l, us) = <<x>> \o c BY ChanTail
<1>2. x \in Message /\ c \in Seq(Message) BY <1>1, AlongType, ChanType
<1>3. w \o q \in Seq(Message) BY ConcatProperties
<1> HIDE DEF x, c
<1>4. (w \o Append(q, x)) \o c = (w \o q) \o (<<x>> \o c) BY <1>2, Queued
<1>5. x = Ping => Alike((w \o q) \o (<<x>> \o c), (w \o q) \o c) BY <1>2, <1>3, PingBetween
<1> QED BY <1>1, <1>4, <1>5 DEF x, c

LEMMA DistributeLink ==
  ASSUME State, NEW s \in Server, DistributeForeignJobUpdates(s), NEW l \in Link
  PROVE  /\ Counts(l) /\ Connects(l) /\ syncs' = syncs /\ db' = db
         /\ Alike(Pipeline(l), Pipeline(l)') \/ WillConnect(l)'
<1> DEFINE us == updates[s]
           u == Head(us)
           reached == {k \in Link : k[1] = s /\ IF u.target = {} THEN tcp[k] # "absent"
                                                ELSE k[2] \in u.target}
           w == Wires(readers[l])
           q == queue[l]
<1>1. us \in Seq(Entry) /\ us # <<>> BY DEF State, TypeOK, DistributeForeignJobUpdates
<1>2. u \in Entry /\ u.message \in Message /\ Tail(us) \in Seq(Entry)
  <2>1. u \in Entry /\ Tail(us) \in Seq(Entry) BY <1>1
  <2> QED BY <2>1 DEF Entry
<1>3. queue' = [k \in Link |-> IF k \in reached THEN Append(queue[k], u.message) ELSE queue[k]]
      /\ tcp' = [k \in Link |-> IF k \in reached /\ tcp[k] = "absent" THEN "down" ELSE tcp[k]]
      /\ updates' = [updates EXCEPT ![s] = Tail(us)]
      /\ UNCHANGED <<dbVars, syncs, greets, confirms, pinger, readers, bounds>>
  BY DEF DistributeForeignJobUpdates
<1>4. w \in Seq(Message) /\ q \in Seq(Message)
      /\ Pipeline(l) = (w \o q) \o Chan(l, updates[l[1]])
  BY PipelineTypes
<1>5. l \in reached <=> l[1] = s /\ IF u.target = {} THEN tcp[l] # "absent" ELSE l[2] \in u.target
  OBVIOUS
<1>6. queue'[l] = IF l \in reached THEN Append(q, u.message) ELSE q BY <1>3
<1>7. tcp'[l] = tcp[l] \/ tcp[l] = "absent" BY <1>3
<1>8. Pipeline(l)' = (w \o queue'[l]) \o Chan(l, updates'[l[1]]) BY <1>3, PipelinePrime
<1>9. updates'[l[1]] = IF l[1] = s THEN Tail(us) ELSE updates[l[1]]
  BY <1>3, LinkFacts DEF State, TypeOK
<1>10. updates[l[1]] = us \/ l[1] # s OBVIOUS
<1>11. UNCHANGED <<db, syncs, greets, confirms, pinger>> BY <1>3 DEF dbVars
<1>12. tcp[l] = "absent" => l \in greets BY DEF State, Shape
<1> HIDE DEF us, u, reached, w, q
<1>13. q # <<>> => queue'[l] # <<>>
  <2>1. Append(q, u.message) # <<>> BY <1>2, <1>4, AppendProperties
  <2> QED BY <2>1, <1>6
<1>14. Connects(l) /\ Counts(l)
  <2>1. WillConnect(l) <=> l \in greets \/ tcp[l] = "dead" \/ (tcp[l] = "down" /\ (q # <<>> \/ pinger[l]))
    BY DEF WillConnect, q
  <2>2. WillConnect(l)' <=> l \in greets' \/ tcp'[l] = "dead"
                              \/ (tcp'[l] = "down" /\ (queue'[l] # <<>> \/ pinger'[l]))
    BY DEF WillConnect
  <2> QED BY <2>1, <2>2, <1>7, <1>11, <1>12, <1>13 DEF Connects, Counts
<1>15. Alike(Pipeline(l), Pipeline(l)') \/ WillConnect(l)'
  <2>1. CASE l \in reached
    <3>1. l[1] = s BY <2>1, <1>5
    <3>2. Along(l, u) = u.message BY <2>1, <1>2, <1>5 DEF Along, Entry
    <3>3. Pipeline(l)' = (w \o Append(q, Along(l, Head(us)))) \o Chan(l, Tail(us))
      BY <3>1, <3>2, <2>1, <1>6, <1>8, <1>9 DEF u
    <3>4. (w \o Append(q, Along(l, Head(us)))) \o Chan(l, Tail(us)) = (w \o q) \o Chan(l, us)
      BY <1>1, <1>4, Distributed
    <3> QED BY <3>1, <3>3, <3>4, <1>4, <1>10 DEF Alike
  <2>2. CASE l \notin reached /\ l[1] = s /\ u.target = {}
    <3>1. l \in greets BY <2>2, <1>5, <1>12
    <3> QED BY <3>1, <1>11 DEF WillConnect
  <2>3. CASE l \notin reached /\ l[1] = s /\ u.target # {}
    <3>1. Along(l, u) = Ping
      <4>1. l[2] \notin u.target BY <2>3, <1>5
      <4> QED BY <4>1, <2>3 DEF Along
    <3>2. Pipeline(l)' = (w \o q) \o Chan(l, Tail(us)) BY <2>3, <1>6, <1>8, <1>9
    <3>3. Alike((w \o q) \o Chan(l, us), (w \o q) \o Chan(l, Tail(us)))
      BY <3>1, <1>1, <1>4, Distributed DEF u
    <3> QED BY <2>3, <3>2, <3>3, <1>4, <1>10
  <2>4. CASE l[1] # s
    <3>1. l \notin reached BY <2>4, <1>5
    <3>2. Pipeline(l)' = Pipeline(l) BY <2>4, <3>1, <1>4, <1>6, <1>8, <1>9
    <3> QED BY <3>2 DEF Alike
  <2> QED BY <2>1, <2>2, <2>3, <2>4
<1> QED BY <1>11, <1>14, <1>15

LEMMA DistributeRepaired ==
  ASSUME State, LossIsRepaired, NEW s \in Server, DistributeForeignJobUpdates(s)
  PROVE  LossIsRepaired'
<1> SUFFICES ASSUME NEW l \in Link PROVE InStep(l)' BY DEF LossIsRepaired, InStep
<1>1. InStep(l) /\ Back(l) \in Link BY LinkFacts DEF LossIsRepaired, InStep
<1>2. \A k \in Link : Upheld(k)
  <2> SUFFICES ASSUME NEW k \in Link PROVE Upheld(k) OBVIOUS
  <2>1. CASE WillConnect(k)' BY <2>1, DistributeLink DEF Upheld, Carries, WillGreet
  <2>2. CASE ~WillConnect(k)' BY <2>2, DistributeLink, AlikeKeeps
  <2> QED BY <2>1, <2>2
<1>3. CASE WillConnect(l)' BY <1>3 DEF InStep, RepairBegun, WillGreet
<1>4. CASE ~WillConnect(l)'
  <2>1. Delivers(l) BY <1>4, DistributeLink, AlikeKeeps
  <2> QED BY <2>1, <1>1, <1>2, Kept
<1> QED BY <1>3, <1>4

-----------------------------------------------------------------------------
(* The sender, faults and restarts.                                        *)

LEMMA QueuedIsThere ==
  ASSUME NEW w \in Seq(Message), NEW q \in Seq(Message), NEW x \in Message,
         NEW c \in Seq(Message)
  PROVE  Contains((w \o Append(q, x)) \o c, x)
<1>1. Append(q, x) \in Seq(Message) /\ Contains(Append(q, x), x)
  BY AppendProperties, ContainsAppend
<1> DEFINE a == Append(q, x)
<1> HIDE DEF a
<1>2. a \in Seq(Message) /\ Contains(a, x) BY <1>1 DEF a
<1>3. w \o a \in Seq(Message) BY <1>2, ConcatProperties
<1>4. Contains(w \o a, x) BY <1>2, ContainsConcat
<1>5. Contains((w \o a) \o c, x) BY <1>3, <1>4, ContainsConcat
<1> QED BY <1>5 DEF a

\* A greeting is queued.
LEMMA GreetingQueued ==
  ASSUME State, NEW k \in Link, NEW q \in Seq(Message), NEW m \in Message,
         queue'[k] = Append(q, m), updates'[k[1]] = updates[k[1]],
         readers'[k] \in Seq(Reader), Len(readers'[k]) <= 1
  PROVE  Contains(Pipeline(k)', m)
<1> DEFINE w == Wires(readers'[k])
           c == Chan(k, updates[k[1]])
<1>1. w \in Seq(Message) BY WiresType
<1>2. c \in Seq(Message) BY PipelineTypes
<1>3. Pipeline(k)' = (w \o Append(q, m)) \o c BY PipelinePrime
<1> HIDE DEF w, c
<1> QED BY <1>1, <1>2, <1>3, QueuedIsThere

LEMMA BroadcastRepaired ==
  ASSUME State, LossIsRepaired, NEW k \in Link, BroadcastNewServer(k)
  PROVE  LossIsRepaired'
<1>1. /\ greets' = greets \ {k} /\ tcp' = Known(k)
      /\ queue' = [queue EXCEPT ![k] = Append(queue[k], NewServer)]
      /\ UNCHANGED <<dbVars, updates, syncs, confirms, pinger, readers, bounds>>
  BY DEF BroadcastNewServer
<1>2. queue'[k] = Append(queue[k], NewServer) BY <1>1 DEF State, TypeOK
<1>3. Contains(Pipeline(k)', NewServer)
  <2>1. readers'[k] \in Seq(Reader) /\ Len(readers'[k]) <= 1 BY <1>1 DEF State, TypeOK, Shape
  <2> QED BY <2>1, <1>1, <1>2, MessageTypes, QueueTypes, GreetingQueued
<1>4. \A l \in Link \ {k} : Still(l)
  BY <1>1 DEF State, TypeOK, Still, Connects, WillConnect, Known, dbVars
<1>5. Contains(Pipeline(k), NewServer)' BY <1>3
<1> QED BY <1>4, <1>5, RepairsBoth

LEMMA ConfirmRepaired ==
  ASSUME State, LossIsRepaired, NEW k \in Link, ConfirmNewServer(k)
  PROVE  LossIsRepaired'
<1>1. /\ confirms' = [confirms EXCEPT ![k] = @ - 1] /\ tcp' = Known(k)
      /\ queue' = [queue EXCEPT ![k] = Append(queue[k], Confirm)]
      /\ syncs' = [syncs EXCEPT ![k] = @ + 1]
      /\ UNCHANGED <<dbVars, updates, greets, pinger, readers, bounds>>
  BY DEF ConfirmNewServer
<1>2. queue'[k] = Append(queue[k], Confirm) BY <1>1 DEF State, TypeOK
<1>3. Contains(Pipeline(k)', Confirm)
  <2>1. readers'[k] \in Seq(Reader) /\ Len(readers'[k]) <= 1 BY <1>1 DEF State, TypeOK, Shape
  <2> QED BY <2>1, <1>1, <1>2, MessageTypes, QueueTypes, GreetingQueued
<1>4. \A l \in Link \ {k} : Still(l)
  BY <1>1 DEF State, TypeOK, Still, Connects, WillConnect, Known, dbVars
<1>5. syncs'[k] > 0
  <2>1. syncs[k] \in Nat /\ syncs'[k] = syncs[k] + 1 BY <1>1 DEF State, TypeOK
  <2> QED BY <2>1
<1>6. InStep(k)' BY <1>5 DEF InStep, RepairBegun
<1>7. InStep(Back(k))'
  <2>1. Back(Back(k)) = k BY LinkFacts
  <2> QED BY <2>1, <1>3 DEF InStep, RepairBegun, WillGreet
<1> QED BY <1>4, <1>6, <1>7, Others

LEMMA ConnectRepaired ==
  ASSUME State, Overlap = FALSE, LossIsRepaired, NEW k \in Link, Connect(k)
  PROVE  LossIsRepaired'
<1>1. /\ queue[k] # <<>> /\ tcp' = [tcp EXCEPT ![k] = "up"]
      /\ queue' = [queue EXCEPT ![k] = Append(Tail(queue[k]), NewServer)]
      /\ \E rs : readers' = [readers EXCEPT ![k] = rs]
      /\ UNCHANGED <<dbVars, chanVars, pinger, bounds>>
  BY DEF Connect
<1>2. queue'[k] = Append(Tail(queue[k]), NewServer) /\ Tail(queue[k]) \in Seq(Message)
  BY <1>1, QueueTypes DEF State, TypeOK
<1>3. Contains(Pipeline(k)', NewServer)
  <2>1. State' BY ConnectState
  <2>2. readers'[k] \in Seq(Reader) /\ Len(readers'[k]) <= 1 BY <2>1 DEF State, TypeOK, Shape
  <2> QED BY <2>2, <1>1, <1>2, MessageTypes, GreetingQueued DEF chanVars
<1>4. \A l \in Link \ {k} : Still(l)
  BY <1>1 DEF State, TypeOK, Still, Connects, WillConnect, dbVars, chanVars
<1>5. Contains(Pipeline(k), NewServer)' BY <1>3
<1> QED BY <1>4, <1>5, RepairsBoth

LEMMA BrokenRepaired ==
  ASSUME State, LossIsRepaired, NEW k \in Link,
         ConnectFails(k) \/ MonitorConnection(k) \/ Break(k) \/ Lose(k)
  PROVE  LossIsRepaired'
<1>1. CASE ConnectFails(k)
  <2>1. WillConnect(k)' BY <1>1 DEF ConnectFails, State, TypeOK, WillConnect
  <2>2. \A l \in Link \ {k} : Still(l)
    BY <1>1 DEF ConnectFails, State, TypeOK, Still, Connects, WillConnect, dbVars, chanVars
  <2> QED BY <2>1, <2>2, RepairsBoth
<1>2. CASE MonitorConnection(k)
  <2>1. queue'[k] # <<>> /\ tcp'[k] = "down"
    BY <1>2, QueueTypes, MessageTypes DEF MonitorConnection, State, TypeOK
  <2>2. WillConnect(k)' BY <2>1 DEF WillConnect
  <2>3. \A l \in Link \ {k} : Still(l)
    BY <1>2 DEF MonitorConnection, State, TypeOK, Still, Connects, WillConnect, dbVars, chanVars
  <2> QED BY <2>2, <2>3, RepairsBoth
<1>3. CASE Break(k)
  <2>1. WillConnect(k)' BY <1>3 DEF Break, State, TypeOK, WillConnect
  <2>2. \A l \in Link \ {k} : Still(l)
    BY <1>3 DEF Break, State, TypeOK, Still, Connects, WillConnect, dbVars, chanVars
  <2> QED BY <2>1, <2>2, RepairsBoth
<1>4. CASE Lose(k)
  <2>1. /\ tcp[k] # "up" /\ UNCHANGED <<dbVars, chanVars, queue, tcp, pinger, bounds>>
        /\ \E rs : readers' = [readers EXCEPT ![k] = rs]
    BY <1>4, LoseFacts
  <2>2. WillConnect(k)
    <3>1. tcp[k] \in {"absent", "down", "dead"} BY <2>1 DEF State, TypeOK
    <3> QED BY <3>1 DEF State, Shape, WillConnect
  <2>3. WillConnect(k)' BY <2>1, <2>2 DEF WillConnect, chanVars
  <2>4. \A l \in Link \ {k} : Still(l)
    BY <2>1 DEF State, TypeOK, Still, Connects, WillConnect, dbVars, chanVars
  <2> QED BY <2>3, <2>4, RepairsBoth
<1> QED BY <1>1, <1>2, <1>3, <1>4

LEMMA PingRepaired ==
  ASSUME State, LossIsRepaired, NEW k \in Link, PingQueue(k)
  PROVE  LossIsRepaired'
<1>1. /\ queue' = [queue EXCEPT ![k] = Append(queue[k], Ping)]
      /\ pinger' = [pinger EXCEPT ![k] = FALSE]
      /\ UNCHANGED <<dbVars, chanVars, tcp, readers, bounds>>
  BY DEF PingQueue
<1>2. queue'[k] = Append(queue[k], Ping) /\ queue'[k] # <<>>
  BY <1>1, QueueTypes, MessageTypes DEF State, TypeOK
<1>3. Alike(Pipeline(k), Pipeline(k)')
  <2> DEFINE w == Wires(readers[k])
             c == Chan(k, updates[k[1]])
             q == queue[k]
  <2>1. /\ w \in Seq(Message) /\ q \in Seq(Message) /\ c \in Seq(Message)
        /\ Pipeline(k) = (w \o q) \o c
    BY PipelineTypes
  <2>2. Pipeline(k)' = (w \o Append(q, Ping)) \o c BY <1>1, <1>2, PipelinePrime DEF chanVars
  <2> HIDE DEF w, c, q
  <2>3. Alike((w \o q) \o c, (w \o Append(q, Ping)) \o c) BY <2>1, PingQueued
  <2> QED BY <2>1, <2>2, <2>3
<1>4. Counts(k) /\ Connects(k) BY <1>1, <1>2 DEF Counts, Connects, WillConnect, chanVars
<1>5. Upheld(k) /\ Delivers(k) BY <1>1, <1>3, <1>4, AlikeKeeps DEF dbVars, chanVars
<1>6. \A l \in Link \ {k} : Still(l)
  BY <1>1 DEF State, TypeOK, Still, Connects, WillConnect, dbVars, chanVars
<1> QED BY <1>5, <1>6, OneAlong

LEMMA TransmitRepaired ==
  ASSUME State, LossIsRepaired, NEW k \in Link, Transmit(k)
  PROVE  LossIsRepaired'
<1>1. /\ queue[k] # <<>> /\ tcp[k] \in {"up", "dead"}
      /\ queue' = [queue EXCEPT ![k] = Tail(queue[k])]
      /\ \E rs : readers' = [readers EXCEPT ![k] = rs]
      /\ UNCHANGED <<dbVars, chanVars, tcp, pinger, bounds>>
  <2>1. readers = [readers EXCEPT ![k] = readers[k]] BY DEF State, TypeOK
  <2> QED BY <2>1 DEF Transmit
<1>2. \A l \in Link \ {k} : Still(l)
  BY <1>1 DEF State, TypeOK, Still, Connects, WillConnect, dbVars, chanVars
<1>3. CASE tcp[k] = "dead"
  <2>1. WillConnect(k)' BY <1>1, <1>3 DEF WillConnect
  <2> QED BY <1>2, <2>1, RepairsBoth
<1>4. CASE tcp[k] = "up"
  <2> DEFINE r == readers[k][1]
             wire == r.wire \o Line(Head(queue[k]))
             sent == [r EXCEPT !.wire = wire]
             o == Ongoing(r)
             q == queue[k]
             c == Chan(k, updates[k[1]])
  <2>1. /\ Len(readers[k]) = 1 /\ r \in Reader /\ sent \in Reader
        /\ wire \in Seq(Message \ {Ping})
        /\ readers' = [readers EXCEPT ![k] = [@ EXCEPT ![1] = sent]]
    BY <1>4, TransmitFacts
  <2>2. Len(readers'[k]) = 1 /\ readers'[k] \in Seq(Reader) /\ readers'[k][1] = sent
    <3> HIDE DEF sent
    <3> QED BY <2>1, ReaderSet DEF State
  <2>3. sent.wire = wire /\ Ongoing(sent) = o
    <3> HIDE DEF r, wire
    <3> QED BY <2>1, WireSet
  <2>4. Wires(readers[k]) = <<o>> \o r.wire
    <3>1. readers[k] \in Seq(Reader) BY DEF State, TypeOK
    <3> QED BY <2>1, <3>1, WiresOfOne
  <2>5. Wires(readers'[k]) = <<o>> \o wire
    <3> HIDE DEF sent, wire, o
    <3> QED BY <2>2, <2>3, WiresOfOne
  <2>6. o \in Message /\ r.wire \in Seq(Message)
    <3> HIDE DEF r
    <3> QED BY <2>1, OngoingType
  <2>7. q \in Seq(Message) /\ q # <<>> /\ c \in Seq(Message)
        /\ Pipeline(k) = ((<<o>> \o r.wire) \o q) \o c
    BY <1>1, <2>4, PipelineTypes
  <2>8. queue'[k] = Tail(q) BY <1>1 DEF State, TypeOK
  <2>9. Pipeline(k)' = ((<<o>> \o (r.wire \o Line(Head(q)))) \o Tail(q)) \o c
    BY <1>1, <2>5, <2>8, PipelinePrime DEF chanVars
  <2> DEFINE v == r.wire
  <2> HIDE DEF o, q, c, v
  <2>10. Alike(((<<o>> \o v) \o q) \o c, ((<<o>> \o (v \o Line(Head(q)))) \o Tail(q)) \o c)
    BY <2>6, <2>7, Sent DEF v
  <2>11. Alike(Pipeline(k), Pipeline(k)') BY <2>7, <2>9, <2>10 DEF v
  <2>12. Counts(k) /\ Connects(k)
    BY <1>1, <1>4 DEF Counts, Connects, WillConnect, chanVars
  <2>13. Upheld(k) /\ Delivers(k) BY <1>1, <2>11, <2>12, AlikeKeeps DEF dbVars, chanVars
  <2> QED BY <1>2, <2>13, OneAlong
<1> QED BY <1>1, <1>3, <1>4

LEMMA RestartRepaired ==
  ASSUME State, LossIsRepaired, NEW s \in Server, Restart(s)
  PROVE  LossIsRepaired'
<1>1. /\ db' = [db EXCEPT ![s] = [t \in Server |-> IF t = s THEN disk[s] ELSE None]]
      /\ updates' = [updates EXCEPT ![s] = <<>>]
      /\ syncs' = [l \in Link |-> IF l[1] = s THEN 0 ELSE syncs[l]]
      /\ confirms' = [l \in Link |-> IF l[1] = s THEN 0 ELSE confirms[l]]
      /\ greets' = greets \cup {l \in Link : l[1] = s}
      /\ queue' = [l \in Link |-> IF l[1] = s THEN <<>> ELSE queue[l]]
      /\ pinger' = [l \in Link |-> l[1] # s /\ pinger[l]]
      /\ tcp' = [l \in Link |-> IF l[1] = s THEN "absent"
                                ELSE IF l[2] = s /\ tcp[l] = "up" THEN "dead" ELSE tcp[l]]
      /\ readers' = [l \in Link |-> IF l[2] = s THEN <<>> ELSE readers[l]]
  BY DEF Restart
<1> SUFFICES ASSUME NEW l \in Link PROVE InStep(l)' BY DEF LossIsRepaired, InStep
<1>2. InStep(l) /\ Back(l) \in Link /\ Back(l)[1] = l[2] /\ Back(l)[2] = l[1]
      /\ l[1] \in Server /\ l[2] \in Server
  BY LinkFacts DEF LossIsRepaired, InStep
<1>3. CASE l[1] = s
  <2>1. WillConnect(l)' BY <1>1, <1>3 DEF WillConnect
  <2> QED BY <2>1 DEF InStep, RepairBegun, WillGreet
<1>4. CASE l[2] = s
  <2>1. WillConnect(Back(l))' BY <1>1, <1>2, <1>4 DEF WillConnect
  <2> QED BY <2>1 DEF InStep, RepairBegun, WillGreet
<1>5. CASE l[1] # s /\ l[2] # s
  <2>1. \A k \in Link : k[1] # s /\ k[2] # s => Still(k)
    <3> SUFFICES ASSUME NEW k \in Link, k[1] # s, k[2] # s PROVE Still(k) OBVIOUS
    <3>1. k[1] \in Server /\ k[2] \in Server BY LinkFacts
    <3>2. UNCHANGED <<db[k[2]], db[k[1]], updates[k[1]]>> BY <1>1, <3>1 DEF State, TypeOK
    <3>3. UNCHANGED <<readers[k], queue[k], syncs[k], confirms[k], tcp[k], pinger[k]>>
      BY <1>1 DEF State, TypeOK
    <3>4. k \in greets => k \in greets' BY <1>1
    <3> QED BY <3>2, <3>3, <3>4 DEF Still, Connects, WillConnect
  <2>2. Still(l) /\ Still(Back(l)) BY <2>1, <1>2, <1>5
  <2> QED BY <2>2, <1>2, StillFacts, Kept
<1> QED BY <1>3, <1>4, <1>5

-----------------------------------------------------------------------------
(* The receiver: jobs of the sender.                                       *)

\* What follows the message that a goroutine works on.
Rest(l, r) == (r.wire \o queue[l]) \o Chan(l, updates[l[1]])

\* Pipelines that begin with a message that is worked on.
Begins(p, o, rest) ==
  /\ \A t : After(t, p) = After(InOrder(t, o), rest)
  /\ \A x : Contains(p, x) <=> x = o \/ Contains(rest, x)

LEMMA WorkedOnFirst ==
  ASSUME NEW l \in Link, NEW rs \in Seq(Reader), Len(rs) = 1, NEW q \in Seq(Message),
         NEW c \in Seq(Message)
  PROVE  Begins((Wires(rs) \o q) \o c, Ongoing(rs[1]), (rs[1].wire \o q) \o c)
<1>1. rs[1] \in Reader OBVIOUS
<1>2. Wires(rs) = <<Ongoing(rs[1])>> \o rs[1].wire BY WiresOfOne
<1>3. Ongoing(rs[1]) \in Message /\ rs[1].wire \in Seq(Message) BY <1>1, OngoingType
<1> DEFINE o == Ongoing(rs[1])
           w == rs[1].wire
<1> HIDE DEF o, w
<1>4. o \in Message /\ w \in Seq(Message) BY <1>3 DEF o, w
<1>5. Begins(((<<o>> \o w) \o q) \o c, o, (w \o q) \o c) BY <1>4, ReadFirst DEF Begins
<1> QED BY <1>2, <1>5 DEF o, w

LEMMA ReaderStep ==
  ASSUME State, NEW l \in Link, NEW n \in DOMAIN readers[l], NEW r \in Reader,
         readers' = [readers EXCEPT ![l] = [@ EXCEPT ![n] = r]]
  PROVE  readers'[l] \in Seq(Reader) /\ Len(readers'[l]) = 1 /\ readers'[l][1] = r
<1>1. n = 1 /\ Len(readers[l]) = 1 BY OneReader DEF State
<1>2. readers' = [readers EXCEPT ![l] = [@ EXCEPT ![1] = r]] BY <1>1
<1> QED BY <1>1, <1>2, ReaderSet DEF State

LEMMA ReaderPipes ==
  ASSUME State, NEW k \in Link, NEW n \in DOMAIN readers[k], NEW r \in Reader,
         readers' = [readers EXCEPT ![k] = [@ EXCEPT ![n] = r]],
         queue' = queue, updates'[k[1]] = updates[k[1]]
  PROVE  /\ Begins(Pipeline(k), Ongoing(readers[k][n]), Rest(k, readers[k][n]))
         /\ Begins(Pipeline(k)', Ongoing(r), Rest(k, r))
<1> DEFINE old == readers[k][n]
           q == queue[k]
           c == Chan(k, updates[k[1]])
           rs == readers[k]
           new == readers'[k]
<1>1. /\ rs \in Seq(Reader) /\ Len(rs) = 1 /\ rs[1] = old
      /\ new \in Seq(Reader) /\ Len(new) = 1 /\ new[1] = r
  <2>1. readers \in [Link -> Seq(Reader)] BY DEF State, TypeOK
  <2>2. readers'[k] \in Seq(Reader) /\ Len(readers'[k]) = 1 /\ readers'[k][1] = r BY ReaderStep
  <2>3. n = 1 /\ Len(readers[k]) = 1 BY OneReader DEF State
  <2> QED BY <2>1, <2>2, <2>3
<1>2. q \in Seq(Message) /\ c \in Seq(Message) /\ Pipeline(k) = (Wires(rs) \o q) \o c
  BY PipelineTypes
<1>3. Pipeline(k)' = (Wires(new) \o q) \o c BY PipelinePrime
<1> HIDE DEF rs, new, old, q, c
<1>4. Begins((Wires(rs) \o q) \o c, Ongoing(rs[1]), (rs[1].wire \o q) \o c)
  BY <1>1, <1>2, WorkedOnFirst
<1>5. Begins((Wires(new) \o q) \o c, Ongoing(new[1]), (new[1].wire \o q) \o c)
  BY <1>1, <1>2, WorkedOnFirst
<1>6. Begins(Pipeline(k), Ongoing(old), (old.wire \o q) \o c) BY <1>1, <1>2, <1>4
<1>7. Begins(Pipeline(k)', Ongoing(r), (r.wire \o q) \o c) BY <1>1, <1>3, <1>5
<1> QED BY <1>6, <1>7 DEF Rest, old, q, c

LEMMA OngoingKind ==
  ASSUME NEW r
  PROVE  /\ Ongoing(r) \notin Greetings
         /\ \A t : InOrder(t, Ongoing(r)) = Merge(IF r.clear THEN None ELSE t, r.jobs)
<1>1. Ongoing(r).kind = "foreign_job_updates" BY DEF Ongoing, Fju
<1>2. NewServer.kind # "foreign_job_updates" /\ Confirm.kind # "foreign_job_updates"
  BY DEF NewServer, Confirm
<1>3. Ongoing(r) \notin Greetings BY <1>1, <1>2 DEF Greetings
<1>4. Ongoing(r).sync = (IF r.clear THEN "all" ELSE "ordered") /\ Ongoing(r).jobs = r.jobs
  BY DEF Ongoing, Fju
<1>5. ASSUME NEW t PROVE InOrder(t, Ongoing(r)) = Merge(IF r.clear THEN None ELSE t, r.jobs)
  <2>1. (Ongoing(r).sync = "all") <=> r.clear BY <1>4
  <2> QED BY <1>1, <1>4, <2>1 DEF InOrder
<1> QED BY <1>3, <1>5

\* What a step of a goroutine of the receiver has to show.
LEMMA ReaderRepaired ==
  ASSUME State, LossIsRepaired, NEW k \in Link,
         \A l \in Link \ {k} : readers'[l] = readers[l],
         UNCHANGED <<chanVars, queue, tcp, pinger, bounds>>,
         \A s \in Server, t \in Server : <<s, t>> # Back(k) => db'[s][t] = db[s][t],
         After(db'[k[2]][k[1]], Pipeline(k)') = Outcome(k),
         \A m \in Greetings : Contains(Pipeline(k), m) => Contains(Pipeline(k)', m)
  PROVE  LossIsRepaired'
<1>1. k[1] \in Server /\ k[2] \in Server /\ k[1] # k[2] BY LinkFacts
<1>2. db'[k[1]][k[1]] = db[k[1]][k[1]] BY <1>1 DEF Back
<1>3. Outcome(k)' = Outcome(k) BY DEF Outcome
<1>4. Delivers(k) BY <1>2, <1>3 DEF Delivers, chanVars
<1>5. Upheld(k) BY DEF Upheld, Counts, Carries, WillGreet, WillConnect, chanVars
<1>6. \A l \in Link \ {k} : Still(l)
  <2> SUFFICES ASSUME NEW l \in Link \ {k} PROVE Still(l) OBVIOUS
  <2>1. l[1] \in Server /\ l[2] \in Server /\ l[1] # l[2] /\ l = <<l[1], l[2]>>
        /\ k = <<k[1], k[2]>> BY LinkFacts
  <2>2. db'[l[2]][l[1]] = db[l[2]][l[1]] /\ db'[l[1]][l[1]] = db[l[1]][l[1]]
    BY <1>1, <2>1 DEF Back
  <2> QED BY <2>2 DEF Still, Connects, WillConnect, chanVars
<1> QED BY <1>4, <1>5, <1>6, OneAlong

LEMMA ReadUpdatesRepaired ==
  ASSUME State, LossIsRepaired, NEW k \in Link, NEW n \in DOMAIN readers[k], ReadUpdates(k, n)
  PROVE  LossIsRepaired'
<1> DEFINE old == readers[k][n]
           m == Head(old.wire)
           r == [wire |-> Tail(old.wire), clear |-> m.sync = "all", jobs |-> m.jobs]
           t == db[k[2]][k[1]]
<1>1. /\ old \in Reader /\ r \in Reader /\ ~old.clear /\ old.jobs = None
      /\ old.wire # <<>> /\ m \in Message /\ m = Fju(m.sync, m.jobs)
      /\ readers' = [readers EXCEPT ![k] = [@ EXCEPT ![n] = r]]
  BY ReadUpdatesFacts
<1>2. UNCHANGED <<dbVars, chanVars, queue, tcp, pinger, bounds>> BY DEF ReadUpdates
<1>3. Begins(Pipeline(k), Ongoing(old), Rest(k, old)) /\ Begins(Pipeline(k)', Ongoing(r), Rest(k, r))
  <2> HIDE DEF r
  <2> QED BY <1>1, <1>2, ReaderPipes DEF chanVars
<1>4. Ongoing(r) = m
  <2>1. m.kind = "foreign_job_updates" BY DEF ReadUpdates, Received
  <2>2. m.sync \in {"ordered", "all"} BY <1>1, <2>1, MessageKinds
  <2>3. Ongoing(r) = Fju(m.sync, m.jobs) BY <2>2 DEF Ongoing
  <2> HIDE DEF m
  <2> QED BY <1>1, <2>3
<1>5. Pipeline(k)' = Rest(k, old)
  <2> DEFINE w == Wires(readers'[k])
             q == queue[k]
             c == Chan(k, updates[k[1]])
  <2>1. /\ readers'[k] \in Seq(Reader) /\ Len(readers'[k]) = 1 /\ readers'[k][1] = r
    <3> HIDE DEF r
    <3> QED BY <1>1, ReaderStep
  <2>2. w = <<Ongoing(r)>> \o r.wire
    <3> HIDE DEF r
    <3> QED BY <2>1, WiresOfOne
  <2>3. old.wire = <<m>> \o Tail(old.wire)
    <3> HIDE DEF old
    <3> QED BY <1>1, WireFacts
  <2>4. w = old.wire
    <3>1. r.wire = Tail(old.wire) OBVIOUS
    <3> HIDE DEF r, m, old, w
    <3> QED BY <2>2, <2>3, <1>4, <3>1
  <2>5. Pipeline(k)' = (w \o q) \o c BY <1>2, PipelinePrime DEF chanVars
  <2> HIDE DEF w, old, q, c
  <2> QED BY <2>4, <2>5 DEF Rest, q, c
<1>6. \A x \in Greetings : Contains(Pipeline(k), x) => Contains(Pipeline(k)', x)
  <2> HIDE DEF old
  <2> QED BY <1>3, <1>5, OngoingKind DEF Begins
<1>7. After(db'[k[2]][k[1]], Pipeline(k)') = Outcome(k)
  <2>1. t \in Table BY LinkFacts DEF State, TypeOK
  <2> HIDE DEF old
  <2>2. InOrder(t, Ongoing(old)) = t
    <3>1. InOrder(t, Ongoing(old)) = Merge(t, None) BY <1>1, OngoingKind
    <3> QED BY <2>1, <3>1, MergeNone, TableIsCopy
  <2>3. After(t, Pipeline(k)) = After(t, Pipeline(k)') BY <1>3, <1>5, <2>2 DEF Begins
  <2> QED BY <2>3, <1>2 DEF Outcome, dbVars
<1>8. \A l \in Link \ {k} : readers'[l] = readers[l] BY <1>1 DEF State, TypeOK
<1> QED BY <1>2, <1>6, <1>7, <1>8, ReaderRepaired DEF dbVars

\* A goroutine edits the copy.
LEMMA CopyEdited ==
  ASSUME State, LossIsRepaired, NEW k \in Link, NEW n \in DOMAIN readers[k], NEW r \in Reader,
         NEW table,
         r.wire = readers[k][n].wire,
         readers' = [readers EXCEPT ![k] = [@ EXCEPT ![n] = r]],
         db' = [db EXCEPT ![k[2]][k[1]] = table],
         InOrder(table, Ongoing(r)) = InOrder(db[k[2]][k[1]], Ongoing(readers[k][n])),
         UNCHANGED <<disk, nextID, chanVars, queue, tcp, pinger, bounds>>
  PROVE  LossIsRepaired'
<1> DEFINE old == readers[k][n]
           t == db[k[2]][k[1]]
<1>1. Begins(Pipeline(k), Ongoing(old), Rest(k, old)) /\ Begins(Pipeline(k)', Ongoing(r), Rest(k, r))
  BY ReaderPipes DEF chanVars
<1>2. Rest(k, r) = Rest(k, old) BY DEF Rest
<1>3. \A x \in Greetings : Contains(Pipeline(k), x) => Contains(Pipeline(k)', x)
  <2> HIDE DEF old
  <2> QED BY <1>1, <1>2, OngoingKind DEF Begins
<1>4. /\ k[1] \in Server /\ k[2] \in Server /\ db \in [Server -> [Server -> Table]]
      /\ k = <<k[1], k[2]>> /\ Back(k) = <<k[2], k[1]>>
  BY LinkFacts DEF State, TypeOK, Back
<1>5. db'[k[2]][k[1]] = table /\ \A a \in Server, b \in Server : <<a, b>> # Back(k) => db'[a][b] = db[a][b]
  BY <1>4
<1>6. After(table, Pipeline(k)') = After(t, Pipeline(k))
  <2>1. InOrder(table, Ongoing(r)) = InOrder(t, Ongoing(old)) OBVIOUS
  <2> HIDE DEF old, t
  <2> QED BY <1>1, <1>2, <2>1 DEF Begins
<1>7. After(db'[k[2]][k[1]], Pipeline(k)') = Outcome(k) BY <1>5, <1>6 DEF Outcome
<1>8. \A l \in Link \ {k} : readers'[l] = readers[l] BY DEF State, TypeOK
<1> QED BY <1>3, <1>5, <1>7, <1>8, ReaderRepaired

LEMMA RemoveForeignRepaired ==
  ASSUME State, LossIsRepaired, NEW k \in Link, NEW n \in DOMAIN readers[k], RemoveForeign(k, n)
  PROVE  LossIsRepaired'
<1> DEFINE old == readers[k][n]
           r == [old EXCEPT !.clear = FALSE]
<1>1. /\ old \in Reader /\ r \in Reader /\ old.clear
      /\ r.wire = old.wire /\ r.jobs = old.jobs /\ ~r.clear
      /\ readers' = [readers EXCEPT ![k] = [@ EXCEPT ![n] = r]]
      /\ db' = [db EXCEPT ![k[2]][k[1]] = None]
  BY RemoveForeignFacts
<1>2. UNCHANGED <<disk, nextID, chanVars, queue, tcp, pinger, bounds>> BY DEF RemoveForeign
<1> HIDE DEF r
<1>3. InOrder(None, Ongoing(r)) = Merge(None, r.jobs) BY <1>1, OngoingKind
<1>4. InOrder(db[k[2]][k[1]], Ongoing(old)) = Merge(None, old.jobs)
  <2> HIDE DEF old
  <2> QED BY <1>1, OngoingKind
<1> QED BY <1>1, <1>2, <1>3, <1>4, CopyEdited

LEMMA AddOrModifyRepaired ==
  ASSUME State, LossIsRepaired, NEW k \in Link, NEW n \in DOMAIN readers[k],
         AddOrModifyForeign(k, n)
  PROVE  LossIsRepaired'
<1> DEFINE old == readers[k][n]
           t == db[k[2]][k[1]]
           rest(i) == Restrict(old.jobs, DOMAIN old.jobs \ {i})
           r(i) == [old EXCEPT !.jobs = rest(i)]
           table(i) == Merge(t, One(i, old.jobs[i]))
<1>1. old \in Reader /\ ~old.clear BY AddOrModifyFacts
<1>2. \E i \in DOMAIN old.jobs :
        /\ r(i) \in Reader /\ r(i).wire = old.wire /\ r(i).jobs = rest(i) /\ ~r(i).clear
        /\ readers' = [readers EXCEPT ![k] = [@ EXCEPT ![n] = r(i)]]
        /\ db' = [db EXCEPT ![k[2]][k[1]] = table(i)]
        /\ db' \in [Server -> [Server -> Table]]
        /\ Merge(table(i), rest(i)) = Merge(t, old.jobs)
  BY AddOrModifyFacts, Zenon
<1> HIDE DEF r, table, rest
<1>3. PICK i \in DOMAIN old.jobs :
        /\ r(i) \in Reader /\ r(i).wire = old.wire /\ r(i).jobs = rest(i) /\ ~r(i).clear
        /\ readers' = [readers EXCEPT ![k] = [@ EXCEPT ![n] = r(i)]]
        /\ db' = [db EXCEPT ![k[2]][k[1]] = table(i)]
        /\ Merge(table(i), rest(i)) = Merge(t, old.jobs)
  BY <1>2
<1>4. UNCHANGED <<disk, nextID, chanVars, queue, tcp, pinger, bounds>> BY DEF AddOrModifyForeign
<1>5. InOrder(table(i), Ongoing(r(i))) = Merge(table(i), rest(i)) BY <1>3, OngoingKind
<1>6. InOrder(t, Ongoing(old)) = Merge(t, old.jobs)
  <2> HIDE DEF old
  <2> QED BY <1>1, OngoingKind
<1>7. InOrder(table(i), Ongoing(r(i))) = InOrder(t, Ongoing(old)) BY <1>3, <1>5, <1>6
<1> QED BY <1>3, <1>4, <1>7, CopyEdited

-----------------------------------------------------------------------------
(* The receiver: other messages; and the theorems.                         *)

LEMMA OthersInert ==
  ASSUME NEW t, NEW m, m.kind # "foreign_job_updates"
  PROVE  InOrder(t, m) = t
BY DEF InOrder

\* A message that is not about the sender's jobs is read.
LEMMA ConsumePipes ==
  ASSUME State, NEW k \in Link, NEW n \in DOMAIN readers[k], Reads(k, n), Consume(k, n),
         queue' = queue, updates'[k[1]] = updates[k[1]],
         Received(k, n).kind # "foreign_job_updates"
  PROVE  /\ \A t : After(t, Pipeline(k)') = After(t, Pipeline(k))
         /\ \A x : Contains(Pipeline(k), x) => Contains(Pipeline(k)', x) \/ x = Received(k, n)
         /\ \A l \in Link \ {k} : readers'[l] = readers[l]
<1> DEFINE old == readers[k][n]
           r == [old EXCEPT !.wire = Tail(old.wire)]
           m == Head(old.wire)
           tail == Tail(old.wire)
           q == queue[k]
           c == Chan(k, updates[k[1]])
<1>1. /\ old \in Reader /\ r \in Reader /\ old.wire # <<>>
      /\ Ongoing(r) = Ongoing(old) /\ r.wire = tail
      /\ Received(k, n) = m /\ m \in Message
      /\ readers' = [readers EXCEPT ![k] = [@ EXCEPT ![n] = r]]
  BY ConsumeFacts
<1>2. old.wire = <<m>> \o tail /\ tail \in Seq(Message)
  <2> HIDE DEF old
  <2> QED BY <1>1, WireFacts
<1>3. q \in Seq(Message) /\ c \in Seq(Message) BY PipelineTypes
<1> HIDE DEF r
<1>4. Begins(Pipeline(k), Ongoing(old), Rest(k, old)) /\ Begins(Pipeline(k)', Ongoing(r), Rest(k, r))
  BY <1>1, ReaderPipes
<1>5. Rest(k, old) = ((<<m>> \o tail) \o q) \o c BY <1>2 DEF Rest
<1>6. Rest(k, r) = (tail \o q) \o c BY <1>1 DEF Rest
<1>7. \A l \in Link \ {k} : readers'[l] = readers[l] BY <1>1 DEF State, TypeOK
<1> HIDE DEF old, m, tail, q, c
<1>8. /\ \A t : After(t, Rest(k, old)) = After(InOrder(t, m), Rest(k, r))
      /\ \A x : Contains(Rest(k, old), x) <=> x = m \/ Contains(Rest(k, r), x)
  <2>1. /\ \A t : After(t, ((<<m>> \o tail) \o q) \o c) = After(InOrder(t, m), (tail \o q) \o c)
        /\ \A x : Contains(((<<m>> \o tail) \o q) \o c, x) <=> x = m \/ Contains((tail \o q) \o c, x)
    BY <1>1, <1>2, <1>3, ReadFirst
  <2> QED BY <2>1, <1>5, <1>6
<1>9. \A t : InOrder(t, m) = t BY <1>1, OthersInert
<1>10. \A t : After(t, Pipeline(k)') = After(t, Pipeline(k)) BY <1>1, <1>4, <1>8, <1>9 DEF Begins
<1>11. \A x : Contains(Pipeline(k), x) => Contains(Pipeline(k)', x) \/ x = Received(k, n)
  BY <1>1, <1>4, <1>8 DEF Begins
<1> QED BY <1>7, <1>10, <1>11

LEMMA KnownConnects ==
  ASSUME State, NEW k \in Link, tcp' = Known(k), UNCHANGED <<greets, queue, pinger>>, NEW l \in Link
  PROVE  Connects(l)
<1>1. tcp'[l] = tcp[l] \/ (tcp[l] = "absent" /\ tcp'[l] = "down") BY KnownFacts
<1>2. tcp[l] = "absent" => l \in greets BY DEF State, Shape
<1> QED BY <1>1, <1>2 DEF Connects, WillConnect

LEMMA ReadRequestRepaired ==
  ASSUME State, LossIsRepaired, NEW k \in Link, NEW n \in DOMAIN readers[k], ReadRequest(k, n)
  PROVE  LossIsRepaired'
<1>1. /\ Reads(k, n) /\ Consume(k, n) /\ Received(k, n).kind = "request"
      /\ tcp' = Known(Back(k))
      /\ UNCHANGED <<disk, nextID, syncs, greets, confirms, queue, pinger, bounds>>
  BY DEF ReadRequest
<1>2. \A l \in Link : Connects(l) BY <1>1, LinkFacts, KnownConnects
<1>3. k[1] \in Server /\ k[2] \in Server /\ k[1] # k[2] BY LinkFacts
<1>4. \A l \in Link : l[1] # k[2] =>
         UNCHANGED <<updates[l[1]], db[l[2]][l[1]], db[l[1]][l[1]]>>
  BY <1>3, ReadRequestFacts, EditOthers
<1>5. /\ \A t : After(t, Pipeline(k)') = After(t, Pipeline(k))
      /\ \A x : Contains(Pipeline(k), x) => Contains(Pipeline(k)', x) \/ x = Received(k, n)
      /\ \A l \in Link \ {k} : readers'[l] = readers[l]
  BY <1>1, <1>3, <1>4, ConsumePipes
<1>6. ASSUME NEW l \in Link PROVE Upheld(l) /\ Delivers(l)
  <2>1. CASE l = k
    <3>1. Received(k, n) \notin Greetings BY <1>1 DEF Greetings, NewServer, Confirm
    <3>2. Alike(Pipeline(k), Pipeline(k)') BY <3>1, <1>5 DEF Alike
    <3> QED BY <2>1, <3>2, <1>1, <1>2, <1>3, <1>4, AlikeKeeps DEF Counts
  <2>2. CASE l # k /\ l[1] = k[2]
    <3>1. CASE UNCHANGED <<db, updates>>
      <4>1. Still(l) BY <2>2, <3>1, <1>1, <1>2, <1>5 DEF Still
      <4> QED BY <4>1, StillFacts
    <3>2. ASSUME NEW jobs \in Changes, Edit(k[2], jobs)
          PROVE  Upheld(l) /\ Delivers(l)
      <4>1. /\ Outcome(l) = db[l[1]][l[1]] => (Outcome(l) = db[l[1]][l[1]])'
            /\ \A m : Contains(Pipeline(l), m) => Contains(Pipeline(l)', m)
        BY <2>2, <3>2, <1>1, <1>5, EditDelivers
      <4> QED BY <4>1, <1>1, <1>2 DEF Delivers, Upheld, Counts, Carries, WillGreet, Connects
    <3> QED BY <3>1, <3>2, ReadRequestFacts
  <2>3. CASE l # k /\ l[1] # k[2]
    <3>1. Still(l) BY <2>3, <1>1, <1>2, <1>4, <1>5 DEF Still
    <3> QED BY <3>1, StillFacts
  <2> QED BY <2>1, <2>2, <2>3
<1> SUFFICES ASSUME NEW l \in Link PROVE InStep(l)' BY DEF LossIsRepaired, InStep
<1>7. InStep(l) BY DEF LossIsRepaired, InStep
<1>8. Back(l) \in Link BY LinkFacts
<1> QED BY <1>6, <1>7, <1>8, Kept

LEMMA ReadNewServerRepaired ==
  ASSUME State, LossIsRepaired, NEW k \in Link, NEW n \in DOMAIN readers[k], ReadNewServer(k, n)
  PROVE  LossIsRepaired'
<1>1. /\ Reads(k, n) /\ Consume(k, n) /\ Received(k, n) = NewServer
      /\ tcp' = Known(Back(k)) /\ confirms' = [confirms EXCEPT ![Back(k)] = @ + 1]
      /\ UNCHANGED <<dbVars, updates, syncs, greets, queue, pinger, bounds>>
  BY DEF ReadNewServer
<1>2. Back(k) \in Link /\ Back(Back(k)) = k BY LinkFacts
<1>3. \A l \in Link : Connects(l) BY <1>1, <1>2, KnownConnects
<1>4. \A l \in Link \ {k} : readers'[l] = readers[l]
  <2>1. NewServer.kind # "foreign_job_updates" BY DEF NewServer
  <2> QED BY <2>1, <1>1, ConsumePipes
<1>5. confirms'[Back(k)] > 0
  <2>1. confirms[Back(k)] \in Nat /\ confirms'[Back(k)] = confirms[Back(k)] + 1
    BY <1>1, <1>2 DEF State, TypeOK
  <2> QED BY <2>1
<1>6. InStep(k)' /\ InStep(Back(k))' BY <1>2, <1>5 DEF InStep, RepairBegun
<1>7. \A l \in Link \ {k, Back(k)} : Still(l)
  BY <1>1, <1>3, <1>4 DEF State, TypeOK, Still, dbVars
<1> QED BY <1>6, <1>7, Others

LEMMA ReadConfirmationRepaired ==
  ASSUME State, LossIsRepaired, NEW k \in Link, NEW n \in DOMAIN readers[k],
         ReadConfirmation(k, n)
  PROVE  LossIsRepaired'
<1>1. /\ Reads(k, n) /\ Consume(k, n) /\ Received(k, n) = Confirm
      /\ tcp' = Known(Back(k)) /\ syncs' = [syncs EXCEPT ![Back(k)] = @ + 1]
      /\ UNCHANGED <<dbVars, updates, greets, confirms, queue, pinger, bounds>>
  BY DEF ReadConfirmation
<1>2. Back(k) \in Link /\ Back(Back(k)) = k /\ Back(k) # k BY LinkFacts
<1>3. \A l \in Link : Connects(l) BY <1>1, <1>2, KnownConnects
<1>4. /\ \A t : After(t, Pipeline(k)') = After(t, Pipeline(k))
      /\ \A x : Contains(Pipeline(k), x) => Contains(Pipeline(k)', x) \/ x = Confirm
      /\ \A l \in Link \ {k} : readers'[l] = readers[l]
  <2>1. Confirm.kind # "foreign_job_updates" BY DEF Confirm
  <2> QED BY <2>1, <1>1, ConsumePipes
<1>5. syncs'[Back(k)] > 0
  <2>1. syncs[Back(k)] \in Nat /\ syncs'[Back(k)] = syncs[Back(k)] + 1
    BY <1>1, <1>2 DEF State, TypeOK
  <2> QED BY <2>1
<1>6. InStep(Back(k))' BY <1>5 DEF InStep, RepairBegun
<1>7. \A l \in Link \ {k, Back(k)} : Still(l)
  BY <1>1, <1>3, <1>4 DEF State, TypeOK, Still, dbVars
<1>8. InStep(k)'
  <2>1. InStep(k) BY DEF LossIsRepaired, InStep
  <2>2. Outcome(k)' = Outcome(k) /\ UNCHANGED db BY <1>1, <1>4 DEF Outcome, dbVars
  <2>3. WillGreet(k, NewServer) => WillGreet(k, NewServer)'
    <3>1. NewServer # Confirm BY DEF NewServer, Confirm
    <3> QED BY <3>1, <1>3, <1>4 DEF WillGreet, Connects
  <2>4. Pipeline(Back(k))' = Pipeline(Back(k))
    <3>1. readers'[Back(k)] = readers[Back(k)] BY <1>2, <1>4
    <3> QED BY <3>1, <1>1 DEF Pipeline
  <2>5. \A m : WillGreet(Back(k), m) => WillGreet(Back(k), m)'
    BY <2>4, <1>2, <1>3 DEF WillGreet, Connects
  <2>6. syncs'[k] = syncs[k] /\ confirms' = confirms BY <1>1, <1>2 DEF State, TypeOK
  <2> QED BY <2>1, <2>2, <2>3, <2>5, <2>6 DEF InStep, RepairBegun
<1> QED BY <1>6, <1>7, <1>8, Others

LEMMA InitRepaired ==
  ASSUME Init
  PROVE  LossIsRepaired
<1> SUFFICES ASSUME NEW l \in Link PROVE Outcome(l) = db[l[1]][l[1]] BY DEF LossIsRepaired
<1>1. State /\ db[l[2]][l[1]] = db[l[1]][l[1]] BY InitState, LinkFacts
<1> DEFINE t == db[l[2]][l[1]]
<1>2. t \in Table BY <1>1, LinkFacts DEF State, TypeOK
<1>3. readers[l] = <<Fresh>> /\ queue[l] = <<>> /\ updates[l[1]] = <<>>
  BY LinkFacts DEF Init
<1> DEFINE rs == readers[l]
<1>4. rs \in Seq(Reader) /\ Len(rs) = 1 /\ rs[1] = Fresh
  <2>1. rs \in Seq(Reader) BY <1>1 DEF State, TypeOK
  <2> QED BY <2>1, <1>3
<1>5. Chan(l, <<>>) = <<>> BY DEF Chan
<1>6. Fresh.wire = <<>> /\ ~Fresh.clear /\ Fresh.jobs = None BY DEF Fresh
<1>7. <<>> \in Seq(Message) OBVIOUS
<1>8. Begins((Wires(rs) \o <<>>) \o <<>>, Ongoing(Fresh), (<<>> \o <<>>) \o <<>>)
  <2> HIDE DEF rs
  <2>1. Begins((Wires(rs) \o <<>>) \o <<>>, Ongoing(rs[1]), (rs[1].wire \o <<>>) \o <<>>)
    BY <1>4, <1>7, WorkedOnFirst
  <2> QED BY <2>1, <1>4, <1>6
<1>9. (<<>> \o <<>>) \o <<>> = <<>> OBVIOUS
<1>10. Pipeline(l) = (Wires(rs) \o <<>>) \o <<>> BY <1>3, <1>5, PipelineParts
<1> HIDE DEF t, rs
<1>11. InOrder(t, Ongoing(Fresh)) = t
  <2>1. InOrder(t, Ongoing(Fresh)) = Merge(t, None) BY <1>6, OngoingKind
  <2> QED BY <2>1, <1>2, MergeNone, TableIsCopy
<1>12. After(t, Pipeline(l)) = After(t, <<>>) BY <1>8, <1>9, <1>10, <1>11 DEF Begins
<1>13. Outcome(l) = t BY <1>12, AfterNothing DEF Outcome, t
<1> QED BY <1>1, <1>13 DEF t

LEMMA RepairKept ==
  ASSUME Overlap = FALSE, State, LossIsRepaired, [Next]_vars
  PROVE  LossIsRepaired'
<1>1. CASE UNCHANGED vars
  <2>1. \A l \in Link : Still(l)
    BY <1>1 DEF vars, dbVars, chanVars, connVars, Still, Connects, WillConnect
  <2> SUFFICES ASSUME NEW l \in Link PROVE InStep(l)' BY DEF LossIsRepaired, InStep
  <2>2. InStep(l) /\ Back(l) \in Link BY LinkFacts DEF LossIsRepaired, InStep
  <2> QED BY <2>1, <2>2, StillFacts, Kept
<1>2. ASSUME NEW s \in Server, JobAddLocal(s) \/ JobsModifyLocal(s) \/ JobsRemoveLocal(s)
                               \/ DistributeForeignJobUpdates(s) \/ Restart(s)
      PROVE  LossIsRepaired'
  BY <1>2, EditRepaired, DistributeRepaired, RestartRepaired
<1>3. ASSUME NEW l \in Link, Forward(l) \/ SyncAll(l) \/ BroadcastNewServer(l)
                     \/ ConfirmNewServer(l) \/ Send(l) \/ ConnectFails(l) \/ PingQueue(l)
                     \/ MonitorConnection(l) \/ Break(l) \/ Lose(l)
      PROVE  LossIsRepaired'
  BY <1>3, ForwardRepaired, SyncAllRepaired, BroadcastRepaired, ConfirmRepaired, TransmitRepaired,
     ConnectRepaired, BrokenRepaired, PingRepaired DEF Send
<1>4. ASSUME NEW l \in Link, Receive(l) PROVE LossIsRepaired'
  <2>1. PICK n \in DOMAIN readers[l] : Process(l, n) BY <1>4 DEF Receive
  <2> QED BY <2>1, ReadUpdatesRepaired, RemoveForeignRepaired, AddOrModifyRepaired,
             ReadRequestRepaired, ReadNewServerRepaired, ReadConfirmationRepaired DEF Process
<1>5. CASE Next BY <1>2, <1>3, <1>4, <1>5 DEF Next
<1> QED BY <1>1, <1>5

\* As long as no goroutine still works on what came over an old connection when
\* a peer opens a new one, the state of the handlers, the channels, the queues
\* and the connections keeps its type: ids stay below their bound, copies hold
\* no job that is done, and no ping is written to a connection (jobdb.go,
\* peer_connection.go).
THEOREM SyncTypeTheorem == Overlap = FALSE => (Spec => []TypeOK)
<1> SUFFICES ASSUME Overlap = FALSE PROVE Spec => []TypeOK
  OBVIOUS
<1>1. Init => State BY InitState
<1>2. State /\ [Next]_vars => State' BY StateKept
<1>3. State => TypeOK BY DEF State
<1> QED BY <1>1, <1>2, <1>3, PTL DEF Spec

\* Under the same condition, for any number of servers, jobs, edits, requests,
\* broken connections, refused ones and restarts: either the messages on their
\* way turn a peer's copy into the jobs of their owner, or a complete copy has
\* been set in motion (jobdb.go, peer_connection.go, new_server.go).
THEOREM LossIsRepairedTheorem == Overlap = FALSE => (Spec => []LossIsRepaired)
<1> SUFFICES ASSUME Overlap = FALSE PROVE Spec => []LossIsRepaired
  OBVIOUS
<1>1. Init => State /\ LossIsRepaired BY InitState, InitRepaired
<1>2. State /\ LossIsRepaired /\ [Next]_vars => (State /\ LossIsRepaired)'
  BY StateKept, RepairKept
<1> QED BY <1>1, <1>2, PTL DEF Spec
=============================================================================
