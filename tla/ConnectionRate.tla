--------------------------- MODULE ConnectionRate ---------------------------
(***************************************************************************)
(* One address that connects again and again, each time for a moment, and  *)
(* the limit on its connections per hour.                                  *)
(***************************************************************************)
EXTENDS ConnectionLimits, Sequences

CONSTANTS PerHour,   \* the limit of its certificate
          MaxTime    \* bound: the last time of the clock

\* recent: when a connection was permitted within the last hour, a history.
VARIABLES lim, now, recent
vars == <<lim, now, recent>>

Context == [ConnParallel |-> 0, ConnPerHour |-> PerHour]

\* The first connection has told the limit.
Init ==
  /\ now = 0 /\ recent = <<0>>
  /\ lim = Deregister(Update(Register(Unknown, 0).limits, Context))

Connect ==
  LET result == Register(lim, now) IN
  /\ lim' = IF result.ok THEN Deregister(result.limits) ELSE result.limits
  /\ recent' = IF result.ok THEN Append(recent, now) ELSE recent
  /\ UNCHANGED now

\* Bound: attempts that are turned away are counted up to twice the limit.
Bounded == lim.attempts <= 2 * PerHour

\* The first connections are no longer recent.
Tick ==
  /\ now < MaxTime /\ now' = now + 1
  /\ \E n \in 0..Len(recent) :
       /\ \A i \in DOMAIN recent : i > n <=> now + 1 - recent[i] <= Hour
       /\ recent' = SubSeq(recent, n + 1, Len(recent))
  /\ UNCHANGED lim

Next == (Bounded /\ Connect) \/ Tick

Spec == Init /\ [][Next]_vars

\* The average forgets how late in the hour the connections came, and it may be
\* taken twice within 60 minutes.  Even so an address never gets three times its
\* limit in any hour (it may get more than twice of it).
HourlyBounded == Len(recent) < 3 * PerHour
=============================================================================
