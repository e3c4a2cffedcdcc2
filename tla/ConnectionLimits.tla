-------------------------- MODULE ConnectionLimits --------------------------
(***************************************************************************)
(* security/connectionlimits.go: what go-susi remembers of an IP address,  *)
(* and how Register, Deregister and Update change it.  Register returns    *)
(* whether the connection is permitted, too.  A limit of 0 is none.        *)
(***************************************************************************)
EXTENDS Integers

CONSTANT HalfHour   \* 30 minutes in units of the clock

Hour == 2 * HalfHour

Unknown == [known |-> FALSE, first |-> 0, last |-> 0, attempts |-> 0, active |-> 0,
            maxactive |-> 0, maxPerHour |-> 0]

\* After an hour without an attempt counting starts anew.
Rested(lim, now) ==
  CASE ~lim.known -> [lim EXCEPT !.known = TRUE, !.first = now, !.last = now]
    [] lim.known /\ now - lim.last > Hour ->
         [lim EXCEPT !.first = now, !.last = now, !.attempts = 0]
    [] OTHER -> lim

\* Attempts older than an hour: the average of half an hour is what remains.
Averaged(lim, now) ==
  IF now - lim.first > Hour
  THEN [lim EXCEPT !.attempts = (HalfHour * @) \div (now - lim.first),
                   !.first = now - HalfHour]
  ELSE lim

Attempted(lim, now) ==
  [Averaged(Rested(lim, now), now) EXCEPT !.last = now, !.attempts = @ + 1]

Permits(lim) ==
  /\ lim.maxactive > 0 => lim.active < lim.maxactive
  /\ lim.maxPerHour > 0 => lim.attempts <= lim.maxPerHour

\* Seeded bug: a connection that is turned away is counted as active.
RegisterAll(lim, now) ==
  LET tried == Attempted(lim, now)
  IN  [ok |-> Permits(tried), limits |-> [tried EXCEPT !.active = @ + 1]]

Register(lim, now) ==
  LET tried == Attempted(lim, now)
  IN  IF Permits(tried)
      THEN [ok |-> TRUE, limits |-> [tried EXCEPT !.active = @ + 1]]
      ELSE [ok |-> FALSE, limits |-> tried]

Deregister(lim) == [lim EXCEPT !.active = @ - 1]

Update(lim, context) ==
  [lim EXCEPT !.maxactive = context.ConnParallel, !.maxPerHour = context.ConnPerHour]
=============================================================================
