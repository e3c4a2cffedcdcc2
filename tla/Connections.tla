---------------------------- MODULE Connections ----------------------------
(***************************************************************************)
(* The two limits of connectionlimits.go at work: how many connections     *)
(* there are (AcceptLoop), and how often an address connects               *)
(* (ConnectionRate).                                                       *)
(***************************************************************************)
EXTENDS AcceptLoop

CONSTANTS PerHour, MaxTime
VARIABLES lim, now, recent
Rate == INSTANCE ConnectionRate

\* ConnectionsAccounted of every interleaving of accepts, handlers and errors, and
\* HourlyBounded of every rhythm of connections.
ConnectionsLimited == ConnectionsAccounted /\ Rate!HourlyBounded
=============================================================================
