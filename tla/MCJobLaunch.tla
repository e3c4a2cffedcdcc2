----------------------------- MODULE MCJobLaunch -----------------------------
(***************************************************************************)
(* Two instances of JobDB for TLC: a behaviour is one of the scenarios     *)
(* below from its first state on.                                          *)
(***************************************************************************)
EXTENDS MCJobDB

VARIABLE scenario

\* Installations and updates of a machine, started here and by others.
Install ==
  INSTANCE JobDB WITH MaxMessages <- 3, MaxTime <- 0,
    Messages <- {"add", "fju", "delete", "progress"}, TMinuses <- {0}

\* A client calls around the time before its jobs are due.
HereIAm ==
  INSTANCE JobDB WITH MaxMessages <- 2, MaxTime <- 2,
    Messages <- {"add", "hia", "ldap"},
    NewTags <- {"trigger_action_audit"}, TMinuses <- {0, 1}

LaunchInit ==
  \/ scenario = "install" /\ Install!Init
  \/ scenario = "here_i_am" /\ HereIAm!Init

LaunchStep ==
  /\ UNCHANGED scenario
  /\ \/ scenario = "install" /\ Install!Next
     \/ scenario = "here_i_am" /\ HereIAm!Next

LaunchSpec == LaunchInit /\ [][LaunchStep]_<<scenario, vars>>
=============================================================================
