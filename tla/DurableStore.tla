---------------------------- MODULE DurableStore ----------------------------
(***************************************************************************)
(* What the databases of go-susi promise to those who use them: the data   *)
(* is one value, the file is a copy of it taken in one piece, a restart    *)
(* continues from the file, and a database that has been shut down does    *)
(* not change any more.                                                    *)
(***************************************************************************)
CONSTANT Item

VARIABLES
  data,  \* the items in the database
  file,  \* the items a restart would find
  open   \* not shut down

Init == data \in SUBSET Item /\ file = data /\ open = TRUE

Change ==
  /\ open
  /\ data' \in SUBSET Item
  /\ UNCHANGED <<file, open>>

Save ==
  /\ file' = data
  /\ UNCHANGED <<data, open>>

Close ==
  /\ open' = FALSE
  /\ UNCHANGED <<data, file>>

Restart ==
  /\ data' = file
  /\ open' = TRUE
  /\ UNCHANGED file

Next == Change \/ Save \/ Close \/ Restart

Spec == Init /\ [][Next]_<<data, file, open>>
=============================================================================
