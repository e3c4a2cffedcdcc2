----------------------------- MODULE MCJobSync -----------------------------
(* Instances of JobSync for TLC. *)
EXTENDS JobSync

Launch == {[status |-> "processing"]}
LaunchOrReschedule == Launch \cup {[timestamp |-> t] : t \in Time}

BreakOrRestart == {{"break", "refuse"}, {"restart"}}
BreakOnly == {{"break"}}
NoFaults == {{}}
=============================================================================
