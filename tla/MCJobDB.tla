------------------------------ MODULE MCJobDB ------------------------------
(* Instances of JobDB for TLC. *)
EXTENDS JobDB, TLC

AllTags == {"trigger_action_reinstall", "trigger_action_update",
            "trigger_action_audit"}

\* Goroutine slots are interchangeable.
SlotSymmetry == Permutations(Slot)
=============================================================================
