----------------------------- MODULE MCLifecycle -----------------------------
(* Budgets for the run of Lifecycle. *)
EXTENDS Lifecycle

Several == [e \in Failures |-> IF e = "connect" THEN 2 ELSE 1]
=============================================================================
