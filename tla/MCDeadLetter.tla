---------------------------- MODULE MCDeadLetter ----------------------------
(* Budgets for the runs of DeadLetter. *)
EXTENDS DeadLetter

OneOfEach == [e \in Events |-> 1]
=============================================================================
