----------------------------- MODULE MCDelivery -----------------------------
(* Budgets and symmetry for the runs of Delivery. *)
EXTENDS DeliveryInvariant, TLC

NoEvents == [e \in Events |-> 0]

Outages  == [NoEvents EXCEPT !["drop"] = 1, !["shutdown"] = 1]
Failures == [e \in Events |-> CASE e \in {"drop", "shutdown"} -> 0
                                [] e = "db"                   -> 2
                                [] OTHER                      -> 1]
OneDrop  == [NoEvents EXCEPT !["drop"] = 1]

WorkerSymmetry == Permutations(Workers)
=============================================================================
