------------------------------ MODULE MCReports ------------------------------
(* Three records of two channels and two recipients, the oldest one old. *)
EXTENDS Reports

CONSTANTS sms, email, r1, r2

Kind     == <<sms, email, sms>>
Owner    == <<r1, r1, r2>>
LastTwo  == {2, 3}
Some     == [e \in Events |-> CASE e = "ask"    -> 1
                                [] e = "change" -> 4
                                [] e = "delete" -> 1
                                [] e = "db"     -> 1]
=============================================================================
