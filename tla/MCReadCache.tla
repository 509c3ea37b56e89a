---------------------------- MODULE MCReadCache ----------------------------
(* Small instances of ReadCache. *)
EXTENDS ReadCache, TLC

CONSTANTS n1, n2, email, sms, alice, bob

\* Two notifications of one channel for two recipients.
OneChannel    == n1 :> email @@ n2 :> email
TwoRecipients == n1 :> alice @@ n2 :> bob

OneOfEmail    == n1 :> email
OneOfAlice    == n1 :> alice

NoFailures    == [e \in Events |-> 0]
SomeFailures  == [e \in Events |-> 1]
=============================================================================
