---------------------------- MODULE RetryPolicy ----------------------------
(***************************************************************************)
(* What the delivery pipeline promises for one accepted notification, with *)
(* no queue, no worker and no database in sight: it is tried until the     *)
(* provider takes it, at most MaxAttempts times, and it is given up only   *)
(* when every try was used and refused.  Delivery refines this module.     *)
(***************************************************************************)
EXTENDS Integers

CONSTANTS Ids,          \* the notifications a client may ask for
          MaxAttempts   \* tries per notification (maxAttempts of the record)

VARIABLES phase,        \* phase[id]: how far the notification has come
          tries         \* tries[id]: calls of the provider for it so far

policyVars == <<phase, tries>>

Phases == {"none", "open", "delivered", "gaveUp"}

PolicyTypeOK == /\ phase \in [Ids -> Phases]
                /\ tries \in [Ids -> 0..MaxAttempts]

Init == /\ phase = [id \in Ids |-> "none"]
        /\ tries = [id \in Ids |-> 0]

\* A client asks for the notification.
Accept(id) == /\ phase[id] = "none"
              /\ phase' = [phase EXCEPT ![id] = "open"]
              /\ UNCHANGED tries

\* One call of the provider, which takes the notification or refuses it.
Try(id, outcome) == /\ phase[id] = "open"
                    /\ tries[id] < MaxAttempts
                    /\ tries' = [tries EXCEPT ![id] = @ + 1]
                    /\ phase' = [phase EXCEPT ![id] = outcome]

\* Every try was used and none was taken.
GiveUp(id) == /\ phase[id] = "open"
              /\ tries[id] = MaxAttempts
              /\ phase' = [phase EXCEPT ![id] = "gaveUp"]
              /\ UNCHANGED tries

Resolve(id) == Try(id, "open") \/ Try(id, "delivered") \/ GiveUp(id)

Next == \E id \in Ids : Accept(id) \/ Resolve(id)

Safe == Init /\ [][Next]_policyVars

Spec == Safe /\ \A id \in Ids : WF_policyVars(Resolve(id))
=============================================================================
