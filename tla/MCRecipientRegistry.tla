------------------------ MODULE MCRecipientRegistry ------------------------
(* Small instances of RecipientRegistry. *)
EXTENDS RecipientRegistry, TLC

CONSTANTS ann, Ann

\* Two spellings of one address.
Lower == ann :> ann @@ Ann :> ann

Everything == [e \in Events |-> 1]
=============================================================================
