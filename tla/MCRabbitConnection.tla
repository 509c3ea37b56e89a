------------------------- MODULE MCRabbitConnection -------------------------
(* Small instances of RabbitConnection. *)
EXTENDS RabbitConnection

Times(refused, failed, dropped) == [e \in Events |->
  CASE e = "refused" -> refused [] e = "channel" -> failed [] e = "drop" -> dropped]

Everything == Times(1, 1, 2)
=============================================================================
