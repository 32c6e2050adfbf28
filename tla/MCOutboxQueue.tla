-------------------------- MODULE MCOutboxQueue --------------------------
(* Small instances of OutboxQueue. *)
EXTENDS OutboxQueue

MCMsg   == {"a", "b"}
MCRcpts == [m \in MCMsg |-> IF m = "a" THEN 2 ELSE 1]
MCSize  == [m \in MCMsg |-> IF m = "b" THEN 2 ELSE 1]
=============================================================================
