---------------------------- MODULE MCMqnicEvents ----------------------------
(* Small instances of the event path for TLC. *)
EXTENDS MqnicEvents

MCQueues == 1..2
=============================================================================
