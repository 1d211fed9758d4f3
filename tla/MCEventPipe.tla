---------------------------- MODULE MCEventPipe ----------------------------
(* Instances of EventPipe for TLC: two threads deliver packets. *)
EXTENDS EventPipe
TwoProducers == {"p1", "p2"}
=============================================================================
