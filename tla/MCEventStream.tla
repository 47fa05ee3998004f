---------------------------- MODULE MCEventStream ----------------------------
(* Small instances of EventStream: two runs whose three events overflow a    *)
(* ring, a queue and a connection, and a client that connects twice.         *)
EXTENDS EventStream

CONSTANTS p1, p2
=============================================================================
