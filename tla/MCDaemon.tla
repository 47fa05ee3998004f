------------------------------ MODULE MCDaemon ------------------------------
(* Two daemons on one path, one after the other or not, and three calls.    *)
EXTENDS Daemon
CONSTANTS d1, d2, c1, c2, c3
MCDaemons == {d1, d2}
MCClients == {c1, c2, c3}
MCAsks == [c \in MCClients |-> IF c = c3 THEN "shutdown" ELSE "uri"]
=============================================================================
