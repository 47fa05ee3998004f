-------------------------- MODULE MCConnectorPools --------------------------
(* Threads of a node, a command line connector and the handlers.            *)
EXTENDS ConnectorPools, TLC
CONSTANTS t1, t2, cli, handler
MCCallers == {t1, t2}
MCConnectors == {cli, handler}
=============================================================================
