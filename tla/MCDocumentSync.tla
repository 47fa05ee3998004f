--------------------------- MODULE MCDocumentSync ---------------------------
(* Two syncs of the archive to one node, one of which overwrites.           *)
EXTENDS DocumentSync
CONSTANTS chat, api
MCSyncs == {chat, api}
MCOverwrites == {chat}
MCRepeated == {chat}
=============================================================================
