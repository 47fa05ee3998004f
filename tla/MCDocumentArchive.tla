------------------------- MODULE MCDocumentArchive -------------------------
(* Three frames of one invoice: b recognises other and more fields than a,  *)
(* c one of them, under a's document id and with a poor picture.            *)
EXTENDS DocumentArchive

CONSTANTS a, b, c

MCPaper == [s \in Scans |-> "invoice"]
MCIdent == [s \in Scans |-> IF s = b THEN "id 2" ELSE "id 1"]
MCKnown == [s \in Scans |-> CASE s = a -> {"date"}
                              [] s = b -> {"amount", "tax"}
                              [] s = c -> {"amount"}]
MCScore == [s \in Scans |-> IF s = c THEN 0 ELSE IF s = b THEN 2 ELSE 1]
=============================================================================
