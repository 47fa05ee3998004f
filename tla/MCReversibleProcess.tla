------------------------- MODULE MCReversibleProcess -------------------------
(* Small instances of ReversibleProcess for TLC.                           *)
EXTENDS ReversibleProcess

\* Three reversible steps around a query, and every way a flow is refused.
AllFlows == {<<"reversible", "query", "reversible">>,
             <<"reversible", "reversible", "unlisted">>,
             <<"query", "irreversible">>}

Ok(inverse, effect) == [ok |-> TRUE, inverse |-> inverse, effect |-> effect]
Failed(inverse, effect) == [ok |-> FALSE, inverse |-> inverse, effect |-> effect]

\* A step that works, one that breaks its declaration, one that fails before
\* or after its effect, also with an inverse in its answer.
AllAnswers == {Ok(TRUE, TRUE), Ok(FALSE, TRUE), Ok(FALSE, FALSE),
               Failed(FALSE, FALSE), Failed(FALSE, TRUE), Failed(TRUE, TRUE)}

\* An inverse that works, that answers ok and does nothing, that fails before
\* or after its effect.
AllUndoAnswers == [ok : BOOLEAN, effect : BOOLEAN]
=============================================================================
