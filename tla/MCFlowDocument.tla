--------------------------- MODULE MCFlowDocument ---------------------------
(* Small instances of FlowDocument for TLC.                                *)
EXTENDS FlowDocument

PlanStep(optional, irreversible, depends) ==
    [optional |-> optional, irreversible |-> irreversible, depends |-> depends]
Plain == PlanStep(FALSE, FALSE, {})

Answer(ok, inner, next) ==
    [ok |-> ok, inner |-> inner, next |-> next, healed |-> FALSE,
     inverse |-> FALSE, degraded |-> FALSE, effect |-> FALSE]

Query    == Answer(TRUE, TRUE, "none")
Write    == [Query EXCEPT !.inverse = TRUE, !.effect = TRUE]
DeadAct  == Answer(TRUE, FALSE, "none")
Retry    == Answer(FALSE, TRUE, "retry")
AgainOk  == [Write EXCEPT !.next = "retry"]   \* wrote, and asks to go again

AllReplies == {Query, Write, DeadAct, Retry, AgainOk}

TwoPlans == {<<Plain, Plain, Plain>>, <<PlanStep(TRUE, FALSE, {}), Plain>>,
             <<Plain, PlanStep(FALSE, FALSE, {3}), Plain>>}
=============================================================================
