---------------------------- MODULE MCThinDriver ----------------------------
(* Small instances of ThinDriver for TLC.                                  *)
EXTENDS ThinDriver

\* A plan step and a reply, from the fields that matter to it.
PlanStep(optional, irreversible, depends) ==
    [optional |-> optional, irreversible |-> irreversible, depends |-> depends]
Plain == PlanStep(FALSE, FALSE, {})

Answer(ok, inner, next) ==
    [ok |-> ok, inner |-> inner, next |-> next, healed |-> FALSE,
     inverse |-> FALSE, degraded |-> FALSE, effect |-> FALSE]

Query    == Answer(TRUE, TRUE, "none")
Write    == [Query EXCEPT !.inverse = TRUE, !.effect = TRUE]
Append1  == [Query EXCEPT !.effect = TRUE]              \* no way back
Degraded == [Query EXCEPT !.degraded = TRUE]
DeadAct  == Answer(TRUE, FALSE, "none")                 \* inner ok = False
Lost     == [Answer(FALSE, TRUE, "none") EXCEPT !.effect = TRUE]
Retry    == Answer(FALSE, TRUE, "retry")
Heal     == [Retry EXCEPT !.healed = TRUE]
Acquire  == Answer(FALSE, TRUE, "acquire")
Done     == [Write EXCEPT !.next = "done"]
GiveUp   == [Write EXCEPT !.next = "rollback"]
GoOn     == Answer(FALSE, TRUE, "continue")
Unknown  == [Write EXCEPT !.next = "other"]

AllReplies == {Query, Write, Append1, Degraded, DeadAct, Lost, Retry, Heal,
               Acquire, Done, GiveUp, GoOn, Unknown}

\* Three steps: plain; the last irreversible and dependent on the first; the
\* first optional; a dependency on a step that has not run.
AllPlans == {<<Plain, Plain, PlanStep(FALSE, TRUE, {1})>>,
             <<PlanStep(TRUE, FALSE, {}), PlanStep(FALSE, TRUE, {}), Plain>>,
             <<Plain, PlanStep(FALSE, FALSE, {3}), Plain>>}
=============================================================================
