----------------------------- MODULE ThinDriver -----------------------------
(***************************************************************************)
(* The thin flow driver of urirun_flow/flow_thin.py: the loop that         *)
(* dispatches the steps of a plan one after the other and follows the      *)
(* next-intent each reply carries (continue, retry, acquire, rollback,     *)
(* done), the ledger of inverses it keeps for a SAGA rollback, and the     *)
(* circuit breaker.                                                        *)
(*                                                                         *)
(* The driver is a single thread; a dispatch is one call over the network  *)
(* and is one action, whose reply is chosen from the set Replies.  What a  *)
(* dispatch does to the world is kept beside the driver's own state:       *)
(* every mutation gets a number, "world" holds the ones that are in place  *)
(* and "reported" the ones whose reply carried an inverse.                 *)
(***************************************************************************)
EXTENDS Naturals, Sequences, FiniteSets

CONSTANTS
    Plans,            \* the plans the driver may be given
    Replies,          \* the replies a dispatched step may give
    MaxRetries,       \* max_retries of _thin_driver
    MaxRemediations,  \* max_remediations of _thin_driver
    InverseReplies    \* how a dispatched inverse may end

\* A plan step: its id is its position, since normalize_flow makes ids unique.
StepType == [optional     : BOOLEAN,
             irreversible : BOOLEAN,
             depends      : SUBSET Nat]

Intents == {"none", "continue", "retry", "acquire", "rollback", "done", "other"}

\* A reply: transport ok, the action's own ok, the intent it carries ("none"
\* when the envelope has no next), healed, an inverse, a degraded outcome, and
\* whether the mutation it stands for took place (unknown to the driver).
ReplyType == [ok : BOOLEAN, inner : BOOLEAN, next : Intents, healed : BOOLEAN,
              inverse : BOOLEAN, degraded : BOOLEAN, effect : BOOLEAN]

ASSUME PlansAssumption == Plans \subseteq Seq(StepType)
ASSUME BudgetAssumption == MaxRetries \in Nat /\ MaxRemediations \in Nat
\* An inverse undoes its mutation ("undone"), fails ("failed"), undoes it but
\* its answer is lost ("lost"), or is refused by the action under a transport
\* that answers ok ("refused").
ASSUME InverseAssumption ==
    InverseReplies \subseteq {"undone", "failed", "lost", "refused"}
\* The connector contract: only a mutation that succeeded returns an inverse.
ASSUME ReplyAssumption ==
    /\ Replies \subseteq ReplyType
    /\ \A r \in Replies : r.inverse => r.ok /\ r.inner /\ r.effect

VARIABLES
    plan,             \* the steps
    pc,               \* what the driver does next
    pos,              \* the step the loop is at
    ledger,           \* envelope.ledger: the mutations whose inverse it holds
    undone,           \* the ledger entries rolled back, in the order undone
    retriesUsed,      \* envelope.retries_used
    remediationsUsed, \* envelope.remediations_used
    healed,           \* the retry under way follows a self-heal
    results,          \* results[step id]
    timeline,         \* the step entries of the timeline
    verdict,          \* what the driver returned, "none" while it runs
    clock,            \* number of mutations made so far
    world,            \* the mutations in place
    reported          \* the mutations whose reply carried an inverse

driverVars == <<plan, pc, pos, ledger, undone, retriesUsed, remediationsUsed,
                healed, results, timeline, verdict>>
worldVars == <<clock, world, reported>>
vars == <<driverVars, worldVars>>

Steps == 1..Len(plan)
Step == plan[pos]

\* What the driver keeps of a reply under results[id]; mutation is the number
\* of the mutation the reply's inverse undoes, 0 when it carries none.
NoResult == [present |-> FALSE, ok |-> FALSE, inner |-> FALSE,
             degraded |-> FALSE, dispatched |-> FALSE, mutation |-> 0]
ResultType == [present : BOOLEAN, ok : BOOLEAN, inner : BOOLEAN,
               degraded : BOOLEAN, dispatched : BOOLEAN, mutation : Nat]

Tags == {"step", "retry", "blocked", "recovery"}
EntryType == [id : Nat, tag : Tags, ok : BOOLEAN]

Kinds == {"none", "aborted", "missing-dependency", "blocked", "step-failed",
          "failed", "goal-failed", "done", "raised"}
VerdictType == [kind : Kinds, rollback : {"none", "ok", "stuck"}]
Running == [kind |-> "none", rollback |-> "none"]

Init == /\ plan \in Plans
        /\ pc = "loop"
        /\ pos = 1
        /\ ledger = << >>
        /\ undone = << >>
        /\ retriesUsed = 0
        /\ remediationsUsed = 0
        /\ healed = FALSE
        /\ results = [i \in Steps |-> NoResult]
        /\ timeline = << >>
        /\ verdict = Running
        /\ clock = 0
        /\ world = {}
        /\ reported = {}

-----------------------------------------------------------------------------
(* Reading a reply.                                                        *)

\* A step is ok only when the transport and the action's own result are.
ActionOk(r) == r.ok /\ r.inner

\* The reply with the inner failure folded into the transport ok.
FoldInnerOk(r) == [r EXCEPT !.ok = ActionOk(r)]

NextKind(r) == IF r.next # "none" THEN r.next
               ELSE IF r.ok THEN "continue" ELSE "rollback"

\* The number of the mutation the reply reports an inverse for.
Mutation(r) == IF r.inverse THEN clock + 1 ELSE 0

ResultOf(r) == [present |-> TRUE, ok |-> r.ok, inner |-> r.inner,
                degraded |-> r.degraded, dispatched |-> TRUE,
                mutation |-> Mutation(r)]

\* What the dispatched call did to the world.
Happens(r) ==
    /\ clock' = IF r.effect THEN clock + 1 ELSE clock
    /\ world' = IF r.effect THEN world \cup {clock + 1} ELSE world
    /\ reported' = IF r.inverse THEN reported \cup {clock + 1} ELSE reported

UpdateLedger(r) ==
    ledger' = IF r.ok /\ r.inverse THEN Append(ledger, clock + 1) ELSE ledger

Log(tag, ok) ==
    timeline' = Append(timeline, [id |-> pos, tag |-> tag, ok |-> ok])

Return(kind, rollback) ==
    /\ pc' = "returned"
    /\ verdict' = [kind |-> kind, rollback |-> rollback]

-----------------------------------------------------------------------------
(* The top of the loop.                                                    *)

AtStep == pc = "loop" /\ pos <= Len(plan)

BudgetExceeded == \/ retriesUsed > MaxRetries
                  \/ remediationsUsed > MaxRemediations

MissingDeps == \E d \in Step.depends : d \notin Steps \/ ~results[d].present

\* Mutant: only the step just before is looked at.
LastResultDegraded == pos > 1 /\ results[pos - 1].degraded

ResultsDegraded == \E i \in Steps : results[i].degraded

\* The circuit breaker: a spent budget, or the wall clock, ends the flow where
\* it stands.  The clock may run out before any step.
CircuitBreak ==
    /\ AtStep
    /\ Return("aborted", "none")
    /\ UNCHANGED <<plan, pos, ledger, undone, retriesUsed, remediationsUsed,
                   healed, results, timeline, worldVars>>

CheckStepDeps ==
    /\ AtStep
    /\ ~BudgetExceeded
    /\ MissingDeps
    /\ Log("step", FALSE)
    /\ Return("missing-dependency", "none")
    /\ UNCHANGED <<plan, pos, ledger, undone, retriesUsed, remediationsUsed,
                   healed, results, worldVars>>

\* An irreversible step is not dispatched once a prior result was degraded; it
\* is recorded as an ok result and the flow goes on.
SkipIrreversible ==
    /\ AtStep
    /\ ~BudgetExceeded
    /\ ~MissingDeps
    /\ Step.irreversible
    /\ ResultsDegraded
    /\ Log("step", TRUE)
    /\ results' = [results EXCEPT ![pos] =
                     [NoResult EXCEPT !.present = TRUE, !.ok = TRUE, !.inner = TRUE]]
    /\ pos' = pos + 1
    /\ UNCHANGED <<plan, pc, ledger, undone, retriesUsed, remediationsUsed,
                   healed, verdict, worldVars>>

Dispatchable == /\ AtStep
                /\ ~BudgetExceeded
                /\ ~MissingDeps
                /\ ~(Step.irreversible /\ ResultsDegraded)

\* The reply of an optional step is recorded and otherwise ignored.
OptionalStep(r) ==
    /\ Dispatchable
    /\ Step.optional
    /\ Happens(r)
    /\ Log("step", r.ok)
    /\ results' = [results EXCEPT ![pos] = ResultOf(r)]
    /\ pos' = pos + 1
    /\ UNCHANGED <<plan, pc, ledger, undone, retriesUsed, remediationsUsed,
                   healed, verdict>>

\* Where the intent of a mandatory step's folded reply leads.
FollowIntent(r) ==
    LET kind == NextKind(r)
    IN  \/ /\ kind \in {"continue", "other"}
           /\ r.ok \/ kind = "other"
           /\ pos' = pos + 1
           /\ UNCHANGED <<pc, verdict, healed>>
        \/ /\ kind = "continue"
           /\ ~r.ok
           /\ Return("step-failed", "none")
           /\ UNCHANGED <<pos, healed>>
        \/ /\ kind = "retry"
           /\ pc' = "retry"
           /\ healed' = r.healed
           /\ UNCHANGED <<pos, verdict>>
        \/ /\ kind = "acquire"
           /\ pc' = "ensure"
           /\ UNCHANGED <<pos, verdict, healed>>
        \/ /\ kind = "rollback"
           /\ pc' = "rollback"
           /\ UNCHANGED <<pos, verdict, healed>>
        \/ /\ kind = "done"
           /\ pc' = "goal"
           /\ UNCHANGED <<pos, verdict, healed>>

MandatoryStep(reply) ==
    LET r == FoldInnerOk(reply)
    IN  /\ Dispatchable
        /\ ~Step.optional
        /\ Happens(r)
        /\ UpdateLedger(r)
        /\ Log("step", r.ok)
        /\ results' = [results EXCEPT ![pos] = ResultOf(r)]
        /\ FollowIntent(r)
        /\ UNCHANGED <<plan, undone, retriesUsed, remediationsUsed>>

-----------------------------------------------------------------------------
(* The one retry of a step, after a retry or an acquire intent.            *)

\* The step is dispatched again.  Its reply replaces the step's result but is
\* neither folded nor entered in the ledger, and "done" only goes on.
RetryOnce(r) ==
    /\ pc = "retry"
    /\ retriesUsed' = retriesUsed + 1
    /\ remediationsUsed' = IF healed THEN remediationsUsed + 1 ELSE remediationsUsed
    /\ Happens(r)
    /\ Log("retry", r.ok)
    /\ results' = [results EXCEPT ![pos] = ResultOf(r)]
    /\ \/ /\ NextKind(r) \in {"continue", "done"}
          /\ pc' = "loop"
          /\ pos' = pos + 1
       \/ /\ NextKind(r) \notin {"continue", "done"}
          /\ pc' = "rollback"
          /\ UNCHANGED pos
    /\ healed' = FALSE
    /\ UNCHANGED <<plan, ledger, undone, verdict>>

\* ready://<node>/ready/command/ensure answers that the precondition is
\* satisfied or was acquired: the step is retried.
AcquireThenRetry ==
    /\ pc = "ensure"
    /\ pc' = "retry"
    /\ healed' = TRUE
    /\ UNCHANGED <<plan, pos, ledger, undone, retriesUsed, remediationsUsed,
                   results, timeline, verdict, worldVars>>

\* It is not: the flow stops, blocked on the precondition.
AcquireBlocked ==
    /\ pc = "ensure"
    /\ Log("blocked", FALSE)
    /\ Return("blocked", "none")
    /\ UNCHANGED <<plan, pos, ledger, undone, retriesUsed, remediationsUsed,
                   healed, results, worldVars>>

-----------------------------------------------------------------------------
(* Goal verification and rollback.                                         *)

\* After the loop, or on "done".
AtGoal == \/ pc = "goal"
          \/ pc = "loop" /\ pos > Len(plan)

\* A missing or broken verifier counts as met.
GoalMet ==
    /\ AtGoal
    /\ Return("done", "none")
    /\ UNCHANGED <<plan, pos, ledger, undone, retriesUsed, remediationsUsed,
                   healed, results, timeline, worldVars>>

GoalFailed ==
    /\ AtGoal
    /\ pc' = "goal-rollback"
    /\ UNCHANGED <<plan, pos, ledger, undone, retriesUsed, remediationsUsed,
                   healed, results, timeline, verdict, worldVars>>

Pending == Len(ledger) - Len(undone)   \* ledger entries not yet undone
RollingBack == pc \in {"rollback", "goal-rollback"}
Why == IF pc = "goal-rollback" THEN "goal-failed" ELSE "failed"

\* What a dispatched inverse did to the world.
Reverts(how, m) ==
    world' = IF how \in {"undone", "lost"} THEN world \ {m} ELSE world

\* Mutant: a failed inverse is counted as undone.
UndoLastIgnoringFailure(how) ==
    /\ RollingBack
    /\ Pending > 0
    /\ Reverts(how, ledger[Pending])
    /\ undone' = Append(undone, ledger[Pending])
    /\ Log("recovery", TRUE)
    /\ UNCHANGED <<plan, pc, pos, ledger, retriesUsed, remediationsUsed, healed,
                   results, verdict, clock, reported>>

\* The inverse of the last entry not yet undone is dispatched, and its answer's
\* transport ok (the inner ok is not folded here) counts it as undone.
UndoLast(how) ==
    /\ RollingBack
    /\ Pending > 0
    /\ how \in {"undone", "refused"}
    /\ Reverts(how, ledger[Pending])
    /\ undone' = Append(undone, ledger[Pending])
    /\ Log("recovery", TRUE)
    /\ UNCHANGED <<plan, pc, pos, ledger, retriesUsed, remediationsUsed, healed,
                   results, verdict, clock, reported>>

\* The inverse fails, or its answer is lost after it took effect: either way
\* the rollback stops and names the inverse it is stuck at.
UndoFails(how) ==
    /\ RollingBack
    /\ Pending > 0
    /\ how \in {"failed", "lost"}
    /\ Reverts(how, ledger[Pending])
    /\ Log("recovery", FALSE)
    /\ Return(Why, "stuck")
    /\ UNCHANGED <<plan, pos, ledger, undone, retriesUsed, remediationsUsed,
                   healed, results, clock, reported>>

\* Mutant: the loop over the reversed ledger stops one entry short.
RollbackDoneOneShort ==
    /\ RollingBack
    /\ Pending <= 1
    /\ Return(Why, "ok")
    /\ UNCHANGED <<plan, pos, ledger, undone, retriesUsed, remediationsUsed,
                   healed, results, timeline, worldVars>>

\* Mutant: a rollback with an empty ledger never returns.
RollbackDoneIfAnything ==
    /\ RollingBack
    /\ Pending = 0
    /\ ledger # << >>
    /\ Return(Why, "ok")
    /\ UNCHANGED <<plan, pos, ledger, undone, retriesUsed, remediationsUsed,
                   healed, results, timeline, worldVars>>

RollbackDone ==
    /\ RollingBack
    /\ Pending = 0
    /\ Return(Why, "ok")
    /\ UNCHANGED <<plan, pos, ledger, undone, retriesUsed, remediationsUsed,
                   healed, results, timeline, worldVars>>

\* A dispatch raises (an answer that is not JSON, a schema that does not
\* compile): the exception leaves the driver, with or without the mutation.
DispatchRaises(landed) ==
    /\ \/ Dispatchable
       \/ pc = "retry"
    /\ clock' = IF landed THEN clock + 1 ELSE clock
    /\ world' = IF landed THEN world \cup {clock + 1} ELSE world
    /\ Return("raised", "none")
    /\ UNCHANGED <<plan, pos, ledger, undone, retriesUsed, remediationsUsed,
                   healed, results, timeline, reported>>

\* So does an exception of the ensure call or of the goal check.
CallRaises ==
    /\ pc = "ensure" \/ AtGoal
    /\ Return("raised", "none")
    /\ UNCHANGED <<plan, pos, ledger, undone, retriesUsed, remediationsUsed,
                   healed, results, timeline, worldVars>>

\* And one of an inverse: nothing is recorded and the rollback ends there.
InverseRaises(how) ==
    /\ RollingBack
    /\ Pending > 0
    /\ how \in {"failed", "lost"}
    /\ Reverts(how, ledger[Pending])
    /\ Return("raised", "stuck")
    /\ UNCHANGED <<plan, pos, ledger, undone, retriesUsed, remediationsUsed,
                   healed, results, timeline, clock, reported>>

Next == \/ CircuitBreak
        \/ CheckStepDeps
        \/ SkipIrreversible
        \/ \E r \in Replies : OptionalStep(r) \/ MandatoryStep(r) \/ RetryOnce(r)
        \/ AcquireThenRetry
        \/ AcquireBlocked
        \/ GoalMet
        \/ GoalFailed
        \/ \E how \in InverseReplies : UndoLast(how) \/ UndoFails(how) \/ InverseRaises(how)
        \/ \E b \in BOOLEAN : DispatchRaises(b)
        \/ CallRaises
        \/ RollbackDone

Spec == Init /\ [][Next]_vars

\* Every call of the transport returns or raises (it has a timeout), so the
\* driver's thread always makes its next step.
FairSpec == Spec /\ WF_vars(Next)

-----------------------------------------------------------------------------
(* Properties.                                                             *)

InLedger(m) == \E k \in 1..Len(ledger) : ledger[k] = m

\* The type invariant of the driver and of the world it acts on.
TypeOK ==
    /\ plan \in Plans
    /\ pc \in {"loop", "retry", "ensure", "goal", "rollback", "goal-rollback",
              "returned"}
    /\ pos \in 1..(Len(plan) + 1)
    /\ pc \in {"retry", "ensure"} => pos \in Steps
    /\ ledger \in Seq(1..clock)
    /\ undone \in Seq(1..clock)
    /\ Len(undone) <= Len(ledger)
    /\ retriesUsed \in Nat
    /\ remediationsUsed \in Nat
    /\ healed \in BOOLEAN
    /\ results \in [Steps -> ResultType]
    /\ timeline \in Seq(EntryType)
    /\ verdict \in VerdictType
    /\ clock \in Nat
    /\ world \subseteq 1..clock
    /\ reported \subseteq 1..clock

\* The ledger of _thin_update_ledger lists mutations whose connector reported
\* an inverse, in the order they were made, each once; and undone is its tail
\* read backwards, whatever the inverses answered.
LedgerInOrder ==
    /\ \A i, j \in 1..Len(ledger) : i < j => ledger[i] < ledger[j]
    /\ \A i \in 1..Len(ledger) : ledger[i] \in reported
    /\ \A i \in 1..Len(undone) : undone[i] = ledger[Len(ledger) + 1 - i]

\* Until the driver has returned from _thin_rollback, exactly the ledger
\* entries it has not passed are still in place, provided no connector
\* answers ok for an inverse it refused.
LedgerMatchesWorld ==
    "refused" \notin InverseReplies =>
        /\ \A i \in 1..Len(ledger) :
              (i <= Pending /\ verdict.rollback # "stuck") => ledger[i] \in world
        /\ \A i \in 1..Len(ledger) : i > Pending => ledger[i] \notin world

\* The strengthening that is inductive: besides the above, nothing is undone
\* before a rollback begins, a verdict is given only on return, "ok" only with
\* the whole ledger passed, a retry is only ever entered within the budgets,
\* and steps beyond the loop's position have no result.
DriverInv ==
    /\ LedgerInOrder
    /\ LedgerMatchesWorld
    /\ pc \in {"loop", "retry", "ensure", "goal"} => undone = << >>
    /\ pc # "returned" => verdict = Running
    /\ verdict.rollback = "ok" => Pending = 0
    /\ retriesUsed <= MaxRetries + 1 /\ remediationsUsed <= MaxRemediations + 1
    /\ pc \in {"retry", "ensure"} =>
          retriesUsed <= MaxRetries /\ remediationsUsed <= MaxRemediations
    /\ \A i \in Steps : i > pos \/ (i = pos /\ pc = "loop") => results[i] = NoResult

\* A rollback that answers ok (a failed step or a failed goal check) left none
\* of the mutations of the ledger in place; one that is stuck left only older
\* ones than every mutation it undid.
RollbackCleans ==
    "refused" \notin InverseReplies =>
        /\ verdict.rollback = "ok" => \A m \in world : ~InLedger(m)
        /\ verdict.rollback = "stuck" =>
              \A m \in world, i \in 1..Len(undone) : InLedger(m) => m < undone[i]

\* _thin_rollback unwinds last-in first-out: a mutation of the ledger is only
\* ever taken back once every later one of the ledger is gone.
UndoesNewest ==
    "refused" \notin InverseReplies =>
        \A m \in world \ world' :
            InLedger(m) /\ \A n \in world' : InLedger(n) => n < m
LifoUndo == [][UndoesNewest]_vars

\* The guard of _thin_dispatch_step: no irreversible step is ever dispatched,
\* nor dispatched again by a retry, after an earlier step came out degraded.
NoIrreversibleAfterDegraded ==
    \A i \in Steps :
        plan[i].irreversible /\ results[i].dispatched =>
            \A j \in 1..(i - 1) : ~results[j].degraded

\* The circuit breaker is only looked at between two steps, yet no budget is
\* ever overrun by more than the one retry that spends it.
BudgetsHold == /\ retriesUsed <= MaxRetries + 1
               /\ remediationsUsed <= MaxRemediations + 1

\* Whatever the steps answer, the driver returns (or raises): no chain of
\* retries, acquires and inverses keeps a flow running forever.
Terminates == <>(pc = "returned")

\* The ledger and the driver's control implement the saga: nothing is recorded
\* once the rollback has begun, and it ends in one of the saga's five ways.
SagaPhase ==
    IF verdict.kind = "none" THEN IF RollingBack THEN "undoing" ELSE "running"
    ELSE IF verdict.kind = "done" THEN "committed"
    ELSE CASE verdict.rollback = "ok"    -> "undone"
           [] verdict.rollback = "stuck" -> "stuck"
           [] verdict.rollback = "none"  -> "abandoned"

S == INSTANCE Saga WITH log <- SubSeq(ledger, 1, Pending), phase <- SagaPhase
ImplementsSaga == S!Spec

-----------------------------------------------------------------------------
(* What the repository says of the driver and the code does not do.        *)

\* "If a step result carries an inverse, push it into envelope.ledger for SAGA
\* rollback": a rollback that answers ok leaves no mutation in place whose
\* mandatory step reported its inverse.
RollbackCoversReported ==
    verdict.rollback = "ok" => world \cap reported = {}
=============================================================================
