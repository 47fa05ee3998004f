-------------------------- MODULE ReversibleProcess --------------------------
(***************************************************************************)
(* The reversible engine of urirun_twin/reversible.py: execute runs a flow *)
(* step by step, re-scans the environment's state after each call and      *)
(* enters every mutation with its inverse in a ledger; the rollback then   *)
(* walks the ledger backwards.  Three rollbacks exist: "stepwise" re-scans *)
(* after every inverse and compares with the state before that step;       *)
(* "whole" compares once, at the end, with a state the caller gives; and   *)
(* "unproved" is how urirun_flow's rollback_flow uses the engine, with a   *)
(* scan route but no state to compare with.                                *)
(*                                                                         *)
(* A call of the transport and the scan that follows are two requests, so  *)
(* each is an action and the environment may change in between.  The state *)
(* a scan returns is the set of the flow's mutations in place and what     *)
(* others have made of the rest, which they may change again and change    *)
(* back; its signature is that value itself.                               *)
(***************************************************************************)
EXTENDS Naturals, Sequences, FiniteSets

CONSTANTS
    Flows,        \* the flows that may be run, each a sequence of step kinds
    Answers,      \* what a step's call may answer
    UndoAnswers,  \* what an inverse's call may answer
    Rollbacks,    \* the rollbacks a caller may use
    MaxDrift      \* bound: the rest of the environment is one of 0..MaxDrift

\* The schema's word on a step's route; a route it does not list is taken to
\* mutate without an inverse.
StepKinds == {"query", "reversible", "irreversible", "unlisted"}
AnswerType == [ok : BOOLEAN, inverse : BOOLEAN, effect : BOOLEAN]
UndoAnswerType == [ok : BOOLEAN, effect : BOOLEAN]

ASSUME FlowsAssumption == Flows \subseteq Seq(StepKinds)
\* The connector contract: a mutation that succeeds with an inverse happened.
ASSUME AnswersAssumption ==
    /\ Answers \subseteq AnswerType
    /\ \A a \in Answers : a.ok /\ a.inverse => a.effect
ASSUME UndoAnswersAssumption == UndoAnswers \subseteq UndoAnswerType
ASSUME RollbacksAssumption == Rollbacks \subseteq {"stepwise", "whole", "unproved"}
ASSUME DriftAssumption == MaxDrift \in Nat

VARIABLES
    flow,     \* the steps
    how,      \* the rollback the caller will use
    pc,       \* where the engine is
    pos,      \* the step execute is at
    answer,   \* the answer of the call whose re-scan is due
    sig,      \* twin.state_sig
    before,   \* the local variable of execute
    ledger,   \* the transitions: [before, mutation]
    undoneN,  \* how many of them have been undone
    outcome,  \* what execute returned
    rollback, \* what the rollback returned
    clock,    \* the mutations made so far
    world,    \* those in place
    drift,    \* what others have made of the rest of the environment
    calm      \* history: nobody else changed it since a rollback began

engineVars == <<flow, how, pc, pos, answer, sig, before, ledger, undoneN,
                outcome, rollback>>
vars == <<engineVars, clock, world, drift, calm>>

State == [world |-> world, drift |-> drift]
StateType == [world : SUBSET Nat, drift : Nat]

Mutates == flow[pos] # "query"
Reversible == flow[pos] = "reversible"
Pending == Len(ledger) - undoneN
NoAnswer == [ok |-> FALSE, inverse |-> FALSE, effect |-> FALSE]

\* Twin.scan has just been called.
Init == /\ flow \in Flows
        /\ how \in Rollbacks
        /\ pc = "step"
        /\ pos = 1
        /\ answer = NoAnswer
        /\ clock = 0
        /\ world = {}
        /\ drift = 0
        /\ calm = TRUE
        /\ sig = State
        /\ before = State
        /\ ledger = << >>
        /\ undoneN = 0
        /\ outcome = "none"
        /\ rollback = "none"

-----------------------------------------------------------------------------
(* execute.                                                                *)

\* The invariant: a mutation without a registered inverse is not run.
Refuse ==
    /\ pc = "step" /\ pos <= Len(flow)
    /\ Mutates /\ ~Reversible
    /\ pc' = "executed"
    /\ outcome' = "blocked"
    /\ UNCHANGED <<flow, how, pos, answer, sig, before, ledger, undoneN,
                   rollback, clock, world, drift, calm>>

\* A step whose route does not mutate has no effect.
Call(a) ==
    /\ pc = "step" /\ pos <= Len(flow)
    /\ Mutates => Reversible
    /\ a.effect => Mutates
    /\ before' = sig
    /\ answer' = a
    /\ clock' = IF a.effect THEN clock + 1 ELSE clock
    /\ world' = IF a.effect THEN world \cup {clock + 1} ELSE world
    /\ pc' = "scan"
    /\ UNCHANGED <<flow, how, pos, sig, ledger, undoneN, outcome, rollback, drift, calm>>

\* What execute makes of an answer once the state is re-scanned.
Judge ==
    \/ /\ ~answer.ok
       /\ pc' = "executed" /\ outcome' = "failed"
       /\ UNCHANGED <<pos, ledger>>
    \/ /\ answer.ok /\ Mutates /\ ~answer.inverse
       /\ pc' = "executed" /\ outcome' = "violation"
       /\ UNCHANGED <<pos, ledger>>
    \/ /\ answer.ok /\ (Mutates => answer.inverse)
       /\ pc' = "step" /\ pos' = pos + 1
       /\ ledger' = IF Mutates
                    THEN Append(ledger, [before |-> before, mutation |-> clock])
                    ELSE ledger
       /\ UNCHANGED outcome

Rescan ==
    /\ pc = "scan"
    /\ sig' = State
    /\ Judge
    /\ UNCHANGED <<flow, how, answer, before, undoneN, rollback, clock,
                   world, drift, calm>>

\* A call or a scan that raises takes the ledger, a local variable, with it.
ExecuteRaises ==
    /\ \/ pc = "scan"
       \/ pc = "step" /\ pos <= Len(flow) /\ (Mutates => Reversible)
    /\ pc' = "end"
    /\ outcome' = "raised"
    /\ UNCHANGED <<flow, how, pos, answer, sig, before, ledger, undoneN,
                   rollback, clock, world, drift, calm>>

ExecuteDone ==
    /\ pc = "step" /\ pos > Len(flow)
    /\ pc' = "executed"
    /\ outcome' = "ok"
    /\ UNCHANGED <<flow, how, pos, answer, sig, before, ledger, undoneN,
                   rollback, clock, world, drift, calm>>

-----------------------------------------------------------------------------
(* The rollbacks; the caller may also keep what execute did.               *)

Keep ==
    /\ pc = "executed"
    /\ pc' = "end"
    /\ UNCHANGED <<flow, how, pos, answer, sig, before, ledger, undoneN,
                   outcome, rollback, clock, world, drift, calm>>

\* rollback_flow of urirun_flow scans anew before it begins.
StartRollback ==
    /\ pc = "executed"
    /\ pc' = "undo"
    /\ sig' = IF how = "unproved" THEN State ELSE sig
    /\ UNCHANGED <<flow, how, pos, answer, before, ledger, undoneN,
                   outcome, rollback, clock, world, drift, calm>>

EndRollback(result) == pc' = "end" /\ rollback' = result

\* Mutant: an inverse counts as undone as soon as it is called, and again when
\* it is proved.
UndoCallCountingEarly(a) ==
    /\ pc = "undo"
    /\ Pending > 0
    /\ world' = IF a.effect THEN world \ {ledger[Pending].mutation} ELSE world
    /\ answer' = [NoAnswer EXCEPT !.ok = a.ok]
    /\ undoneN' = undoneN + 1
    /\ pc' = IF how = "stepwise" THEN "prove" ELSE "undo"
    /\ UNCHANGED <<flow, how, pos, sig, before, ledger, outcome, rollback,
                   clock, drift, calm>>

\* The inverse of the last transition not yet undone is called.
UndoCall(a) ==
    /\ pc = "undo"
    /\ Pending > 0
    /\ world' = IF a.effect THEN world \ {ledger[Pending].mutation} ELSE world
    /\ answer' = [NoAnswer EXCEPT !.ok = a.ok]
    /\ \/ /\ how = "stepwise"
          /\ pc' = "prove"
          /\ UNCHANGED <<undoneN, rollback>>
       \/ /\ how # "stepwise" /\ a.ok
          /\ undoneN' = undoneN + 1
          /\ UNCHANGED <<pc, rollback>>
       \/ /\ how # "stepwise" /\ ~a.ok
          /\ EndRollback("stuck")
          /\ UNCHANGED undoneN
    /\ UNCHANGED <<flow, how, pos, sig, before, ledger, outcome, clock, drift, calm>>

\* Mutant: the answer alone is believed.
ProveByAnswer ==
    /\ pc = "prove"
    /\ sig' = State
    /\ \/ /\ answer.ok
          /\ undoneN' = undoneN + 1
          /\ pc' = "undo"
          /\ UNCHANGED rollback
       \/ /\ ~answer.ok
          /\ EndRollback("stuck")
          /\ UNCHANGED undoneN
    /\ UNCHANGED <<flow, how, pos, answer, before, ledger, outcome, clock,
                   world, drift, calm>>

\* The re-scan proves the return: an inverse that answers ok counts only when
\* the state is the one before its step.
Prove ==
    /\ pc = "prove"
    /\ sig' = State
    /\ \/ /\ answer.ok /\ sig' = ledger[Pending].before
          /\ undoneN' = undoneN + 1
          /\ pc' = "undo"
          /\ UNCHANGED rollback
       \/ /\ ~(answer.ok /\ sig' = ledger[Pending].before)
          /\ EndRollback("stuck")
          /\ UNCHANGED undoneN
    /\ UNCHANGED <<flow, how, pos, answer, before, ledger, outcome, clock,
                   world, drift, calm>>

\* The state the flow began in: the before_sig a caller of "whole" passes.
PreFlow == [world |-> {}, drift |-> 0]

\* Mutant: the final comparison is forgotten.
UndoneWithoutComparing ==
    /\ pc = "undo"
    /\ Pending = 0
    /\ sig' = IF how = "stepwise" THEN sig ELSE State
    /\ EndRollback("ok")
    /\ UNCHANGED <<flow, how, pos, answer, before, ledger, undoneN, outcome,
                   clock, world, drift, calm>>

\* Mutant: the oldest transition is not undone.
UndoneOneShort ==
    /\ pc = "undo"
    /\ Pending <= 1
    /\ sig' = IF how = "stepwise" THEN sig ELSE State
    /\ EndRollback(IF how = "whole" /\ sig' # PreFlow THEN "residual" ELSE "ok")
    /\ UNCHANGED <<flow, how, pos, answer, before, ledger, undoneN, outcome,
                   clock, world, drift, calm>>

\* The whole ledger is undone.  rollback_flow re-scans and, when it was given a
\* state to compare with, compares.
Undone ==
    /\ pc = "undo"
    /\ Pending = 0
    /\ sig' = IF how = "stepwise" THEN sig ELSE State
    /\ EndRollback(IF how = "whole" /\ sig' # PreFlow THEN "residual" ELSE "ok")
    /\ UNCHANGED <<flow, how, pos, answer, before, ledger, undoneN, outcome,
                   clock, world, drift, calm>>

\* A call or a scan of the rollback raises.
RollbackRaises ==
    /\ pc \in {"undo", "prove"}
    /\ EndRollback("raised")
    /\ UNCHANGED <<flow, how, pos, answer, sig, before, ledger, undoneN,
                   outcome, clock, world, drift, calm>>

\* Someone else changes the environment (a user, another flow), perhaps back to
\* what it was.
Drift(d) ==
    /\ pc # "end"
    /\ d # drift
    /\ drift' = d
    /\ calm' = (calm /\ pc \notin {"undo", "prove"})
    /\ UNCHANGED <<engineVars, clock, world>>

Next == \/ Refuse
        \/ \E a \in Answers : Call(a)
        \/ Rescan
        \/ ExecuteRaises
        \/ ExecuteDone
        \/ Keep
        \/ StartRollback
        \/ \E a \in UndoAnswers : UndoCall(a)
        \/ Prove
        \/ Undone
        \/ RollbackRaises
        \/ \E d \in 0..MaxDrift : Drift(d)

Spec == Init /\ [][Next]_vars

-----------------------------------------------------------------------------
(* Properties.                                                             *)

TransitionType == [before : StateType, mutation : Nat]

\* The type invariant of the engine and of the environment.
TypeOK ==
    /\ flow \in Flows
    /\ how \in Rollbacks
    /\ pc \in {"step", "scan", "executed", "undo", "prove", "end"}
    /\ pos \in 1..(Len(flow) + 1)
    /\ pc = "scan" => pos <= Len(flow)
    /\ answer \in AnswerType
    /\ sig \in StateType /\ before \in StateType
    /\ ledger \in Seq(TransitionType)
    /\ undoneN \in 0..Len(ledger)
    /\ pc = "prove" => undoneN < Len(ledger)
    /\ outcome \in {"none", "ok", "blocked", "failed", "violation", "raised"}
    /\ rollback \in {"none", "ok", "stuck", "residual", "raised"}
    /\ clock \in Nat
    /\ world \subseteq 1..clock
    /\ drift \in 0..MaxDrift
    /\ calm \in BOOLEAN

Recorded == {ledger[k].mutation : k \in 1..Len(ledger)}

\* execute may lose sight of at most one mutation, the last one made, and only
\* when that step failed, broke its declaration, or raised: a flow that ended
\* ok or was refused a step can be undone in full.
OnlyLastUnrecorded ==
    \A m \in (1..clock) \ Recorded :
        /\ m = clock
        /\ pc # "scan" => outcome \in {"failed", "violation", "raised"}

\* "re-scan == PROOF of return": with the stepwise rollback a transition counts
\* as undone only when its mutation is gone, whatever its inverse answered and
\* whoever else changed the environment.
StepwiseProof ==
    how = "stepwise" =>
        \A k \in 1..Len(ledger) : k > Pending => ledger[k].mutation \notin world

\* A rollback that proves its return and answers ok leaves nothing of the flow
\* behind, not even a mutation execute could not record (the proof of the
\* transition before it fails).  Only an empty ledger proves nothing stepwise.
CleanReturn ==
    rollback = "ok" /\ (how = "whole" \/ (how = "stepwise" /\ ledger # << >>)) =>
        world = {}

\* A stepwise rollback that answers ok has brought back the whole state before
\* the first mutation, what others made of it included.  A change by others can
\* only hide in it when it was taken back while the rollback ran: when nobody
\* else touched the environment in that time, nobody had since the first
\* mutation in a way a step could see.
RestoredReturn ==
    rollback = "ok" /\ how = "stepwise" =>
        /\ ledger # << >> => sig = ledger[1].before
        /\ calm => \A k \in 1..Len(ledger) : ledger[k].before.drift = sig.drift

\* The inductive invariant.  Transitions are in the order of their mutations,
\* each begins in a state without its own, and the first in the flow's start.
LedgerShape ==
    /\ \A k \in 1..Len(ledger) :
          /\ ledger[k].mutation \in 1..clock
          /\ ledger[k].mutation \notin ledger[k].before.world
    /\ \A i, j \in 1..Len(ledger) :
          i < j => ledger[i].mutation < ledger[j].mutation
    /\ ledger # << >> => ledger[1].before.world = {}

\* Between two steps every mutation is recorded, and twin.state_sig is the
\* state before the call whose re-scan is due.
RecordInv ==
    /\ OnlyLastUnrecorded
    /\ pc = "step" => 1..clock \subseteq Recorded
    /\ pc = "step" => sig.world \subseteq 1..clock
    /\ pc = "scan" => /\ before = sig
                      /\ answer.ok /\ answer.inverse => answer.effect
                      /\ answer.effect => Mutates /\ clock > 0 /\ clock \notin sig.world
                      /\ answer.effect => \A k \in 1..Len(ledger) : ledger[k].mutation < clock
                      /\ ~answer.effect => 1..clock \subseteq Recorded
                      /\ ledger = << >> => sig.world = {}

\* The stepwise rollback stands in the state before the step it last undid.
UndoInv ==
    /\ pc \in {"step", "scan", "executed"} => undoneN = 0
    /\ pc # "end" => rollback = "none"
    /\ StepwiseProof
    /\ how = "stepwise" /\ (pc \in {"undo", "prove"} \/ rollback = "ok") =>
          /\ undoneN > 0 => sig = ledger[Pending + 1].before
          /\ calm => \A k \in 1..Len(ledger) : k > Pending => ledger[k].before.drift = drift
    /\ how = "stepwise" /\ (pc = "undo" \/ rollback = "ok") /\ undoneN > 0 =>
          world = ledger[Pending + 1].before.world
    /\ rollback = "ok" => Pending = 0
    /\ rollback = "ok" /\ how = "whole" => world = {}

EngineInv == LedgerShape /\ RecordInv /\ UndoInv

\* The engine implements the saga; a caller may keep what execute did.
SagaPhase ==
    CASE pc \in {"step", "scan", "executed"} -> "running"
      [] pc \in {"undo", "prove"} -> "undoing"
      [] pc = "end" /\ rollback = "ok" -> "undone"
      [] pc = "end" /\ rollback \in {"stuck", "residual", "raised"} -> "stuck"
      [] pc = "end" /\ rollback = "none" ->
             IF outcome = "ok" THEN "committed" ELSE "abandoned"

S == INSTANCE Saga WITH
        log <- [k \in 1..Pending |-> ledger[k].mutation], phase <- SagaPhase
ImplementsSaga == S!Spec
=============================================================================
