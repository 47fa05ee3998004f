---------------------------- MODULE FlowDocument ----------------------------
(***************************************************************************)
(* run_flow_document of urirun_flow/flow.py around the thin driver: once   *)
(* the driver has returned, the document's verification decides whether    *)
(* the run is ok, a second ledger is rebuilt from the execution's timeline *)
(* and results (ledger_from_execution of urirun_twin/reversible.py), and,  *)
(* when it was asked for, the compensation dispatches its inverses.        *)
(***************************************************************************)
EXTENDS ThinDriver

VARIABLES
    stage,        \* what run_flow_document is doing
    requested,    \* rollback_on_failure, or rollbackOnFailure in the document
    scan,         \* rollback_flow still has a scan route to prove the return
    docOk,        \* the run's ok: the driver's and the verification's
    comp,         \* the ledger rebuilt from the execution
    left,         \* entries of comp whose inverse is still to be dispatched
    compensation, \* how the compensation ended
    twice         \* mutations whose inverse was dispatched when already undone

docVars == <<stage, requested, scan, docOk, comp, left, compensation, twice>>
allVars == <<vars, docVars>>

DocInit == /\ Init
           /\ stage = "flow"
           /\ requested \in BOOLEAN
           /\ scan \in BOOLEAN
           /\ docOk = FALSE
           /\ comp = << >>
           /\ left = 0
           /\ compensation = "none"
           /\ twice = {}

\* An ok entry of the timeline without a recovery type whose result holds an
\* inverse; the id of a retry entry ("<id>:retry") is in no result.
Carries(entry, held) == entry.ok /\ entry.tag = "step" /\ held[entry.id].mutation # 0

\* The loop of ledger_from_execution: each entry that carries an inverse is
\* appended, with the inverse found under its id.
Rebuilt(entries, held) ==
    LET Upto[n \in 0..Len(entries)] ==
            IF n = 0 THEN << >>
            ELSE IF Carries(entries[n], held)
                 THEN Append(Upto[n - 1], held[entries[n].id].mutation)
                 ELSE Upto[n - 1]
    IN  Upto[Len(entries)]

\* Mutant: the ledger is built newest first.
LedgerNewestFirst ==
    LET oldest == Rebuilt(timeline, results)
    IN  [k \in 1..Len(oldest) |-> oldest[Len(oldest) + 1 - k]]

LedgerFromExecution == Rebuilt(timeline, results)

\* execute_flow runs the driver to its end.
ExecuteFlow == /\ stage = "flow"
               /\ Next
               /\ UNCHANGED docVars

\* Mutant: a requested compensation also runs after a success.
VerifyFlowAlwaysCompensates(passed) ==
    /\ stage = "flow"
    /\ pc = "returned"
    /\ verdict.kind # "raised"
    /\ docOk' = (verdict.kind = "done" /\ passed)
    /\ comp' = LedgerFromExecution
    /\ left' = Len(comp')
    /\ stage' = IF comp' # << >> /\ requested THEN "compensate" ELSE "end"
    /\ UNCHANGED <<vars, requested, scan, compensation, twice>>

\* Mutant: the compensation begins at the last but one transition.
VerifyFlowSkipsNewest(passed) ==
    /\ stage = "flow"
    /\ pc = "returned"
    /\ verdict.kind # "raised"
    /\ docOk' = (verdict.kind = "done" /\ passed)
    /\ comp' = LedgerFromExecution
    /\ left' = IF comp' = << >> THEN 0 ELSE Len(comp') - 1
    /\ stage' = IF comp' # << >> /\ ~docOk' /\ requested THEN "compensate" ELSE "end"
    /\ UNCHANGED <<vars, requested, scan, compensation, twice>>

\* verify_flow_execution, the second ledger, and _should_compensate.  An
\* exception of the driver leaves run_flow_document as well.
VerifyFlow(passed) ==
    /\ stage = "flow"
    /\ pc = "returned"
    /\ verdict.kind # "raised"
    /\ docOk' = (verdict.kind = "done" /\ passed)
    /\ comp' = LedgerFromExecution
    /\ left' = Len(comp')
    /\ stage' = IF comp' # << >> /\ ~docOk' /\ requested THEN "compensate" ELSE "end"
    /\ UNCHANGED <<vars, requested, scan, compensation, twice>>

Ends(how) == stage' = "end" /\ compensation' = how

\* rollback_flow dispatches the next inverse; its transport unwraps the
\* envelope, so an inner failure counts as one.
CompensateLast(how) ==
    /\ stage = "compensate"
    /\ left > 0
    /\ Reverts(how, comp[left])
    /\ twice' = IF comp[left] \in world THEN twice ELSE twice \cup {comp[left]}
    /\ \/ /\ how = "undone"
          /\ left' = left - 1
          /\ UNCHANGED <<stage, compensation>>
       \/ /\ how # "undone"
          /\ Ends("stuck")
          /\ UNCHANGED left
    /\ UNCHANGED <<driverVars, clock, reported, requested, scan, docOk, comp>>

\* A call raises on the path with a scan route: before the first inverse, at
\* one of them, or at the final re-scan.  rollback_flow falls back to the path
\* without a proof and goes through the whole ledger again.
ScanRaises ==
    /\ stage = "compensate"
    /\ scan
    /\ scan' = FALSE
    /\ left' = Len(comp)
    /\ UNCHANGED <<vars, stage, requested, docOk, comp, compensation, twice>>

CompensationDone ==
    /\ stage = "compensate"
    /\ left = 0
    /\ Ends("ok")
    /\ UNCHANGED <<vars, requested, scan, docOk, comp, left, twice>>

DocNext == \/ ExecuteFlow
           \/ \E passed \in BOOLEAN : VerifyFlow(passed)
           \/ \E how \in InverseReplies : CompensateLast(how)
           \/ ScanRaises
           \/ CompensationDone

DocSpec == DocInit /\ [][DocNext]_allVars

-----------------------------------------------------------------------------
(* Properties.                                                             *)

Stages == {"flow", "compensate", "end"}

DocTypeOK == /\ TypeOK
             /\ stage \in Stages
             /\ requested \in BOOLEAN
             /\ scan \in BOOLEAN
             /\ docOk \in BOOLEAN
             /\ comp \in Seq(1..clock)
             /\ left \in 0..Len(comp)
             /\ compensation \in {"none", "ok", "stuck"}
             /\ twice \subseteq 1..clock

\* A run that ends ok keeps every mutation whose inverse it knows: neither the
\* driver's rollback nor the compensation has touched one.
OkRunKeepsEverything ==
    stage = "end" /\ docOk => /\ compensation = "none"
                              /\ undone = << >>
                              /\ reported \subseteq world

\* The ledger the driver kept and the one rebuilt from its result agree for a
\* flow without retries whose optional steps reported no inverse ("both paths
\* produce identical undo output").
LedgersAgree ==
    (/\ stage # "flow"
     /\ retriesUsed = 0
     /\ \A i \in Steps : plan[i].optional => results[i].mutation = 0)
        => comp = ledger

\* The compensation reaches what the driver's own rollback does not (the
\* mutations of optional steps): when it answers ok, no mutation is in place
\* whose inverse is still held by the result of a step that ran once.
CompensationCleans ==
    compensation = "ok" =>
        \A i \in Steps :
            /\ results[i].mutation \in world
            /\ results[i].ok
            => \E k \in 1..Len(timeline) : timeline[k].tag = "retry" /\ timeline[k].id = i

\* "flow FAILED yet left mutations - unwind them LIFO": the compensation only
\* ever dispatches the inverse of a mutation that is still in place.
NoInverseTwice == twice = {}
=============================================================================
