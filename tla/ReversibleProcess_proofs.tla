---------------------- MODULE ReversibleProcess_proofs ----------------------
(***************************************************************************)
(* Proofs about ReversibleProcess, for every flow, every way calls and     *)
(* inverses answer and whatever others change and change back.               *)
(***************************************************************************)
EXTENDS ReversibleProcess, TLAPS

LEMMA StateTyped ==
  ASSUME clock \in Nat, world \subseteq 1..clock, drift \in 0..MaxDrift
  PROVE  State \in StateType
  BY DriftAssumption DEF State, StateType

LEMMA FlowType ==
  ASSUME TypeOK
  PROVE  /\ Len(flow) \in Nat
         /\ Len(ledger) \in Nat
         /\ Pending \in 0..Len(ledger)
         /\ \A k \in 1..Len(ledger) : ledger[k] \in TransitionType
  BY FlowsAssumption DEF TypeOK, Pending

\* What Judge does to the ledger, in the two cases that matter.
LEMMA JudgeCases ==
  ASSUME TypeOK, Judge
  PROVE  \/ /\ answer.ok /\ Mutates /\ answer.inverse
            /\ ledger' = Append(ledger, [before |-> before, mutation |-> clock])
            /\ pc' = "step" /\ pos' = pos + 1 /\ outcome' = outcome
         \/ /\ ~Mutates /\ ledger' = ledger
            /\ pc' = "step" /\ pos' = pos + 1 /\ outcome' = outcome
         \/ /\ ledger' = ledger
            /\ pc' = "executed" /\ pos' = pos /\ outcome' \in {"failed", "violation"}
  BY DEF Judge

LEMMA TypeStep == TypeOK /\ [Next]_vars => TypeOK'
  <1> SUFFICES ASSUME TypeOK, [Next]_vars PROVE TypeOK'
    OBVIOUS
  <1> USE DEF TypeOK
  <1>0. Len(flow) \in Nat /\ State \in StateType
    BY FlowType, StateTyped
  <1>1. CASE Refuse
    BY <1>1 DEF Refuse
  <1>2. ASSUME NEW a \in Answers, Call(a)
        PROVE  TypeOK'
    <2>1. a \in AnswerType
      BY AnswersAssumption
    <2>2. clock' \in Nat /\ world' \subseteq 1..clock'
      BY <1>2 DEF Call
    <2> QED  BY <1>0, <1>2, <2>1, <2>2 DEF Call
  <1>3. CASE Rescan
    <2>1. ledger' \in Seq(TransitionType) /\ undoneN \in 0..Len(ledger')
      <3>1. [before |-> before, mutation |-> clock] \in TransitionType
        BY DEF TransitionType
      <3> QED  BY <1>3, <3>1, JudgeCases DEF Rescan
    <2>2. /\ pc' \in {"step", "executed"}
          /\ pos' \in 1..(Len(flow) + 1)
          /\ outcome' \in {"none", "ok", "blocked", "failed", "violation", "raised"}
      BY <1>0, <1>3, JudgeCases DEF Rescan
    <2> QED  BY <1>0, <1>3, <2>1, <2>2 DEF Rescan
  <1>4. CASE ExecuteRaises
    BY <1>4 DEF ExecuteRaises
  <1>5. CASE ExecuteDone
    BY <1>5 DEF ExecuteDone
  <1>6. CASE Keep
    BY <1>6 DEF Keep
  <1>7. CASE StartRollback
    BY <1>0, <1>7 DEF StartRollback
  <1>8. ASSUME NEW a \in UndoAnswers, UndoCall(a)
        PROVE  TypeOK'
    <2>1. a \in UndoAnswerType
      BY UndoAnswersAssumption
    <2>2. answer' \in AnswerType
      BY <1>8, <2>1 DEF UndoCall, NoAnswer, AnswerType, UndoAnswerType
    <2>3. world' \subseteq 1..clock
      BY <1>8 DEF UndoCall
    <2>4. /\ pc' \in {"undo", "prove", "end"}
          /\ undoneN' \in 0..Len(ledger)
          /\ pc' = "prove" => undoneN' < Len(ledger)
          /\ rollback' \in {"none", "ok", "stuck", "residual", "raised"}
      BY <1>8, FlowType DEF UndoCall, EndRollback, Pending
    <2> QED  BY <1>8, <2>2, <2>3, <2>4 DEF UndoCall
  <1>9. CASE Prove
    <2>1. undoneN' \in 0..Len(ledger)
      BY <1>9, FlowType DEF Prove
    <2>2. pc' \in {"undo", "end"} /\ rollback' \in {"none", "ok", "stuck", "residual", "raised"}
      BY <1>9 DEF Prove, EndRollback
    <2> QED  BY <1>0, <1>9, <2>1, <2>2 DEF Prove
  <1>10. CASE Undone
    BY <1>0, <1>10 DEF Undone, EndRollback
  <1>11. CASE RollbackRaises
    BY <1>11 DEF RollbackRaises, EndRollback
  <1>12. ASSUME NEW d \in 0..MaxDrift, Drift(d)
         PROVE  TypeOK'
    BY <1>12 DEF Drift, engineVars
  <1>13. CASE UNCHANGED vars
    BY <1>13 DEF vars, engineVars
  <1> QED  BY <1>1, <1>2, <1>3, <1>4, <1>5, <1>6, <1>7, <1>8, <1>9, <1>10, <1>11,
              <1>12, <1>13 DEF Next

\* Every reachable state of the engine is well typed.
THEOREM TypeCorrect == Spec => []TypeOK
  <1>1. Init => TypeOK
    <2> SUFFICES ASSUME Init PROVE TypeOK
      OBVIOUS
    <2>1. State \in StateType
      BY StateTyped, DriftAssumption DEF Init
    <2>2. Len(flow) \in Nat
      BY FlowsAssumption DEF Init
    <2>3. answer \in AnswerType
      BY DEF Init, NoAnswer, AnswerType
    <2> QED  BY <2>1, <2>2, <2>3, DriftAssumption DEF Init, TypeOK
  <1> QED  BY <1>1, TypeStep, PTL DEF Spec

-----------------------------------------------------------------------------
(* The inductive invariant.                                                *)

LEMMA ShapeStep ==
  TypeOK /\ TypeOK' /\ EngineInv /\ [Next]_vars => LedgerShape'
  <1> SUFFICES ASSUME TypeOK, TypeOK', LedgerShape, RecordInv, [Next]_vars
               PROVE  LedgerShape'
    BY DEF EngineInv
  <1>1. ASSUME NEW a \in Answers, Call(a)
        PROVE  LedgerShape'
    <2>1. ledger' = ledger /\ sig' = sig /\ clock \in Nat /\ clock' \in Nat /\ clock <= clock'
      BY <1>1 DEF Call, TypeOK
    <2> QED  BY <2>1, FlowType DEF LedgerShape
  <1>2. CASE Rescan
    <2>1. sig' = State /\ UNCHANGED <<clock, drift, world, before, answer>> /\ Judge
          /\ pc = "scan"
      BY <1>2 DEF Rescan
    <2>2. CASE ledger' = ledger
      BY <2>1, <2>2 DEF LedgerShape
    <2>3. CASE /\ answer.ok /\ Mutates /\ answer.inverse
               /\ ledger' = Append(ledger, [before |-> before, mutation |-> clock])
      <3> DEFINE n == Len(ledger)
      <3>1. /\ n \in Nat
            /\ Len(ledger') = n + 1
            /\ \A k \in 1..n : ledger'[k] = ledger[k]
            /\ ledger'[n + 1].before = sig
            /\ ledger'[n + 1].mutation = clock
        BY <2>1, <2>3, FlowType DEF RecordInv, TypeOK
      <3>2. clock \in Nat /\ clock > 0 /\ clock \notin sig.world
            /\ \A k \in 1..n : ledger[k].mutation < clock
        BY <2>1, <2>3 DEF RecordInv, TypeOK
      <3>5. \A k \in 1..(n + 1) :
               /\ ledger'[k].mutation \in 1..clock
               /\ ledger'[k].mutation \notin ledger'[k].before.world
        <4>1. \A k \in 1..n :
                 /\ ledger'[k].mutation \in 1..clock
                 /\ ledger'[k].mutation \notin ledger'[k].before.world
          BY <3>1 DEF LedgerShape
        <4>2. \A k \in 1..(n + 1) : k \in 1..n \/ k = n + 1
          BY <3>1
        <4> QED  BY <3>1, <3>2, <4>1, <4>2
      <3>6. ASSUME NEW i \in 1..(n + 1), NEW j \in 1..(n + 1), i < j
            PROVE  ledger'[i].mutation < ledger'[j].mutation
        <4>1. i \in 1..n
          BY <3>1, <3>6
        <4>2. CASE j = n + 1
          BY <3>1, <3>2, <4>1, <4>2
        <4>3. CASE j \in 1..n
          BY <3>1, <3>6, <4>1, <4>3 DEF LedgerShape
        <4> QED  BY <3>1, <4>2, <4>3
      <3>7. ledger'[1].before.world = {}
        <4>1. CASE n = 0
          BY <2>1, <3>1, <4>1 DEF RecordInv, TypeOK
        <4>2. CASE n > 0
          BY <3>1, <4>2 DEF LedgerShape
        <4> QED  BY <3>1, <4>1, <4>2
      <3> QED  BY <2>1, <3>1, <3>5, <3>6, <3>7 DEF LedgerShape
    <2> QED  BY <2>1, <2>2, <2>3, JudgeCases
  <1>3. ASSUME \/ Refuse \/ ExecuteRaises \/ ExecuteDone \/ Keep \/ StartRollback \/ Prove
               \/ Undone \/ RollbackRaises \/ UNCHANGED vars
               \/ \E a \in UndoAnswers : UndoCall(a)
               \/ \E d \in 0..MaxDrift : Drift(d)
        PROVE  LedgerShape'
    <2>1. UNCHANGED <<ledger, clock>>
      BY <1>3 DEF Refuse, ExecuteRaises, ExecuteDone, Keep, StartRollback, Prove, Undone,
         RollbackRaises, Drift, vars, engineVars, UndoCall
    <2> QED  BY <2>1 DEF LedgerShape
  <1> QED  BY <1>1, <1>2, <1>3 DEF Next

LEMMA RecordStep ==
  TypeOK /\ TypeOK' /\ EngineInv /\ [Next]_vars => RecordInv'
  <1> SUFFICES ASSUME TypeOK, TypeOK', LedgerShape, RecordInv, [Next]_vars
               PROVE  RecordInv'
    BY DEF EngineInv
  <1>1. ASSUME NEW a \in Answers, Call(a)
        PROVE  RecordInv'
    <2>1. /\ pc = "step" /\ pc' = "scan" /\ before' = sig /\ sig' = sig /\ answer' = a
          /\ UNCHANGED <<flow, pos, ledger, outcome, drift>>
          /\ a.effect => Mutates
          /\ clock' = IF a.effect THEN clock + 1 ELSE clock
          /\ clock \in Nat
      BY <1>1 DEF Call, TypeOK
    <2>2. a.ok /\ a.inverse => a.effect
      BY AnswersAssumption
    <2>3. 1..clock \subseteq Recorded /\ sig.world \subseteq 1..clock /\ Recorded' = Recorded
      BY <2>1 DEF RecordInv, Recorded
    <2>4. \A k \in 1..Len(ledger) : ledger[k].mutation \in 1..clock
      BY DEF LedgerShape
    <2>5. OnlyLastUnrecorded'
      BY <2>1, <2>3 DEF OnlyLastUnrecorded
    <2>6. a.effect => Mutates' /\ clock' > 0 /\ clock' \notin sig.world
                      /\ \A k \in 1..Len(ledger) : ledger[k].mutation < clock'
      BY <2>1, <2>3, <2>4 DEF Mutates
    <2>7. ~a.effect => 1..clock' \subseteq Recorded'
      BY <2>1, <2>3
    <2>8. ledger = << >> => sig.world = {}
      <3>1. ledger = << >> => Recorded = {}
        BY DEF Recorded
      <3> QED  BY <2>1, <2>3, <3>1
    <2> QED  BY <2>1, <2>2, <2>5, <2>6, <2>7, <2>8 DEF RecordInv
  <1>2. CASE Rescan
    <2>1. /\ pc = "scan" /\ sig' = State /\ Judge
          /\ UNCHANGED <<clock, world, drift, answer, before, flow>>
          /\ clock \in Nat /\ world \subseteq 1..clock
      BY <1>2 DEF Rescan, TypeOK
    <2>2. sig'.world \subseteq 1..clock'
      BY <2>1 DEF State, TypeOK
    <2>3. CASE /\ answer.ok /\ Mutates /\ answer.inverse
               /\ ledger' = Append(ledger, [before |-> before, mutation |-> clock])
               /\ pc' = "step" /\ outcome' = outcome
      <3>1. Recorded' = Recorded \cup {clock}
        <4>1. /\ Len(ledger) \in Nat
              /\ Len(ledger') = Len(ledger) + 1
              /\ \A k \in 1..Len(ledger) : ledger'[k] = ledger[k]
              /\ ledger'[Len(ledger) + 1].mutation = clock
          BY <2>3, FlowType DEF TypeOK
        <4> QED  BY <4>1 DEF Recorded
      <3>2. 1..clock \subseteq Recorded'
        BY <2>1, <3>1 DEF RecordInv, OnlyLastUnrecorded
      <3> QED  BY <2>1, <2>2, <2>3, <3>2 DEF RecordInv, OnlyLastUnrecorded
    <2>4. CASE ~Mutates /\ ledger' = ledger /\ pc' = "step" /\ outcome' = outcome
      <3>1. 1..clock' \subseteq Recorded'
        BY <2>1, <2>4 DEF RecordInv, Recorded
      <3> QED  BY <2>2, <2>4, <3>1 DEF RecordInv, OnlyLastUnrecorded
    <2>5. CASE ledger' = ledger /\ pc' = "executed" /\ outcome' \in {"failed", "violation"}
      <3>1. Recorded' = Recorded
        BY <2>5 DEF Recorded
      <3> QED  BY <2>1, <2>2, <2>5, <3>1 DEF RecordInv, OnlyLastUnrecorded
    <2> QED  BY <2>1, <2>3, <2>4, <2>5, JudgeCases
  \* The other steps record and make nothing, and lead away from execute's loop.
  <1>3. ASSUME UNCHANGED <<ledger, clock>>, pc' \notin {"step", "scan"},
               \/ outcome' = outcome /\ pc # "scan"
               \/ outcome' = "raised"
               \/ pc = "step"
        PROVE  RecordInv'
    <2>1. Recorded' = Recorded
      BY <1>3 DEF Recorded
    <2>2. OnlyLastUnrecorded'
      BY <1>3, <2>1 DEF RecordInv, OnlyLastUnrecorded
    <2> QED  BY <1>3, <2>2 DEF RecordInv
  <1>5. CASE Refuse \/ ExecuteRaises \/ ExecuteDone \/ Keep \/ RollbackRaises
    <2>1. /\ UNCHANGED <<ledger, clock>> /\ pc' \notin {"step", "scan"}
          /\ \/ outcome' = outcome /\ pc # "scan"
             \/ outcome' = "raised"
             \/ pc = "step"
      BY <1>5 DEF Refuse, ExecuteRaises, ExecuteDone, Keep, RollbackRaises, EndRollback
    <2> QED  BY <1>3, <2>1
  <1>6. ASSUME StartRollback \/ Prove \/ Undone \/ \E a \in UndoAnswers : UndoCall(a)
        PROVE  RecordInv'
    <2>1. /\ UNCHANGED <<ledger, clock, outcome>> /\ pc' \notin {"step", "scan"}
          /\ pc # "scan"
      BY <1>6 DEF StartRollback, Prove, Undone, UndoCall, EndRollback
    <2> QED  BY <1>3, <2>1
  <1>7. ASSUME NEW d \in 0..MaxDrift, Drift(d)
        PROVE  RecordInv'
    <2>1. UNCHANGED <<flow, pc, pos, answer, sig, before, ledger, outcome, clock>>
      BY <1>7 DEF Drift, engineVars
    <2>2. OnlyLastUnrecorded' /\ Recorded' = Recorded /\ Mutates' = Mutates
      BY <2>1 DEF OnlyLastUnrecorded, Recorded, RecordInv, Mutates
    <2> QED  BY <2>1, <2>2 DEF RecordInv
  <1>8. CASE UNCHANGED vars
    BY <1>8 DEF vars, engineVars, RecordInv, OnlyLastUnrecorded, Recorded, Mutates
  <1> QED  BY <1>1, <1>2, <1>5, <1>6, <1>7, <1>8 DEF Next

\* Nothing has been undone yet.
LEMMA NothingUndone ==
  ASSUME TypeOK, undoneN = 0, rollback = "none"
  PROVE  UndoInv
  <1>1. Pending = Len(ledger) /\ Len(ledger) \in Nat
    BY FlowType DEF Pending
  <1> QED  BY <1>1 DEF UndoInv, StepwiseProof

LEMMA UndoStep ==
  TypeOK /\ TypeOK' /\ EngineInv /\ LedgerShape' /\ [Next]_vars => UndoInv'
  <1> SUFFICES ASSUME TypeOK, TypeOK', UndoInv, LedgerShape', [Next]_vars
               PROVE  UndoInv'
    BY DEF EngineInv
  <1>0. /\ Len(ledger) \in Nat /\ Pending \in 0..Len(ledger) /\ undoneN \in Nat
        /\ Pending = Len(ledger) - undoneN
    BY FlowType DEF Pending, TypeOK
  <1>1. ASSUME undoneN' = 0, rollback' = "none"
        PROVE  UndoInv'
    <2>1. Pending' = Len(ledger') /\ Len(ledger') \in Nat
      BY <1>1 DEF Pending, TypeOK
    <2> QED  BY <1>1, <2>1 DEF UndoInv, StepwiseProof
  <1>2. CASE Refuse \/ Rescan \/ ExecuteRaises \/ ExecuteDone \/ Keep \/ StartRollback
             \/ \E a \in Answers : Call(a)
    <2>1. pc \in {"step", "scan", "executed"} /\ UNCHANGED <<undoneN, rollback>>
      BY <1>2 DEF Refuse, Rescan, ExecuteRaises, ExecuteDone, Keep, StartRollback, Call
    <2> QED  BY <1>1, <2>1 DEF UndoInv
  <1>3. ASSUME NEW a \in UndoAnswers, UndoCall(a)
        PROVE  UndoInv'
    <2>1. /\ pc = "undo" /\ UNCHANGED <<how, sig, ledger, drift, calm>> /\ world' \subseteq world
          /\ rollback = "none"
      BY <1>3 DEF UndoCall, UndoInv
    <2>2. CASE how = "stepwise"
      <3>1. pc' = "prove" /\ undoneN' = undoneN /\ rollback' = "none"
        BY <1>3, <2>1, <2>2 DEF UndoCall
      <3>2. Pending' = Pending
        BY <2>1, <3>1 DEF Pending
      <3> QED  BY <2>1, <2>2, <3>1, <3>2 DEF UndoInv, StepwiseProof
    <2>3. CASE how # "stepwise"
      <3>1. pc' \in {"undo", "end"} /\ rollback' \in {"none", "stuck"}
            /\ (pc' = "undo" => rollback' = "none")
        BY <1>3, <2>1, <2>3 DEF UndoCall, EndRollback
      <3> QED  BY <2>1, <2>3, <3>1 DEF UndoInv, StepwiseProof
    <2> QED  BY <2>2, <2>3
  <1>4. CASE Prove
    <2>1. /\ pc = "prove" /\ sig' = State /\ UNCHANGED <<how, ledger, world, drift, calm>>
          /\ rollback = "none"
      BY <1>4 DEF Prove, UndoInv
    <2>2. CASE /\ sig' = ledger[Pending].before /\ undoneN' = undoneN + 1
               /\ pc' = "undo" /\ rollback' = rollback
      <3>1. Pending' = Pending - 1 /\ Pending \in 1..Len(ledger)
        BY <1>0, <2>1, <2>2 DEF Pending, TypeOK
      <3>2. world = ledger[Pending].before.world /\ sig'.drift = ledger[Pending].before.drift
        BY <2>1, <2>2 DEF State
      <3>3. ledger[Pending].mutation \notin world
        BY <2>1, <3>1, <3>2 DEF LedgerShape
      <3>4. StepwiseProof'
        BY <2>1, <3>1, <3>3 DEF UndoInv, StepwiseProof
      <3>5. calm' /\ how = "stepwise" =>
                \A k \in 1..Len(ledger) : k > Pending - 1 => ledger[k].before.drift = drift
        <4> SUFFICES ASSUME calm', how = "stepwise", NEW k \in 1..Len(ledger), k > Pending - 1
                     PROVE  ledger[k].before.drift = drift
          OBVIOUS
        <4>1. calm' = calm
          BY <1>4 DEF Prove
        <4>2. CASE k = Pending
          BY <2>1, <3>2, <4>2 DEF State
        <4>3. CASE k > Pending
          BY <2>1, <4>1, <4>3 DEF UndoInv
        <4> QED  BY <3>1, <4>2, <4>3
      <3>6. sig' = ledger[Pending' + 1].before
        BY <1>0, <2>2, <3>1
      <3>7. world' = ledger[Pending' + 1].before.world
        BY <1>0, <2>1, <3>1, <3>2
      <3> QED  BY <2>1, <2>2, <3>1, <3>4, <3>5, <3>6, <3>7 DEF UndoInv
    <2>3. CASE pc' = "end" /\ rollback' = "stuck" /\ undoneN' = undoneN
      <3>1. Pending' = Pending
        BY <2>1, <2>3 DEF Pending
      <3> QED  BY <2>1, <2>3, <3>1 DEF UndoInv, StepwiseProof
    <2> QED  BY <1>4, <2>2, <2>3 DEF Prove, EndRollback
  <1>5. CASE Undone
    <2>1. /\ pc = "undo" /\ Pending = 0 /\ pc' = "end"
          /\ UNCHANGED <<how, ledger, undoneN, world, drift, calm>>
          /\ rollback' \in {"ok", "residual"}
          /\ how = "stepwise" => sig' = sig
          /\ how = "whole" /\ rollback' = "ok" => world = {}
      BY <1>5 DEF Undone, EndRollback, State, PreFlow
    <2>2. Pending' = Pending
      BY <2>1 DEF Pending
    <2> QED  BY <2>1, <2>2 DEF UndoInv, StepwiseProof
  <1>6. CASE RollbackRaises
    <2>1. pc' = "end" /\ rollback' = "raised" /\ UNCHANGED <<how, ledger, undoneN, world>>
      BY <1>6 DEF RollbackRaises, EndRollback
    <2>2. Pending' = Pending
      BY <2>1 DEF Pending
    <2> QED  BY <2>1, <2>2 DEF UndoInv, StepwiseProof
  <1>7. ASSUME UNCHANGED vars \/ \E d \in 0..MaxDrift : Drift(d)
        PROVE  UndoInv'
    <2>1. /\ UNCHANGED <<how, pc, sig, ledger, undoneN, rollback, world>>
          /\ \/ drift' = drift /\ calm' = calm
             \/ pc \notin {"undo", "prove", "end"}
             \/ pc # "end" /\ ~calm'
      BY <1>7 DEF Drift, engineVars, vars, TypeOK
    <2>2. Pending' = Pending
      BY <2>1 DEF Pending
    <2> QED  BY <2>1, <2>2 DEF UndoInv, StepwiseProof
  <1> QED  BY <1>2, <1>3, <1>4, <1>5, <1>6, <1>7 DEF Next

\* The inductive invariant holds in every reachable state.
THEOREM EngineInvariant == Spec => []EngineInv
  <1>1. Init => EngineInv
    <2> SUFFICES ASSUME Init PROVE EngineInv
      OBVIOUS
    <2>1. ledger = << >> /\ Len(ledger) = 0 /\ undoneN = 0 /\ rollback = "none" /\ pc = "step"
          /\ clock = 0 /\ sig.world = {} /\ sig.drift = 0 /\ drift = 0
      BY DEF Init, State
    <2>2. LedgerShape
      BY <2>1 DEF LedgerShape
    <2>3. RecordInv
      BY <2>1 DEF RecordInv, OnlyLastUnrecorded
    <2>4. UndoInv
      BY <2>1 DEF UndoInv, StepwiseProof, Pending
    <2> QED  BY <2>2, <2>3, <2>4 DEF EngineInv
  <1>2. TypeOK /\ TypeOK' /\ EngineInv /\ [Next]_vars => EngineInv'
    <2>1. (LedgerShape /\ RecordInv /\ UndoInv)' => EngineInv'
      BY DEF EngineInv
    <2> QED  BY <2>1, ShapeStep, RecordStep, UndoStep
  <1> QED  BY <1>1, <1>2, TypeCorrect, PTL DEF Spec

-----------------------------------------------------------------------------
(* The safety properties.                                                  *)

\* execute loses sight of the last mutation at most.
THEOREM OnlyLastLost == Spec => []OnlyLastUnrecorded
  <1>1. EngineInv => OnlyLastUnrecorded
    BY DEF EngineInv, RecordInv
  <1> QED  BY <1>1, EngineInvariant, PTL

\* What the stepwise rollback counts as undone is gone.
THEOREM StepwiseProves == Spec => []StepwiseProof
  <1>1. EngineInv => StepwiseProof
    BY DEF EngineInv, UndoInv
  <1> QED  BY <1>1, EngineInvariant, PTL

\* A proved return leaves nothing of the flow behind.
THEOREM ReturnIsClean == Spec => []CleanReturn
  <1>1. TypeOK /\ EngineInv => CleanReturn
    <2> SUFFICES ASSUME TypeOK, LedgerShape, UndoInv, rollback = "ok",
                        how = "stepwise", ledger # << >>
                 PROVE  world = {}
      BY DEF EngineInv, CleanReturn, UndoInv
    <2>1. Pending = 0 /\ undoneN > 0 /\ Len(ledger) > 0
      BY FlowType DEF UndoInv, Pending, TypeOK
    <2> QED  BY <2>1 DEF UndoInv, LedgerShape
  <1> QED  BY <1>1, TypeCorrect, EngineInvariant, PTL

\* A stepwise rollback that answers ok has brought the whole state back, and
\* hides no change by others that was not taken back while it ran.
THEOREM ReturnIsRestored == Spec => []RestoredReturn
  <1>1. TypeOK /\ EngineInv => RestoredReturn
    <2> SUFFICES ASSUME TypeOK, UndoInv, rollback = "ok", how = "stepwise"
                 PROVE  /\ ledger # << >> => sig = ledger[1].before
                        /\ calm => \A k \in 1..Len(ledger) : ledger[k].before.drift = sig.drift
      BY DEF EngineInv, RestoredReturn
    <2>1. Pending = 0 /\ Len(ledger) \in Nat /\ undoneN = Len(ledger)
      BY FlowType DEF UndoInv, Pending, TypeOK
    <2>2. ledger # << >> => sig = ledger[1].before
      BY <2>1, FlowType DEF UndoInv, TypeOK
    <2>3. ASSUME calm, NEW k \in 1..Len(ledger) PROVE ledger[k].before.drift = sig.drift
      <3>1. ledger # << >> /\ 1 \in 1..Len(ledger)
        BY <2>1, <2>3
      <3>2. ledger[k].before.drift = drift /\ ledger[1].before.drift = drift
        BY <2>1, <2>3, <3>1 DEF UndoInv
      <3> QED  BY <2>2, <3>1, <3>2
    <2> QED  BY <2>2, <2>3
  <1> QED  BY <1>1, TypeCorrect, EngineInvariant, PTL

-----------------------------------------------------------------------------
(* The refinement.                                                         *)

\* What is recorded and not undone, as the saga sees it.
Log == [k \in 1..Pending |-> ledger[k].mutation]

LEMMA LogSeq ==
  ASSUME TypeOK
  PROVE  /\ Log \in Seq(Nat) /\ Len(Log) = Pending /\ Pending \in Nat
         /\ Pending = 0 => Log = << >>
         /\ Pending > 0 => Log # << >>
  <1>1. Pending \in Nat /\ \A k \in 1..Pending : ledger[k].mutation \in Nat
    BY FlowType DEF TransitionType
  <1>2. Log \in Seq(Nat) /\ Len(Log) = Pending
    BY <1>1 DEF Log
  <1> QED  BY <1>1, <1>2

\* The log loses its last effect when one more is counted as undone.
LEMMA LogShrinks ==
  ASSUME TypeOK, TypeOK', Pending > 0, undoneN' = undoneN + 1, ledger' = ledger
  PROVE  Log' = SubSeq(Log, 1, Len(Log) - 1)
  <1>1. Pending' = Pending - 1 /\ Pending \in Nat
    BY FlowType DEF Pending, TypeOK
  <1>2. Log \in Seq(Nat) /\ Len(Log) = Pending
    BY LogSeq
  <1>3. Log' = [k \in 1..(Pending - 1) |-> ledger[k].mutation]
    BY <1>1 DEF Log
  <1>4. \A k \in 1..(Pending - 1) : Log[k] = ledger[k].mutation
    BY <1>1 DEF Log
  <1>5. SubSeq(Log, 1, Pending - 1) = [k \in 1..(Pending - 1) |-> Log[k]]
    BY <1>1, <1>2
  <1> QED  BY <1>2, <1>3, <1>4, <1>5

\* A recorded mutation comes behind the others.
LEMMA LogGrows ==
  ASSUME TypeOK, TypeOK', undoneN = 0, undoneN' = 0, NEW t, ledger' = Append(ledger, t)
  PROVE  Len(Log') = Len(Log) + 1 /\ SubSeq(Log', 1, Len(Log)) = Log
  <1> DEFINE n == Len(ledger)
  <1>1. /\ n \in Nat /\ Len(ledger') = n + 1
        /\ \A k \in 1..n : ledger'[k] = ledger[k]
    BY FlowType DEF TypeOK
  <1>2. Pending = n /\ Pending' = n + 1
    BY <1>1 DEF Pending
  <1>3. /\ Log \in Seq(Nat) /\ Len(Log) = n
        /\ Log' \in Seq(Nat) /\ Len(Log') = n + 1
    <2>1. \A k \in 1..(n + 1) : ledger'[k].mutation \in Nat
      <3>1. ledger' \in Seq(TransitionType)
        BY DEF TypeOK
      <3>2. \A k \in 1..Len(ledger') : ledger'[k] \in TransitionType
        BY <3>1
      <3> QED  BY <1>1, <3>2 DEF TransitionType
    <2>2. Log' = [k \in 1..(n + 1) |-> ledger'[k].mutation]
      BY <1>2 DEF Log
    <2> QED  BY <1>1, <1>2, <2>1, <2>2, LogSeq
  <1>4. \A k \in 1..n : Log'[k] = Log[k]
    BY <1>1, <1>2 DEF Log
  <1>5. SubSeq(Log', 1, n) = [k \in 1..n |-> Log'[k]]
    BY <1>1, <1>3
  <1>6. Log = [k \in 1..n |-> Log[k]]
    BY <1>3
  <1> QED  BY <1>3, <1>4, <1>5, <1>6

\* Every step of the engine is a step of the saga, or leaves it as it is.
LEMMA SagaStep ==
  TypeOK /\ TypeOK' /\ EngineInv /\ [Next]_vars => [S!Next]_(S!sagaVars)
  <1> SUFFICES ASSUME TypeOK, TypeOK', EngineInv, [Next]_vars
               PROVE  S!Next \/ UNCHANGED S!sagaVars
    OBVIOUS
  <1>0. /\ pc # "end" => rollback = "none"
        /\ pc \in {"step", "scan", "executed"} => undoneN = 0
        /\ Pending \in Nat
    BY FlowType DEF EngineInv, UndoInv
  <1>1. ASSUME UNCHANGED <<ledger, undoneN>> PROVE Log' = Log
    BY <1>1 DEF Log, Pending
  \* execute, until it returns.
  <1>2. ASSUME \/ Refuse \/ ExecuteDone \/ UNCHANGED vars
               \/ \E d \in 0..MaxDrift : Drift(d)
               \/ \E a \in Answers : Call(a)
        PROVE  UNCHANGED S!sagaVars
    <2>1. UNCHANGED <<ledger, undoneN, rollback>>
      BY <1>2 DEF Refuse, ExecuteDone, Drift, vars, engineVars, Call
    <2>2. SagaPhase' = SagaPhase
      BY <1>2, <2>1 DEF Refuse, ExecuteDone, Drift, vars, engineVars, Call, SagaPhase
    <2> QED  BY <1>1, <2>1, <2>2 DEF Log, S!sagaVars
  <1>3. CASE Rescan
    <2>1. pc = "scan" /\ pc' \in {"step", "executed"} /\ undoneN = 0 /\ undoneN' = 0 /\ Judge
      BY <1>0, <1>3, JudgeCases DEF Rescan
    <2>2. SagaPhase = "running" /\ SagaPhase' = "running"
      BY <2>1 DEF SagaPhase
    <2>3. CASE ledger' = ledger
      BY <1>1, <2>1, <2>2, <2>3 DEF Log, S!sagaVars
    <2>4. CASE ledger' = Append(ledger, [before |-> before, mutation |-> clock])
      BY <2>1, <2>2, <2>4, LogGrows DEF Log, S!Next, S!Record
    <2> QED  BY <2>1, <2>3, <2>4, JudgeCases
  <1>4. CASE ExecuteRaises \/ Keep
    <2>1. /\ pc \in {"step", "scan", "executed"} /\ pc' = "end"
          /\ rollback' = "none" /\ UNCHANGED <<ledger, undoneN>>
      BY <1>0, <1>4 DEF ExecuteRaises, Keep
    <2>2. SagaPhase = "running" /\ SagaPhase' \in {"committed", "abandoned"}
      BY <2>1 DEF SagaPhase
    <2> QED  BY <1>1, <2>1, <2>2 DEF Log, S!Next, S!Commit
  <1>5. CASE StartRollback
    <2>1. pc = "executed" /\ pc' = "undo" /\ UNCHANGED <<ledger, undoneN>>
      BY <1>5 DEF StartRollback
    <2>2. SagaPhase = "running" /\ SagaPhase' = "undoing"
      BY <2>1 DEF SagaPhase
    <2> QED  BY <1>1, <2>1, <2>2 DEF Log, S!Next, S!StartUndo
  \* The rollback: an inverse counts, the rollback ends, or a proof is due.
  <1>6. ASSUME pc \in {"undo", "prove"}, pc' = "undo", Pending > 0,
               undoneN' = undoneN + 1, ledger' = ledger
        PROVE  S!Next
    <2>1. SagaPhase = "undoing" /\ SagaPhase' = "undoing"
      BY <1>6 DEF SagaPhase
    <2>2. Log # << >> /\ Log' = SubSeq(Log, 1, Len(Log) - 1)
      BY <1>6, LogSeq, LogShrinks
    <2> QED  BY <2>1, <2>2 DEF Log, S!Next, S!UndoLast
  <1>7. ASSUME pc \in {"undo", "prove"}, pc' = "end", UNCHANGED <<ledger, undoneN>>,
               rollback' \in {"stuck", "residual", "raised"}
        PROVE  S!Next
    <2>1. SagaPhase = "undoing" /\ SagaPhase' = "stuck"
      BY <1>7 DEF SagaPhase
    <2> QED  BY <1>1, <1>7, <2>1 DEF Log, S!Next, S!GetStuck
  <1>8. ASSUME pc \in {"undo", "prove"}, pc' \in {"undo", "prove"}, UNCHANGED <<ledger, undoneN>>
        PROVE  UNCHANGED S!sagaVars
    <2>1. SagaPhase = "undoing" /\ SagaPhase' = "undoing"
      BY <1>8 DEF SagaPhase
    <2> QED  BY <1>1, <1>8, <2>1 DEF Log, S!sagaVars
  <1>9. ASSUME NEW a \in UndoAnswers, UndoCall(a)
        PROVE  S!Next \/ UNCHANGED S!sagaVars
    <2>1. pc = "undo" /\ Pending > 0 /\ ledger' = ledger
      BY <1>9 DEF UndoCall
    <2>2. \/ pc' = "prove" /\ undoneN' = undoneN
          \/ pc' = "undo" /\ undoneN' = undoneN + 1
          \/ pc' = "end" /\ rollback' = "stuck" /\ undoneN' = undoneN
      BY <1>9, <2>1 DEF UndoCall, EndRollback
    <2> QED  BY <1>6, <1>7, <1>8, <2>1, <2>2
  <1>10. CASE Prove
    <2>1. pc = "prove" /\ Pending > 0 /\ ledger' = ledger
      BY <1>10 DEF Prove, TypeOK, Pending
    <2>2. \/ pc' = "undo" /\ undoneN' = undoneN + 1
          \/ pc' = "end" /\ rollback' = "stuck" /\ undoneN' = undoneN
      BY <1>10 DEF Prove, EndRollback
    <2> QED  BY <1>6, <1>7, <2>1, <2>2
  <1>11. CASE Undone
    <2>1. /\ pc = "undo" /\ Pending = 0 /\ UNCHANGED <<ledger, undoneN>>
          /\ pc' = "end" /\ rollback' \in {"ok", "residual"}
      BY <1>11 DEF Undone, EndRollback
    <2>2. CASE rollback' = "ok"
      <3>1. SagaPhase = "undoing" /\ SagaPhase' = "undone"
        BY <2>1, <2>2 DEF SagaPhase
      <3>2. Log = << >>
        BY <2>1, LogSeq
      <3> QED  BY <1>1, <2>1, <3>1, <3>2 DEF Log, S!Next, S!FinishUndo
    <2> QED  BY <1>7, <2>1, <2>2
  <1>12. CASE RollbackRaises
    BY <1>7, <1>12 DEF RollbackRaises, EndRollback
  <1> QED  BY <1>2, <1>3, <1>4, <1>5, <1>9, <1>10, <1>11, <1>12 DEF Next

\* The engine implements the saga, whichever rollback its caller uses.
THEOREM EngineImplementsSaga == Spec => ImplementsSaga
  <1>1. Init => S!Init
    <2> SUFFICES ASSUME Init PROVE S!Init
      OBVIOUS
    <2>1. Pending = 0 /\ ledger = << >>
      BY DEF Init, Pending
    <2>2. [k \in 1..Pending |-> ledger[k].mutation] = << >>
      BY <2>1
    <2>3. SagaPhase = "running"
      BY DEF Init, SagaPhase
    <2> QED  BY <2>2, <2>3 DEF S!Init
  <1>2. TypeOK /\ TypeOK' /\ EngineInv /\ [Next]_vars => [S!Next]_(S!sagaVars)
    BY SagaStep
  <1> QED  BY <1>1, <1>2, TypeCorrect, EngineInvariant, PTL DEF Spec, ImplementsSaga, S!Spec
=============================================================================
