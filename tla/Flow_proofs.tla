---------------------------- MODULE Flow_proofs ----------------------------
(***************************************************************************)
(* Proofs about ThinDriver and FlowDocument, for every set of plans and    *)
(* replies, every budget and every way an inverse may end.                 *)
(***************************************************************************)
EXTENDS FlowDocument, WellFoundedInduction, TLAPS

LEMMA SeqWidens ==
  ASSUME NEW n \in Nat, NEW m \in Nat, n <= m, NEW s \in Seq(1..n)
  PROVE  s \in Seq(1..m)
  <1>1. \A i \in 1..Len(s) : s[i] \in 1..m
    OBVIOUS
  <1> QED  BY <1>1, SMT

LEMMA AppendWidens ==
  ASSUME NEW n \in Nat, NEW s \in Seq(1..n)
  PROVE  /\ Append(s, n + 1) \in Seq(1..(n + 1))
         /\ s \in Seq(1..(n + 1))
  <1>1. s \in Seq(1..(n + 1))
    BY SeqWidens
  <1>2. n + 1 \in 1..(n + 1)
    OBVIOUS
  <1> QED  BY <1>1, <1>2

-----------------------------------------------------------------------------
(* Type correctness.                                                       *)

LEMMA PlanType ==
  ASSUME TypeOK
  PROVE  /\ Len(plan) \in Nat
         /\ \A i \in Steps : plan[i] \in StepType
  BY PlansAssumption DEF TypeOK, Steps

LEMMA FoldType ==
  ASSUME NEW r \in Replies
  PROVE  /\ r \in ReplyType
         /\ FoldInnerOk(r) \in ReplyType
         /\ FoldInnerOk(r).inverse = r.inverse
         /\ FoldInnerOk(r).effect = r.effect
         /\ FoldInnerOk(r).ok = (r.ok /\ r.inner)
         /\ r.inverse => r.effect /\ r.ok /\ r.inner
  BY ReplyAssumption DEF ReplyType, FoldInnerOk, ActionOk

\* What a dispatch does to the world keeps its types, whatever the reply.
LEMMA HappensType ==
  ASSUME TypeOK, NEW r \in ReplyType, r.inverse => r.effect, Happens(r)
  PROVE  /\ clock' \in Nat
         /\ clock <= clock'
         /\ world' \subseteq 1..clock'
         /\ reported' \subseteq 1..clock'
         /\ r.inverse => clock' = clock + 1
         /\ ResultOf(r) \in ResultType
  BY DEF TypeOK, Happens, ResultOf, ResultType, ReplyType, Mutation

LEMMA SequencesKeepType ==
  ASSUME TypeOK, clock' \in Nat, clock <= clock'
  PROVE  /\ ledger \in Seq(1..clock')
         /\ undone \in Seq(1..clock')
  BY SeqWidens DEF TypeOK

LEMMA LedgerKeepsType ==
  ASSUME TypeOK, NEW r \in ReplyType, UpdateLedger(r),
         r.inverse => clock' = clock + 1, clock' \in Nat, clock <= clock'
  PROVE  /\ ledger' \in Seq(1..clock')
         /\ Len(undone) <= Len(ledger')
  <1>1. CASE r.ok /\ r.inverse
    <2>1. ledger' = Append(ledger, clock + 1) /\ clock' = clock + 1
      BY <1>1 DEF UpdateLedger
    <2>2. ledger' \in Seq(1..clock')
      BY <2>1, AppendWidens DEF TypeOK
    <2> QED  BY <2>1, <2>2 DEF TypeOK
  <1>2. CASE ~(r.ok /\ r.inverse)
    BY <1>2, SequencesKeepType DEF UpdateLedger, TypeOK
  <1> QED  BY <1>1, <1>2

LEMMA LogType ==
  ASSUME TypeOK, NEW tag \in Tags, NEW ok \in BOOLEAN, Log(tag, ok)
  PROVE  timeline' \in Seq(EntryType)
  BY DEF TypeOK, Log, EntryType

\* One step of the driver keeps the type invariant.
LEMMA TypeStep == TypeOK /\ [Next]_vars => TypeOK'
  <1> SUFFICES ASSUME TypeOK, [Next]_vars
               PROVE  TypeOK'
    OBVIOUS
  <1> USE DEF TypeOK
  <1>0. Len(plan) \in Nat
    BY PlanType
  <1>1. CASE CircuitBreak
    BY <1>1 DEF CircuitBreak, Return, VerdictType, Kinds, worldVars, Steps
  <1>2. CASE CheckStepDeps
    <2>1. timeline' \in Seq(EntryType)
      BY <1>2, LogType DEF CheckStepDeps, Tags
    <2> QED  BY <1>2, <2>1 DEF CheckStepDeps, Return, VerdictType, Kinds, worldVars, Steps
  <1>3. CASE SkipIrreversible
    <2>1. timeline' \in Seq(EntryType)
      BY <1>3, LogType DEF SkipIrreversible, Tags
    <2>2. results' \in [Steps -> ResultType]
      BY <1>3, <1>0 DEF SkipIrreversible, ResultType, NoResult, Steps, AtStep
    <2> QED  BY <1>3, <1>0, <2>1, <2>2 DEF SkipIrreversible, AtStep, worldVars, Steps
  <1>4. ASSUME NEW r \in Replies, OptionalStep(r)
        PROVE  TypeOK'
    <2>1. r \in ReplyType /\ (r.inverse => r.effect) /\ Happens(r)
      BY <1>4, FoldType DEF OptionalStep
    <2>2. clock' \in Nat /\ clock <= clock' /\ world' \subseteq 1..clock'
          /\ reported' \subseteq 1..clock' /\ ResultOf(r) \in ResultType
      BY <2>1, HappensType
    <2>3. ledger \in Seq(1..clock') /\ undone \in Seq(1..clock')
      BY <2>2, SequencesKeepType
    <2>4. timeline' \in Seq(EntryType)
      BY <1>4, <2>1, LogType DEF OptionalStep, Tags, ReplyType
    <2>5. results' \in [Steps -> ResultType]
      BY <1>4, <1>0, <2>2 DEF OptionalStep, Steps
    <2> QED  BY <1>4, <1>0, <2>2, <2>3, <2>4, <2>5
             DEF OptionalStep, Dispatchable, AtStep, Steps
  <1>5. ASSUME NEW reply \in Replies, MandatoryStep(reply)
        PROVE  TypeOK'
    <2> DEFINE r == FoldInnerOk(reply)
    <2>1. r \in ReplyType /\ (r.inverse => r.effect) /\ Happens(r)
          /\ UpdateLedger(r) /\ FollowIntent(r) /\ AtStep
      BY <1>5, FoldType DEF MandatoryStep, Dispatchable
    <2> HIDE DEF r
    <2>2. clock' \in Nat /\ clock <= clock' /\ world' \subseteq 1..clock'
          /\ reported' \subseteq 1..clock' /\ ResultOf(r) \in ResultType
          /\ (r.inverse => clock' = clock + 1)
      BY <2>1, HappensType
    <2>3. ledger' \in Seq(1..clock') /\ Len(undone) <= Len(ledger')
          /\ undone \in Seq(1..clock')
      BY <2>1, <2>2, LedgerKeepsType, SequencesKeepType
    <2>4. timeline' \in Seq(EntryType)
      BY <1>5, <2>1, LogType DEF MandatoryStep, Tags, ReplyType, r
    <2>5. results' \in [Steps -> ResultType]
      BY <1>5, <1>0, <2>2 DEF MandatoryStep, Steps, r
    <2>6. /\ pc' \in {"loop", "retry", "ensure", "goal", "rollback", "returned"}
          /\ pos' \in 1..(Len(plan) + 1)
          /\ pc' \in {"retry", "ensure"} => pos' \in Steps
          /\ verdict' \in VerdictType
          /\ healed' \in BOOLEAN
      BY <2>1, <1>0 DEF FollowIntent, AtStep, Steps, Return, VerdictType, Kinds, ReplyType
    <2> QED  BY <1>5, <2>2, <2>3, <2>4, <2>5, <2>6 DEF MandatoryStep, Steps
  <1>6. ASSUME NEW r \in Replies, RetryOnce(r)
        PROVE  TypeOK'
    <2>1. r \in ReplyType /\ (r.inverse => r.effect) /\ Happens(r)
      BY <1>6, FoldType DEF RetryOnce
    <2>2. clock' \in Nat /\ clock <= clock' /\ world' \subseteq 1..clock'
          /\ reported' \subseteq 1..clock' /\ ResultOf(r) \in ResultType
      BY <2>1, HappensType
    <2>3. ledger \in Seq(1..clock') /\ undone \in Seq(1..clock')
      BY <2>2, SequencesKeepType
    <2>4. timeline' \in Seq(EntryType)
      BY <1>6, <2>1, LogType DEF RetryOnce, Tags, ReplyType
    <2>5. results' \in [Steps -> ResultType]
      BY <1>6, <1>0, <2>2 DEF RetryOnce, Steps
    <2>6. /\ pc' \in {"loop", "rollback"}
          /\ pos' \in 1..(Len(plan) + 1)
      BY <1>6, <1>0 DEF RetryOnce, Steps
    <2>7. retriesUsed' \in Nat /\ remediationsUsed' \in Nat
      BY <1>6 DEF RetryOnce
    <2> QED  BY <1>6, <2>2, <2>3, <2>4, <2>5, <2>6, <2>7 DEF RetryOnce, Steps
  <1>7. CASE AcquireThenRetry
    BY <1>7 DEF AcquireThenRetry, worldVars, Steps
  <1>8. CASE AcquireBlocked
    <2>1. timeline' \in Seq(EntryType)
      BY <1>8, LogType DEF AcquireBlocked, Tags
    <2> QED  BY <1>8, <2>1
             DEF AcquireBlocked, Return, VerdictType, Kinds, worldVars, Steps
  <1>14. CASE GoalMet
    BY <1>14 DEF GoalMet, Return, VerdictType, Kinds, worldVars, Steps
  <1>15. CASE GoalFailed
    BY <1>15 DEF GoalFailed, worldVars, Steps
  <1>9. ASSUME NEW how \in InverseReplies, UndoLast(how)
        PROVE  TypeOK'
    <2>1. timeline' \in Seq(EntryType)
      BY <1>9, LogType DEF UndoLast, Tags
    <2>2. ledger[Pending] \in 1..clock
      BY <1>9 DEF UndoLast, Pending
    <2>3. undone' \in Seq(1..clock) /\ Len(undone') <= Len(ledger)
      BY <1>9, <2>2 DEF UndoLast, Pending
    <2> QED  BY <1>9, <2>1, <2>3 DEF UndoLast, Reverts, Steps
  <1>10. ASSUME NEW how \in InverseReplies, UndoFails(how)
         PROVE  TypeOK'
    <2>1. timeline' \in Seq(EntryType)
      BY <1>10, LogType DEF UndoFails, Tags
    <2> QED  BY <1>10, <2>1 DEF UndoFails, Reverts, Return, Why, VerdictType, Kinds, Steps
  <1>11. CASE RollbackDone
    BY <1>11 DEF RollbackDone, Return, Why, VerdictType, Kinds, worldVars, Steps
  <1>12. ASSUME NEW b \in BOOLEAN, DispatchRaises(b)
         PROVE  TypeOK'
    <2>1. clock' \in Nat /\ clock <= clock' /\ world' \subseteq 1..clock'
      BY <1>12 DEF DispatchRaises
    <2>2. ledger \in Seq(1..clock') /\ undone \in Seq(1..clock')
      BY <2>1, SequencesKeepType
    <2> QED  BY <1>12, <2>1, <2>2 DEF DispatchRaises, Return, VerdictType, Kinds, Steps
  <1>16. CASE CallRaises
    BY <1>16 DEF CallRaises, Return, VerdictType, Kinds, worldVars, Steps
  <1>17. ASSUME NEW how \in InverseReplies, InverseRaises(how)
         PROVE  TypeOK'
    BY <1>17 DEF InverseRaises, Reverts, Return, VerdictType, Kinds, Steps
  <1>13. CASE UNCHANGED vars
    BY <1>13 DEF vars, driverVars, worldVars, Steps
  <1> QED  BY <1>1, <1>2, <1>3, <1>4, <1>5, <1>6, <1>7, <1>8, <1>9, <1>10, <1>11,
              <1>12, <1>13, <1>14, <1>15, <1>16, <1>17 DEF Next

\* The driver starts well typed.
LEMMA InitType == Init => TypeOK
  <1> SUFFICES ASSUME Init PROVE TypeOK
    OBVIOUS
  <1>1. Len(plan) \in Nat
    BY PlansAssumption DEF Init
  <1>2. results \in [Steps -> ResultType]
    BY DEF Init, NoResult, ResultType
  <1>3. verdict \in VerdictType
    BY DEF Init, Running, VerdictType, Kinds
  <1>4. ledger \in Seq(1..clock) /\ undone \in Seq(1..clock) /\ Len(undone) <= Len(ledger)
        /\ timeline \in Seq(EntryType)
    BY DEF Init
  <1>5. pos \in 1..(Len(plan) + 1)
    BY <1>1 DEF Init
  <1>6. world \subseteq 1..clock /\ reported \subseteq 1..clock
    BY DEF Init
  <1>7. pc = "loop" /\ plan \in Plans /\ healed \in BOOLEAN /\ clock = 0
        /\ retriesUsed = 0 /\ remediationsUsed = 0
    BY DEF Init
  <1> QED  BY <1>2, <1>3, <1>4, <1>5, <1>6, <1>7 DEF TypeOK

\* Every reachable state of the driver is well typed.
THEOREM TypeCorrect == Spec => []TypeOK
  <1>1. Init => TypeOK
    BY InitType
  <1> QED  BY <1>1, TypeStep, PTL DEF Spec

-----------------------------------------------------------------------------
(* The inductive invariant.                                                *)

\* A dispatch only adds to the world and to what is reported.
LEMMA HappensGrows ==
  ASSUME TypeOK, NEW r \in ReplyType, Happens(r)
  PROVE  /\ world \subseteq world'
         /\ reported \subseteq reported'
         /\ \A m \in world' : m \in world \/ m = clock + 1
  BY DEF TypeOK, Happens, ReplyType

\* The entries of the ledger are mutations made so far.
LEMMA LedgerRange ==
  ASSUME TypeOK
  PROVE  /\ Len(ledger) \in Nat
         /\ Len(undone) \in Nat
         /\ Pending \in 0..Len(ledger)
         /\ \A i \in 1..Len(ledger) : ledger[i] \in 1..clock
  BY DEF TypeOK, Pending

\* A dispatch that leaves the ledger alone keeps the facts about it.
LEMMA DispatchKeepsLedger ==
  ASSUME TypeOK, DriverInv, NEW r \in ReplyType, Happens(r),
         ledger' = ledger, undone' = undone, verdict' = verdict,
         undone = << >>, verdict = Running
  PROVE  LedgerInOrder' /\ LedgerMatchesWorld'
  <1>1. world \subseteq world' /\ reported \subseteq reported'
    BY HappensGrows
  <1>2. LedgerInOrder'
    BY <1>1 DEF DriverInv, LedgerInOrder
  <1>3. LedgerMatchesWorld'
    <2>1. \A i \in 1..Len(ledger) :
             "refused" \notin InverseReplies => ledger[i] \in world'
      BY <1>1, LedgerRange DEF DriverInv, LedgerMatchesWorld, Pending, Running
    <2> QED  BY <2>1, LedgerRange DEF LedgerMatchesWorld, Pending
  <1> QED  BY <1>2, <1>3

\* A mandatory step that enters its mutation in the ledger keeps them as well.
LEMMA UpdateKeepsLedger ==
  ASSUME TypeOK, DriverInv, NEW r \in ReplyType, r.inverse => r.effect,
         Happens(r), UpdateLedger(r),
         undone' = undone, undone = << >>, verdict.rollback # "stuck"
  PROVE  LedgerInOrder' /\ LedgerMatchesWorld'
  <1>1. world \subseteq world' /\ reported \subseteq reported'
    BY HappensGrows
  <1>2. CASE r.ok /\ r.inverse
    <2>1. ledger' = Append(ledger, clock + 1)
      BY <1>2 DEF UpdateLedger
    <2>2. clock + 1 \in world' /\ clock + 1 \in reported'
      BY <1>2 DEF Happens
    <2>3. /\ Len(ledger') = Len(ledger) + 1
          /\ \A i \in 1..Len(ledger) : ledger'[i] = ledger[i]
          /\ ledger'[Len(ledger) + 1] = clock + 1
      BY <2>1 DEF TypeOK
    <2>4. \A i \in 1..Len(ledger) : ledger[i] \in 1..clock
      BY LedgerRange
    <2>5. LedgerInOrder'
      <3>1. clock \in Nat /\ Len(ledger) \in Nat
        BY LedgerRange DEF TypeOK
      <3>2. \A i, j \in 1..Len(ledger') : i < j => ledger'[i] < ledger'[j]
        <4> SUFFICES ASSUME NEW i \in 1..Len(ledger'), NEW j \in 1..Len(ledger'), i < j
                     PROVE  ledger'[i] < ledger'[j]
          OBVIOUS
        <4>1. CASE j = Len(ledger) + 1
          <5>1. i \in 1..Len(ledger) /\ ledger[i] \in 1..clock
            BY <4>1, <3>1, <2>3, <2>4
          <5> QED  BY <5>1, <4>1, <3>1, <2>3
        <4>2. CASE j # Len(ledger) + 1
          BY <4>2, <3>1, <2>3 DEF DriverInv, LedgerInOrder
        <4> QED  BY <4>1, <4>2
      <3>3. \A i \in 1..Len(ledger') : ledger'[i] \in reported'
        BY <1>1, <2>2, <2>3, <3>1 DEF DriverInv, LedgerInOrder
      <3>4. Len(undone') = 0
        OBVIOUS
      <3> QED  BY <3>2, <3>3, <3>4 DEF LedgerInOrder
    <2>6. \A i \in 1..Len(ledger') :
             "refused" \notin InverseReplies => ledger'[i] \in world'
      BY <1>1, <2>2, <2>3, LedgerRange DEF DriverInv, LedgerMatchesWorld, Pending
    <2>7. Pending' = Len(ledger')
      BY <2>3, LedgerRange DEF Pending
    <2> QED  BY <2>3, <2>5, <2>6, <2>7, LedgerRange DEF LedgerMatchesWorld
  <1>3. CASE ~(r.ok /\ r.inverse)
    <2>1. ledger' = ledger
      BY <1>3 DEF UpdateLedger
    <2>2. LedgerInOrder'
      BY <1>1, <2>1 DEF DriverInv, LedgerInOrder
    <2>3. \A i \in 1..Len(ledger) :
             "refused" \notin InverseReplies => ledger[i] \in world'
      BY <1>1, LedgerRange DEF DriverInv, LedgerMatchesWorld, Pending
    <2> QED  BY <2>1, <2>2, <2>3, LedgerRange DEF LedgerMatchesWorld, Pending
  <1> QED  BY <1>2, <1>3

\* The parts of DriverInv about the control, apart from the ledger.
ControlInv ==
    /\ pc \in {"loop", "retry", "ensure", "goal"} => undone = << >>
    /\ pc # "returned" => verdict = Running
    /\ verdict.rollback = "ok" => Pending = 0
BudgetInv ==
    /\ retriesUsed <= MaxRetries + 1 /\ remediationsUsed <= MaxRemediations + 1
    /\ pc \in {"retry", "ensure"} =>
          retriesUsed <= MaxRetries /\ remediationsUsed <= MaxRemediations
FreshInv ==
    \A i \in Steps : i > pos \/ (i = pos /\ pc = "loop") => results[i] = NoResult

LEMMA DriverInvParts ==
  DriverInv <=> LedgerInOrder /\ LedgerMatchesWorld /\ ControlInv /\ BudgetInv /\ FreshInv
  BY DEF DriverInv, ControlInv, BudgetInv, FreshInv

LEMMA BudgetStep ==
  TypeOK /\ BudgetInv /\ [Next]_vars => BudgetInv'
  <1> SUFFICES ASSUME TypeOK, BudgetInv, [Next]_vars
               PROVE  BudgetInv'
    OBVIOUS
  <1> USE BudgetAssumption DEF TypeOK, BudgetInv
  <1>1. CASE UNCHANGED <<retriesUsed, remediationsUsed, pc>>
    BY <1>1
  <1>2. CASE /\ UNCHANGED <<retriesUsed, remediationsUsed>>
             /\ pc' \in {"loop", "goal", "rollback", "goal-rollback", "returned"}
    BY <1>2
  <1>3. ASSUME NEW r \in Replies, MandatoryStep(r)
        PROVE  BudgetInv'
    BY <1>3 DEF MandatoryStep, Dispatchable, BudgetExceeded
  <1>4. ASSUME NEW r \in Replies, RetryOnce(r)
        PROVE  BudgetInv'
    <2>1. retriesUsed <= MaxRetries /\ remediationsUsed <= MaxRemediations
          /\ retriesUsed' = retriesUsed + 1 /\ pc' \in {"loop", "rollback"}
      BY <1>4 DEF RetryOnce
    <2>2. remediationsUsed' \in {remediationsUsed, remediationsUsed + 1}
      BY <1>4 DEF RetryOnce
    <2> QED  BY <2>1, <2>2
  <1>5. CASE AcquireThenRetry
    BY <1>5 DEF AcquireThenRetry
  <1> QED
    BY <1>1, <1>2, <1>3, <1>4, <1>5
    DEF Next, CircuitBreak, CheckStepDeps, SkipIrreversible, OptionalStep,
        AcquireBlocked, GoalMet, GoalFailed, UndoLast, UndoFails, RollbackDone,
        DispatchRaises, CallRaises, InverseRaises, Return, vars, driverVars, AtStep, Dispatchable

LEMMA FreshStep ==
  TypeOK /\ FreshInv /\ [Next]_vars => FreshInv'
  <1> SUFFICES ASSUME TypeOK, FreshInv, [Next]_vars
               PROVE  FreshInv'
    OBVIOUS
  <1> USE DEF FreshInv, Steps
  <1>0. Len(plan) \in Nat /\ pos \in 1..(Len(plan) + 1)
    BY PlanType DEF TypeOK
  \* Whatever the step writes, it writes at pos and then moves on or stops there.
  <1>1. ASSUME plan' = plan,
               \/ pos' = pos + 1 /\ pos \in Steps
               \/ pos' = pos /\ (pc' # "loop" \/ (pc = "loop" /\ results' = results)),
               \/ results' = results
               \/ \E v \in ResultType : results' = [results EXCEPT ![pos] = v]
        PROVE  FreshInv'
    BY <1>0, <1>1 DEF TypeOK
  <1>2. CASE SkipIrreversible
    <2>1. [NoResult EXCEPT !.present = TRUE, !.ok = TRUE, !.inner = TRUE] \in ResultType
      BY DEF NoResult, ResultType
    <2> QED  BY <1>0, <1>1, <1>2, <2>1 DEF SkipIrreversible, AtStep
  <1>3. ASSUME NEW r \in Replies, OptionalStep(r)
        PROVE  FreshInv'
    <2>1. ResultOf(r) \in ResultType
      BY <1>3, FoldType, HappensType DEF OptionalStep
    <2> QED  BY <1>0, <1>1, <1>3, <2>1 DEF OptionalStep, Dispatchable, AtStep
  <1>4. ASSUME NEW r \in Replies, MandatoryStep(r)
        PROVE  FreshInv'
    <2>1. ResultOf(FoldInnerOk(r)) \in ResultType
      BY <1>4, FoldType, HappensType DEF MandatoryStep
    <2>2. /\ plan' = plan
          /\ results' = [results EXCEPT ![pos] = ResultOf(FoldInnerOk(r))]
          /\ pos \in Steps
          /\ FollowIntent(FoldInnerOk(r))
      BY <1>0, <1>4 DEF MandatoryStep, Dispatchable, AtStep
    <2>3. \/ pos' = pos + 1
          \/ pos' = pos /\ pc' # "loop"
      BY <2>2 DEF FollowIntent, Return
    <2> QED  BY <1>1, <2>1, <2>2, <2>3
  <1>5. ASSUME NEW r \in Replies, RetryOnce(r)
        PROVE  FreshInv'
    <2>1. ResultOf(r) \in ResultType
      BY <1>5, FoldType, HappensType DEF RetryOnce
    <2> QED  BY <1>0, <1>1, <1>5, <2>1 DEF RetryOnce, TypeOK
  <1>6. CASE UNCHANGED <<plan, pos, results>> /\ (pc' # "loop" \/ pc = "loop")
    BY <1>1, <1>6
  <1> QED
    BY <1>2, <1>3, <1>4, <1>5, <1>6
    DEF Next, CircuitBreak, CheckStepDeps, AcquireThenRetry, AcquireBlocked, GoalMet,
        GoalFailed, UndoLast, UndoFails, RollbackDone, DispatchRaises, CallRaises, InverseRaises, Return, vars,
        driverVars

LEMMA LedgerStep ==
  TypeOK /\ DriverInv /\ [Next]_vars => LedgerInOrder' /\ LedgerMatchesWorld' /\ ControlInv'
  <1> SUFFICES ASSUME TypeOK, DriverInv, [Next]_vars
               PROVE  LedgerInOrder' /\ LedgerMatchesWorld' /\ ControlInv'
    OBVIOUS
  <1> USE DriverInvParts
  \* Steps that touch neither the ledger nor the world.
  <1>1. ASSUME UNCHANGED <<ledger, undone, world, reported>>,
               verdict' = verdict \/ verdict = Running
        PROVE  LedgerInOrder' /\ LedgerMatchesWorld'
    <2>1. LedgerInOrder'
      BY <1>1 DEF LedgerInOrder
    <2>2. verdict' = verdict \/ verdict.rollback # "stuck"
      BY <1>1 DEF Running
    <2> QED  BY <1>1, <2>1, <2>2 DEF LedgerMatchesWorld, Pending
  <1>2. CASE CircuitBreak \/ CheckStepDeps \/ AcquireBlocked \/ GoalMet \/ CallRaises
    <2>1. /\ UNCHANGED <<ledger, undone, world, reported>>
          /\ pc \in {"loop", "ensure", "goal"}
          /\ \E kind : Return(kind, "none")
      BY <1>2 DEF CircuitBreak, CheckStepDeps, AcquireBlocked, GoalMet, CallRaises,
         worldVars, AtStep, AtGoal
    <2>2. verdict = Running /\ verdict'.rollback = "none" /\ pc' = "returned"
      BY <2>1 DEF ControlInv, Return
    <2> QED  BY <1>1, <2>1, <2>2 DEF ControlInv
  <1>11. CASE SkipIrreversible \/ AcquireThenRetry \/ GoalFailed
    <2>1. /\ UNCHANGED <<ledger, undone, world, reported, verdict>>
          /\ pc \in {"loop", "ensure", "goal"}
          /\ pc' \in {"loop", "retry", "goal-rollback"}
      BY <1>11 DEF SkipIrreversible, AcquireThenRetry, GoalFailed, worldVars, AtStep, AtGoal
    <2> QED  BY <1>1, <2>1 DEF ControlInv, Running
  <1>3. ASSUME NEW r \in Replies, OptionalStep(r)
        PROVE  LedgerInOrder' /\ LedgerMatchesWorld' /\ ControlInv'
    <2>1. pc = "loop" /\ undone = << >> /\ verdict = Running
      BY <1>3 DEF OptionalStep, Dispatchable, AtStep, ControlInv
    <2>2. LedgerInOrder' /\ LedgerMatchesWorld'
      BY <1>3, <2>1, FoldType, DispatchKeepsLedger DEF OptionalStep
    <2> QED  BY <1>3, <2>1, <2>2 DEF OptionalStep, ControlInv, Running
  <1>4. ASSUME NEW reply \in Replies, MandatoryStep(reply)
        PROVE  LedgerInOrder' /\ LedgerMatchesWorld' /\ ControlInv'
    <2> DEFINE r == FoldInnerOk(reply)
    <2>1. r \in ReplyType /\ (r.inverse => r.effect) /\ Happens(r) /\ UpdateLedger(r)
          /\ FollowIntent(r) /\ undone' = undone
      BY <1>4, FoldType DEF MandatoryStep
    <2>2. pc = "loop" /\ undone = << >> /\ verdict = Running
      BY <1>4 DEF MandatoryStep, Dispatchable, AtStep, ControlInv
    <2> HIDE DEF r
    <2>3. LedgerInOrder' /\ LedgerMatchesWorld'
      BY <2>1, <2>2, UpdateKeepsLedger DEF Running
    <2>4. ControlInv'
      BY <2>1, <2>2 DEF FollowIntent, Return, ControlInv, Running
    <2> QED  BY <2>3, <2>4
  <1>5. ASSUME NEW r \in Replies, RetryOnce(r)
        PROVE  LedgerInOrder' /\ LedgerMatchesWorld' /\ ControlInv'
    <2>1. pc = "retry" /\ undone = << >> /\ verdict = Running
      BY <1>5 DEF RetryOnce, ControlInv
    <2>2. LedgerInOrder' /\ LedgerMatchesWorld'
      BY <1>5, <2>1, FoldType, DispatchKeepsLedger DEF RetryOnce
    <2> QED  BY <1>5, <2>1, <2>2 DEF RetryOnce, ControlInv, Running
  <1>6. ASSUME NEW how \in InverseReplies, UndoLast(how)
        PROVE  LedgerInOrder' /\ LedgerMatchesWorld' /\ ControlInv'
    <2>1. /\ RollingBack
          /\ Pending \in 1..Len(ledger)
          /\ undone' = Append(undone, ledger[Pending])
          /\ world' \subseteq world
          /\ world \ {ledger[Pending]} \subseteq world'
          /\ "refused" \notin InverseReplies => ledger[Pending] \notin world'
          /\ UNCHANGED <<ledger, reported, verdict, pc>>
      BY <1>6, LedgerRange DEF UndoLast, Reverts
    <2>2. /\ Len(undone') = Len(undone) + 1
          /\ \A i \in 1..Len(undone) : undone'[i] = undone[i]
          /\ undone'[Len(undone) + 1] = ledger[Pending]
      BY <2>1 DEF TypeOK
    <2>3. Pending' = Pending - 1
      BY <2>1, <2>2, LedgerRange DEF Pending
    <2>4. LedgerInOrder'
      <3>1. \A i \in 1..Len(undone') : undone'[i] = ledger[Len(ledger) + 1 - i]
        BY <2>2, LedgerRange DEF LedgerInOrder, Pending
      <3> QED  BY <2>1, <3>1 DEF LedgerInOrder
    <2>5. LedgerMatchesWorld'
      <3>1. \A i \in 1..Len(ledger) : i <= Pending - 1 => ledger[i] # ledger[Pending]
        BY <2>1, LedgerRange DEF LedgerInOrder, TypeOK
      <3>2. \A i \in 1..Len(ledger) :
               "refused" \notin InverseReplies /\ i <= Pending - 1 /\ verdict.rollback # "stuck"
                  => ledger[i] \in world'
        BY <2>1, <3>1, LedgerRange DEF LedgerMatchesWorld
      <3>3. \A i \in 1..Len(ledger) :
               "refused" \notin InverseReplies /\ i > Pending - 1 => ledger[i] \notin world'
        BY <2>1, LedgerRange DEF LedgerMatchesWorld
      <3> QED  BY <2>1, <2>3, <3>2, <3>3 DEF LedgerMatchesWorld
    <2>6. ControlInv'
      BY <2>1 DEF ControlInv, RollingBack, Running
    <2> QED  BY <2>4, <2>5, <2>6
  <1>7. ASSUME NEW how \in InverseReplies, UndoFails(how) \/ InverseRaises(how)
        PROVE  LedgerInOrder' /\ LedgerMatchesWorld' /\ ControlInv'
    <2>1. /\ world' \subseteq world
          /\ verdict'.rollback = "stuck"
          /\ pc' = "returned"
          /\ UNCHANGED <<ledger, undone, reported>>
      <3>1. world' \subseteq world
        BY <1>7 DEF UndoFails, InverseRaises, Reverts
      <3>2. verdict'.rollback = "stuck" /\ pc' = "returned"
        <4>1. CASE UndoFails(how)
          BY <4>1 DEF UndoFails, Return
        <4>2. CASE InverseRaises(how)
          BY <4>2 DEF InverseRaises, Return
        <4> QED  BY <1>7, <4>1, <4>2
      <3>3. UNCHANGED <<ledger, undone, reported>>
        <4>1. CASE UndoFails(how)
          BY <4>1 DEF UndoFails
        <4>2. CASE InverseRaises(how)
          BY <4>2 DEF InverseRaises
        <4> QED  BY <1>7, <4>1, <4>2
      <3> QED  BY <3>1, <3>2, <3>3
    <2> QED  BY <2>1 DEF LedgerInOrder, LedgerMatchesWorld, ControlInv, Pending
  <1>8. CASE RollbackDone
    <2>1. LedgerInOrder' /\ LedgerMatchesWorld'
      BY <1>1, <1>8 DEF RollbackDone, RollingBack, worldVars, ControlInv
    <2> QED  BY <1>8, <2>1 DEF RollbackDone, Return, ControlInv, Pending
  <1>9. ASSUME NEW b \in BOOLEAN, DispatchRaises(b)
        PROVE  LedgerInOrder' /\ LedgerMatchesWorld' /\ ControlInv'
    <2>1. /\ world \subseteq world'
          /\ undone = << >>
          /\ verdict = Running
          /\ verdict' = [kind |-> "raised", rollback |-> "none"]
          /\ pc' = "returned"
          /\ UNCHANGED <<ledger, undone, reported>>
      BY <1>9 DEF DispatchRaises, Return, Dispatchable, AtStep, ControlInv
    <2>2. \A i \in 1..Len(ledger) :
             "refused" \notin InverseReplies => ledger[i] \in world'
      BY <2>1, LedgerRange DEF LedgerMatchesWorld, Pending, Running
    <2>3. LedgerMatchesWorld'
      BY <2>1, <2>2, LedgerRange DEF LedgerMatchesWorld, Pending
    <2> QED  BY <2>1, <2>3 DEF LedgerInOrder, ControlInv
  <1>10. CASE UNCHANGED vars
    BY <1>10 DEF vars, driverVars, worldVars, LedgerInOrder, LedgerMatchesWorld,
       ControlInv, Pending
  <1> QED  BY <1>2, <1>3, <1>4, <1>5, <1>6, <1>7, <1>8, <1>9, <1>10, <1>11 DEF Next

\* It starts with an empty ledger and within its budgets.
LEMMA InitDriver == Init => DriverInv
  <1> SUFFICES ASSUME Init PROVE DriverInv
    OBVIOUS
  <1>1. Len(ledger) = 0 /\ Len(undone) = 0
    BY DEF Init
  <1>2. LedgerInOrder /\ LedgerMatchesWorld
    BY <1>1 DEF LedgerInOrder, LedgerMatchesWorld, Pending
  <1>3. ControlInv
    BY <1>1 DEF Init, ControlInv, Running
  <1>4. BudgetInv
    BY BudgetAssumption DEF Init, BudgetInv
  <1>5. FreshInv
    BY DEF Init, FreshInv
  <1> QED  BY <1>2, <1>3, <1>4, <1>5, DriverInvParts

\* The inductive invariant holds in every reachable state.
THEOREM DriverInvariant == Spec => []DriverInv
  <1>1. Init => DriverInv
    BY InitDriver
  <1>2. TypeOK /\ DriverInv /\ [Next]_vars => DriverInv'
    <2> SUFFICES ASSUME TypeOK, DriverInv, [Next]_vars PROVE DriverInv'
      OBVIOUS
    <2>1. LedgerInOrder' /\ LedgerMatchesWorld' /\ ControlInv'
      BY LedgerStep
    <2>2. BudgetInv' /\ FreshInv'
      BY DriverInvParts, BudgetStep, FreshStep
    <2>3. (LedgerInOrder /\ LedgerMatchesWorld /\ ControlInv /\ BudgetInv /\ FreshInv)' => DriverInv'
      BY DEF DriverInv, ControlInv, BudgetInv, FreshInv
    <2> QED  BY <2>1, <2>2, <2>3
  <1> QED  BY <1>1, <1>2, TypeCorrect, PTL DEF Spec

-----------------------------------------------------------------------------
(* The safety properties.                                                  *)

\* The ledger is in order, and matches the world, in every reachable state.
THEOREM LedgerSafe == Spec => [](LedgerInOrder /\ LedgerMatchesWorld)
  <1>1. DriverInv => LedgerInOrder /\ LedgerMatchesWorld
    BY DEF DriverInv
  <1> QED  BY <1>1, DriverInvariant, PTL

\* A rollback that answers ok has cleared the whole ledger, and a stuck one
\* everything newer than the inverse it is stuck at.
THEOREM RollbackIsClean == Spec => []RollbackCleans
  <1>1. TypeOK /\ DriverInv => RollbackCleans
    <2> SUFFICES ASSUME TypeOK, DriverInv, "refused" \notin InverseReplies
                 PROVE  /\ verdict.rollback = "ok" => \A m \in world : ~InLedger(m)
                        /\ \A m \in world, i \in 1..Len(undone) :
                              InLedger(m) => m < undone[i]
      BY DEF RollbackCleans
    <2>1. \A k \in 1..Len(ledger) : ledger[k] \in world => k <= Pending
      BY LedgerRange DEF DriverInv, LedgerMatchesWorld
    <2>2. verdict.rollback = "ok" => \A m \in world : ~InLedger(m)
      BY <2>1 DEF DriverInv, InLedger
    <2>3. ASSUME NEW m \in world, NEW i \in 1..Len(undone), InLedger(m)
          PROVE  m < undone[i]
      <3>1. PICK k \in 1..Len(ledger) : ledger[k] = m
        BY <2>3 DEF InLedger
      <3>2. /\ undone[i] = ledger[Len(ledger) + 1 - i]
            /\ Len(ledger) + 1 - i \in 1..Len(ledger)
            /\ k < Len(ledger) + 1 - i
        BY <2>1, <3>1, LedgerRange DEF DriverInv, LedgerInOrder, Pending
      <3> QED  BY <3>1, <3>2 DEF DriverInv, LedgerInOrder
    <2> QED  BY <2>2, <2>3
  <1> QED  BY <1>1, TypeCorrect, DriverInvariant, PTL

\* No budget is overrun by more than the retry that spends it.
THEOREM BudgetsSafe == Spec => []BudgetsHold
  <1>1. DriverInv => BudgetsHold
    BY DEF DriverInv, BudgetsHold
  <1> QED  BY <1>1, DriverInvariant, PTL

\* Mutations of the ledger are only ever taken back last-in first-out.
THEOREM UndoIsLifo == Spec => LifoUndo
  <1>1. TypeOK /\ DriverInv /\ [Next]_vars => [UndoesNewest]_vars
    <2> SUFFICES ASSUME TypeOK, DriverInv, Next, "refused" \notin InverseReplies,
                        NEW m \in world \ world'
                 PROVE  InLedger(m) /\ \A n \in world' : InLedger(n) => n < m
      BY DEF UndoesNewest
    <2>1. PICK how \in InverseReplies : UndoLast(how) \/ UndoFails(how) \/ InverseRaises(how)
      BY FoldType, HappensGrows
      DEF Next, CircuitBreak, CheckStepDeps, SkipIrreversible, OptionalStep, MandatoryStep,
          RetryOnce, AcquireThenRetry, AcquireBlocked, GoalMet, GoalFailed, RollbackDone,
          DispatchRaises, CallRaises, worldVars
    <2>2. /\ Pending \in 1..Len(ledger)
          /\ m = ledger[Pending]
          /\ world' = world \ {ledger[Pending]}
      <3>1. Reverts(how, ledger[Pending]) /\ Pending > 0
        BY <2>1 DEF UndoLast, UndoFails, InverseRaises
      <3>2. world' = world \/ world' = world \ {ledger[Pending]}
        BY <3>1 DEF Reverts
      <3> QED  BY <3>1, <3>2, LedgerRange
    <2>3. ASSUME NEW n \in world', InLedger(n)
          PROVE  n < m
      <3>1. PICK k \in 1..Len(ledger) : ledger[k] = n
        BY <2>3 DEF InLedger
      <3>2. k < Pending
        BY <2>2, <2>3, <3>1, LedgerRange DEF DriverInv, LedgerMatchesWorld
      <3> QED  BY <2>2, <3>1, <3>2 DEF DriverInv, LedgerInOrder
    <2> QED  BY <2>2, <2>3 DEF InLedger
  <1> QED  BY <1>1, TypeCorrect, DriverInvariant, PTL DEF Spec, LifoUndo

-----------------------------------------------------------------------------
(* Irreversible steps.                                                     *)

\* A step waiting for its retry has been dispatched once.
GuardInv == /\ NoIrreversibleAfterDegraded
            /\ pc \in {"retry", "ensure"} => results[pos].dispatched

LEMMA GuardStep == TypeOK /\ FreshInv /\ GuardInv /\ [Next]_vars => GuardInv'
  <1> SUFFICES ASSUME TypeOK, FreshInv, GuardInv, [Next]_vars
               PROVE  GuardInv'
    OBVIOUS
  <1> USE DEF GuardInv, NoIrreversibleAfterDegraded, Steps
  <1>0. Len(plan) \in Nat /\ pos \in 1..(Len(plan) + 1)
    BY PlanType DEF TypeOK
  \* A result written at pos, when the steps before pos allow it.
  <1>1. ASSUME plan' = plan, pos \in Steps, NEW v \in ResultType,
               results' = [results EXCEPT ![pos] = v],
               plan[pos].irreversible /\ v.dispatched =>
                  \A j \in 1..(pos - 1) : ~results[j].degraded
        PROVE  NoIrreversibleAfterDegraded'
    <2> SUFFICES ASSUME NEW i \in Steps, plan[i].irreversible, results'[i].dispatched,
                        NEW j \in 1..(i - 1)
                 PROVE  ~results'[j].degraded
      BY <1>1
    <2>1. CASE i < pos
      BY <1>0, <1>1, <2>1 DEF TypeOK
    <2>2. CASE i = pos
      BY <1>0, <1>1, <2>2 DEF TypeOK
    <2>3. CASE i > pos
      BY <1>0, <1>1, <2>3 DEF TypeOK, FreshInv, NoResult
    <2> QED  BY <1>0, <2>1, <2>2, <2>3
  <1>2. CASE SkipIrreversible
    <2> DEFINE v == [NoResult EXCEPT !.present = TRUE, !.ok = TRUE, !.inner = TRUE]
    <2>1. v \in ResultType /\ ~v.dispatched
      BY DEF NoResult, ResultType
    <2>2. plan' = plan /\ pos \in Steps /\ results' = [results EXCEPT ![pos] = v]
          /\ pc' = "loop"
      BY <1>0, <1>2 DEF SkipIrreversible, AtStep
    <2> HIDE DEF v
    <2> QED  BY <1>1, <2>1, <2>2
  \* A dispatch from the loop is only made when nothing is degraded yet.
  <1>3. ASSUME Dispatchable
        PROVE  /\ pos \in Steps
               /\ plan[pos].irreversible => \A j \in 1..(pos - 1) : ~results[j].degraded
    BY <1>0, <1>3 DEF Dispatchable, AtStep, Step, ResultsDegraded
  <1>4. ASSUME NEW r \in Replies, OptionalStep(r)
        PROVE  GuardInv'
    <2>1. ResultOf(r) \in ResultType
      BY <1>4, FoldType, HappensType DEF OptionalStep
    <2>2. NoIrreversibleAfterDegraded'
      BY <1>1, <1>3, <1>4, <2>1 DEF OptionalStep
    <2> QED  BY <1>4, <2>2 DEF OptionalStep, Dispatchable, AtStep
  <1>5. ASSUME NEW reply \in Replies, MandatoryStep(reply)
        PROVE  GuardInv'
    <2>1. ResultOf(FoldInnerOk(reply)) \in ResultType /\ ResultOf(FoldInnerOk(reply)).dispatched
      BY <1>5, FoldType, HappensType DEF MandatoryStep, ResultOf
    <2>2. plan' = plan /\ pos \in Steps
          /\ results' = [results EXCEPT ![pos] = ResultOf(FoldInnerOk(reply))]
      BY <1>3, <1>5 DEF MandatoryStep
    <2>3. NoIrreversibleAfterDegraded'
      BY <1>1, <1>3, <1>5, <2>1, <2>2 DEF MandatoryStep
    <2>4. pc' \in {"retry", "ensure"} => pos' = pos
      BY <1>5 DEF MandatoryStep, FollowIntent, Return, Dispatchable, AtStep
    <2>5. results'[pos].dispatched
      BY <2>1, <2>2 DEF TypeOK
    <2> QED  BY <2>3, <2>4, <2>5
  <1>6. ASSUME NEW r \in Replies, RetryOnce(r)
        PROVE  GuardInv'
    <2>1. ResultOf(r) \in ResultType
      BY <1>6, FoldType, HappensType DEF RetryOnce
    <2>2. pc = "retry" /\ pos \in Steps /\ results[pos].dispatched
      BY <1>6 DEF RetryOnce, TypeOK
    <2>3. NoIrreversibleAfterDegraded'
      BY <1>1, <1>6, <2>1, <2>2 DEF RetryOnce
    <2> QED  BY <1>6, <2>3 DEF RetryOnce
  <1>7. CASE UNCHANGED <<plan, pos, results>>
             /\ (pc' \in {"retry", "ensure"} => pc \in {"retry", "ensure"})
    BY <1>7
  <1> QED
    BY <1>2, <1>4, <1>5, <1>6, <1>7
    DEF Next, CircuitBreak, CheckStepDeps, AcquireThenRetry, AcquireBlocked, GoalMet,
        GoalFailed, UndoLast, UndoFails, RollbackDone, DispatchRaises, CallRaises, InverseRaises, Return, vars,
        driverVars

\* No irreversible step is dispatched, or dispatched again, after an earlier
\* step came out degraded.
THEOREM IrreversibleGuarded == Spec => []NoIrreversibleAfterDegraded
  <1>1. Init => GuardInv
    BY DEF Init, GuardInv, NoIrreversibleAfterDegraded, NoResult
  <1>2. DriverInv => FreshInv
    BY DEF DriverInv, FreshInv
  <1>3. GuardInv => NoIrreversibleAfterDegraded
    BY DEF GuardInv
  <1> QED  BY <1>1, <1>2, <1>3, GuardStep, TypeCorrect, DriverInvariant, PTL DEF Spec

-----------------------------------------------------------------------------
(* Refinement: the driver's ledger and control implement the saga.         *)

\* The ledger that is left to undo.
Remaining == SubSeq(ledger, 1, Pending)

LEMMA RemainingSeq ==
  ASSUME TypeOK
  PROVE  /\ Remaining \in Seq(1..clock)
         /\ Len(Remaining) = Pending
         /\ \A i \in 1..Pending : Remaining[i] = ledger[i]
  BY LedgerRange DEF TypeOK, Remaining

\* Until it returns, the driver's saga phase is that of its control.
LEMMA PhaseRunning ==
  ASSUME verdict = Running
  PROVE  SagaPhase = IF RollingBack THEN "undoing" ELSE "running"
  BY DEF SagaPhase, Running

\* With nothing undone yet, what remains to undo is the whole ledger.
LEMMA AllRemaining ==
  ASSUME TypeOK, undone = << >>
  PROVE  Pending = Len(ledger) /\ Remaining = ledger
  BY LedgerRange DEF TypeOK, Pending, Remaining

\* The phases of the steps that leave ledger and undone alone.
LEMMA QuietStep ==
  ASSUME TypeOK, DriverInv, UNCHANGED <<ledger, undone>>, ~RollingBack, verdict = Running,
         \/ verdict' = Running
         \/ \E kind : kind # "none" /\ verdict' = [kind |-> kind, rollback |-> "none"]
  PROVE  S!Next \/ UNCHANGED S!sagaVars
  <1>1. Remaining' = Remaining
    BY DEF Remaining, Pending
  <1>2. SagaPhase = "running"
    BY PhaseRunning
  <1>3. SagaPhase' \in {"running", "undoing", "committed", "abandoned"}
    <2>1. CASE verdict' = Running
      BY <2>1 DEF SagaPhase, Running
    <2>2. CASE \E kind : kind # "none" /\ verdict' = [kind |-> kind, rollback |-> "none"]
      BY <2>2 DEF SagaPhase
    <2> QED  BY <2>1, <2>2
  <1> QED  BY <1>1, <1>2, <1>3
           DEF Remaining, S!Next, S!StartUndo, S!Commit, S!sagaVars

\* A dispatch of a mandatory step records at most one more effect.
LEMMA MandatoryRecords ==
  ASSUME TypeOK, TypeOK', DriverInv, NEW reply \in Replies, MandatoryStep(reply)
  PROVE  S!Next \/ UNCHANGED S!sagaVars
  <1> DEFINE r == FoldInnerOk(reply)
  <1>1. r.ok \in BOOLEAN /\ UpdateLedger(r) /\ FollowIntent(r) /\ undone' = undone
    BY FoldType DEF MandatoryStep, ReplyType
  <1>2. pc = "loop" /\ undone = << >> /\ verdict = Running
    BY DEF MandatoryStep, Dispatchable, AtStep, DriverInv
  <1> HIDE DEF r
  <1>3. CASE r.ok /\ r.inverse
    <2>1. verdict' = Running
      BY <1>1, <1>2, <1>3 DEF FollowIntent
    <2>2. ledger' = Append(ledger, clock + 1)
      BY <1>1, <1>3 DEF UpdateLedger
    <2>3. /\ Remaining = ledger
          /\ Remaining' = ledger'
      <3>1. Len(ledger) \in Nat /\ Len(ledger') \in Nat
            /\ ledger \in Seq(1..clock) /\ ledger' \in Seq(1..clock')
        BY DEF TypeOK
      <3> QED  BY <1>1, <1>2, <3>1 DEF Remaining, Pending
    <2>4. /\ Len(Remaining') = Len(Remaining) + 1
          /\ SubSeq(Remaining', 1, Len(Remaining)) = Remaining
      BY <2>2, <2>3 DEF TypeOK
    <2>5. SagaPhase = "running" /\ SagaPhase' \in {"running", "undoing"}
      BY <1>2, <2>1, PhaseRunning DEF RollingBack, SagaPhase, Running
    <2> QED  BY <2>4, <2>5 DEF Remaining, S!Next, S!Record
  <1>4. CASE ~(r.ok /\ r.inverse)
    <2>1. ledger' = ledger
      BY <1>1, <1>4 DEF UpdateLedger
    <2>2. verdict' = verdict \/ verdict' = [kind |-> "step-failed", rollback |-> "none"]
      BY <1>1 DEF FollowIntent, Return
    <2> QED  BY <1>1, <1>2, <2>1, <2>2, QuietStep DEF RollingBack
  <1> QED  BY <1>3, <1>4

\* Every step of the driver is a step of the saga, or leaves it as it is.
LEMMA SagaStep ==
  TypeOK /\ TypeOK' /\ DriverInv /\ [Next]_vars => [S!Next]_(S!sagaVars)
  <1> SUFFICES ASSUME TypeOK, TypeOK', DriverInv, [Next]_vars
               PROVE  S!Next \/ UNCHANGED S!sagaVars
    OBVIOUS
  <1>1. CASE CircuitBreak \/ CheckStepDeps \/ AcquireBlocked \/ GoalMet \/ CallRaises
             \/ \E b \in BOOLEAN : DispatchRaises(b)
    <2>1. pc \in {"loop", "retry", "ensure", "goal"}
      BY <1>1 DEF CircuitBreak, CheckStepDeps, AcquireBlocked, GoalMet, CallRaises,
         DispatchRaises, Dispatchable, AtStep, AtGoal
    <2>3. UNCHANGED <<ledger, undone>>
      BY <1>1 DEF CircuitBreak, CheckStepDeps, AcquireBlocked, GoalMet, CallRaises,
         DispatchRaises
    <2>2. \E kind : kind # "none" /\ verdict' = [kind |-> kind, rollback |-> "none"]
      BY <1>1 DEF CircuitBreak, CheckStepDeps, AcquireBlocked, GoalMet, CallRaises,
         DispatchRaises, Return
    <2> QED  BY <2>1, <2>2, <2>3, QuietStep DEF DriverInv, RollingBack
  <1>2. CASE SkipIrreversible \/ AcquireThenRetry \/ GoalFailed
             \/ \E r \in Replies : OptionalStep(r) \/ RetryOnce(r)
    <2>1. pc \in {"loop", "retry", "ensure", "goal"} /\ UNCHANGED <<ledger, undone, verdict>>
      BY <1>2 DEF SkipIrreversible, AcquireThenRetry, GoalFailed, OptionalStep, RetryOnce,
         Dispatchable, AtStep, AtGoal
    <2> QED  BY <2>1, QuietStep DEF DriverInv, RollingBack
  <1>3. CASE \E r \in Replies : MandatoryStep(r)
    BY <1>3, MandatoryRecords
  <1>4. ASSUME NEW how \in InverseReplies, UndoLast(how)
        PROVE  S!Next \/ UNCHANGED S!sagaVars
    <2>1. /\ RollingBack /\ Pending \in 1..Len(ledger) /\ pc' = pc
          /\ undone' = Append(undone, ledger[Pending])
          /\ UNCHANGED <<ledger, verdict>>
      BY <1>4, LedgerRange DEF UndoLast
    <2>2. Pending' = Pending - 1
      BY <2>1, LedgerRange DEF Pending, TypeOK
    <2>3. verdict = Running
      BY <2>1 DEF DriverInv, RollingBack
    <2>4. SagaPhase = "undoing" /\ SagaPhase' = "undoing"
      BY <2>1, <2>3 DEF SagaPhase, Running, RollingBack
    <2>5. Remaining # << >>
      BY <2>1, RemainingSeq
    <2>6. Remaining' = SubSeq(ledger, 1, Pending - 1)
      BY <2>1, <2>2 DEF Remaining
    <2>7. SubSeq(SubSeq(ledger, 1, Pending), 1, Pending - 1) = SubSeq(ledger, 1, Pending - 1)
      BY <2>1, LedgerRange DEF TypeOK
    <2>8. Remaining' = SubSeq(Remaining, 1, Len(Remaining) - 1)
      BY <2>6, <2>7, RemainingSeq DEF Remaining
    <2> QED  BY <2>4, <2>5, <2>8 DEF Remaining, S!Next, S!UndoLast
  <1>5. ASSUME NEW how \in InverseReplies, UndoFails(how) \/ InverseRaises(how)
        PROVE  S!Next \/ UNCHANGED S!sagaVars
    <2>1. RollingBack /\ Pending \in 1..Len(ledger) /\ UNCHANGED <<ledger, undone>>
      <3>1. CASE UndoFails(how)
        BY <3>1, LedgerRange DEF UndoFails
      <3>2. CASE InverseRaises(how)
        BY <3>2, LedgerRange DEF InverseRaises
      <3> QED  BY <1>5, <3>1, <3>2
    <2>2. \E kind \in {"failed", "goal-failed", "raised"} :
             verdict' = [kind |-> kind, rollback |-> "stuck"]
      <3>1. CASE UndoFails(how)
        BY <3>1 DEF UndoFails, Return, Why
      <3>2. CASE InverseRaises(how)
        BY <3>2 DEF InverseRaises, Return
      <3> QED  BY <1>5, <3>1, <3>2
    <2>3. SagaPhase = "undoing" /\ SagaPhase' = "stuck"
      <3>1. verdict = Running
        BY <2>1 DEF DriverInv, RollingBack
      <3>2. SagaPhase = "undoing"
        BY <2>1, <3>1, PhaseRunning
      <3>3. SagaPhase' = "stuck"
        BY <2>2 DEF SagaPhase
      <3> QED  BY <3>2, <3>3
    <2>4. Remaining # << >>
      BY <2>1, RemainingSeq, LedgerRange
    <2>5. Remaining' = Remaining
      BY <2>1 DEF Remaining, Pending
    <2> QED  BY <2>3, <2>4, <2>5 DEF Remaining, S!Next, S!GetStuck
  <1>6. CASE RollbackDone
    <2>1. RollingBack /\ Pending = 0 /\ UNCHANGED <<ledger, undone>>
          /\ verdict' = [kind |-> Why, rollback |-> "ok"]
      BY <1>6 DEF RollbackDone, Return
    <2>2. SagaPhase = "undoing" /\ SagaPhase' = "undone"
      BY <2>1, PhaseRunning DEF DriverInv, RollingBack, SagaPhase, Why
    <2>3. Remaining = << >>
      BY <2>1, RemainingSeq
    <2>4. Remaining' = Remaining
      BY <2>1 DEF Remaining, Pending
    <2> QED  BY <2>2, <2>3, <2>4 DEF Remaining, S!Next, S!FinishUndo
  <1>7. CASE UNCHANGED vars
    BY <1>7 DEF vars, driverVars, S!sagaVars, Pending, SagaPhase, RollingBack
  <1> QED  BY <1>1, <1>2, <1>3, <1>4, <1>5, <1>6, <1>7 DEF Next

\* The driver implements the saga.
THEOREM DriverImplementsSaga == Spec => ImplementsSaga
  <1>1. Init => S!Init
    <2> SUFFICES ASSUME Init PROVE S!Init
      OBVIOUS
    <2>1. Pending = 0 /\ ledger = << >>
      BY DEF Init, Pending
    <2>2. SagaPhase = "running"
      BY DEF Init, RollingBack, SagaPhase, Running
    <2> QED  BY <2>1, <2>2 DEF S!Init
  <1> QED  BY <1>1, SagaStep, TypeCorrect, DriverInvariant, PTL
           DEF Spec, ImplementsSaga, S!Spec

-----------------------------------------------------------------------------
(* Termination: what the driver still has to do.                           *)

\* How far the loop is from an end at the step it is at.
Rank == CASE pc = "loop"     -> 6
          [] pc = "ensure"   -> 4
          [] pc = "goal"     -> 4
          [] pc = "retry"    -> 3
          [] pc \in {"rollback", "goal-rollback"} -> 2
          [] pc = "returned" -> 0

\* The steps left, the rank, and the inverses a rollback would dispatch.
StepsLeft == 8 * (Len(plan) + 1 - pos) + Rank + Pending

LEMMA StepsLeftIsNat == TypeOK => /\ StepsLeft \in Nat
                                  /\ Rank \in 0..6
                                  /\ Pending \in Nat
                                  /\ Len(plan) + 1 - pos \in Nat
  <1> SUFFICES ASSUME TypeOK
               PROVE  /\ StepsLeft \in Nat /\ Rank \in 0..6 /\ Pending \in Nat
                      /\ Len(plan) + 1 - pos \in Nat
    OBVIOUS
  <1>1. Rank \in 0..6
    BY DEF TypeOK, Rank
  <1>2. Pending \in Nat
    BY LedgerRange
  <1>3. Len(plan) + 1 - pos \in Nat
    BY PlanType DEF TypeOK
  <1> QED  BY <1>1, <1>2, <1>3 DEF StepsLeft

\* The sum of a rest, a rank and a number of pending inverses, before and after.
LEMMA SumShrinks ==
  ASSUME NEW rest \in Nat, NEW after \in Nat, NEW rank \in 0..6, NEW rank1 \in 0..6,
         NEW pending \in Nat, NEW pending1 \in Nat, pending1 <= pending + 1,
         \/ after = rest - 1 /\ rank >= 3
         \/ after = rest /\ rank1 + 1 < rank
         \/ after = rest /\ rank1 < rank /\ pending1 = pending
         \/ after = rest /\ rank1 = rank /\ pending1 = pending - 1
  PROVE  8 * after + rank1 + pending1 < 8 * rest + rank + pending
  OBVIOUS

\* The three ways the driver gets on: to the next step, to a later phase of the
\* same step, or through one more inverse.
LEMMA MovesOn ==
  ASSUME TypeOK, TypeOK', plan' = plan,
         Pending' <= Pending + 1,
         \/ pos' = pos + 1 /\ pc \in {"loop", "retry"}
         \/ pos' = pos /\ Rank' + 1 < Rank
         \/ pos' = pos /\ Rank' < Rank /\ Pending' = Pending
         \/ pos' = pos /\ Rank' = Rank /\ Pending' = Pending - 1
  PROVE  StepsLeft' < StepsLeft
  <1>1. /\ Rank \in 0..6 /\ Pending \in Nat
        /\ Len(plan) + 1 - pos \in Nat
    BY StepsLeftIsNat
  <1>2. TypeOK' => (/\ Rank \in 0..6 /\ Pending \in Nat
                    /\ Len(plan) + 1 - pos \in Nat)'
    BY StepsLeftIsNat, PTL
  <1>3. /\ Rank' \in 0..6 /\ Pending' \in Nat
        /\ Len(plan') + 1 - pos' \in Nat
    BY <1>2
  <1>4. pos \in Nat /\ Len(plan) \in Nat
    BY PlanType DEF TypeOK
  <1>5. /\ StepsLeft = 8 * (Len(plan) + 1 - pos) + Rank + Pending
        /\ StepsLeft' = 8 * (Len(plan') + 1 - pos') + Rank' + Pending'
    BY DEF StepsLeft
  <1>6. pc \in {"loop", "retry"} => Rank >= 3
    BY DEF Rank
  <1>7. \/ Len(plan') + 1 - pos' = (Len(plan) + 1 - pos) - 1 /\ Rank >= 3
        \/ /\ Len(plan') + 1 - pos' = Len(plan) + 1 - pos
           /\ \/ Rank' + 1 < Rank
              \/ Rank' < Rank /\ Pending' = Pending
              \/ Rank' = Rank /\ Pending' = Pending - 1
    BY <1>4, <1>6
  <1> QED  BY <1>1, <1>3, <1>5, <1>7, SumShrinks

LEMMA ShrinkStep == TypeOK /\ TypeOK' /\ Next => StepsLeft' < StepsLeft
  <1> SUFFICES ASSUME TypeOK, TypeOK', Next
               PROVE  StepsLeft' < StepsLeft
    OBVIOUS
  <1>0. Len(ledger) \in Nat /\ Len(undone) \in Nat /\ Pending \in Nat
    BY LedgerRange
  \* Returning, from wherever the driver is.
  <1>1. ASSUME plan' = plan, pos' = pos, pc # "returned", pc' = "returned",
               UNCHANGED <<ledger, undone>>
        PROVE  StepsLeft' < StepsLeft
    <2>1. Rank \in {2, 3, 4, 6} /\ Rank' = 0
      BY <1>1 DEF Rank, TypeOK
    <2>2. Pending' = Pending
      BY <1>1 DEF Pending
    <2>3. Rank' + 1 < Rank /\ Pending' <= Pending + 1
      BY <1>0, <2>1, <2>2
    <2> QED  BY <1>1, <2>3, MovesOn
  <1>2. CASE CircuitBreak \/ CheckStepDeps \/ AcquireBlocked \/ GoalMet \/ RollbackDone \/ CallRaises
    <2>1. plan' = plan /\ pos' = pos /\ pc' = "returned" /\ UNCHANGED <<ledger, undone>>
      BY <1>2 DEF CircuitBreak, CheckStepDeps, AcquireBlocked, GoalMet, RollbackDone, CallRaises, Return
    <2>2. pc # "returned"
      BY <1>2 DEF CircuitBreak, CheckStepDeps, AcquireBlocked, GoalMet, RollbackDone, CallRaises,
         AtStep, AtGoal, RollingBack
    <2> QED  BY <1>1, <2>1, <2>2
  <1>3. ASSUME NEW how \in InverseReplies, UndoFails(how) \/ InverseRaises(how)
        PROVE  StepsLeft' < StepsLeft
    BY <1>1, <1>3 DEF UndoFails, InverseRaises, Return, RollingBack
  <1>4. ASSUME NEW b \in BOOLEAN, DispatchRaises(b)
        PROVE  StepsLeft' < StepsLeft
    BY <1>1, <1>4 DEF DispatchRaises, Return, Dispatchable, AtStep
  <1>5. CASE SkipIrreversible
    <2>1. plan' = plan /\ pos' = pos + 1 /\ pc = "loop" /\ Pending' = Pending
      BY <1>5 DEF SkipIrreversible, AtStep, Pending
    <2> QED  BY <1>0, <2>1, MovesOn
  <1>6. ASSUME NEW r \in Replies, OptionalStep(r)
        PROVE  StepsLeft' < StepsLeft
    <2>1. plan' = plan /\ pos' = pos + 1 /\ pc = "loop" /\ Pending' = Pending
      BY <1>6 DEF OptionalStep, Dispatchable, AtStep, Pending
    <2> QED  BY <1>0, <2>1, MovesOn
  <1>7. ASSUME NEW reply \in Replies, MandatoryStep(reply)
        PROVE  StepsLeft' < StepsLeft
    <2>0. PICK r : r = FoldInnerOk(reply)
      OBVIOUS
    <2>1. plan' = plan /\ pc = "loop" /\ undone' = undone /\ UpdateLedger(r) /\ FollowIntent(r)
      BY <1>7, <2>0 DEF MandatoryStep, Dispatchable, AtStep
    <2>2. Len(ledger') = Len(ledger) \/ Len(ledger') = Len(ledger) + 1
      BY <2>1 DEF UpdateLedger, TypeOK
    <2>3. Pending' <= Pending + 1
      BY <1>0, <2>1, <2>2 DEF Pending
    <2>4. \/ pos' = pos + 1
          \/ pos' = pos /\ pc' \in {"returned", "retry", "ensure", "rollback", "goal"}
      BY <2>1 DEF FollowIntent, Return
    <2>5. pc' \in {"returned", "retry", "ensure", "rollback", "goal"} => Rank' \in 0..4
      BY DEF Rank
    <2>6. Rank = 6
      BY <2>1 DEF Rank
    <2>7. CASE pos' = pos + 1
      BY <2>1, <2>3, <2>7, MovesOn
    <2>8. ASSUME pos' = pos, Rank' \in 0..4
          PROVE  StepsLeft' < StepsLeft
      <3>1. \A rank \in 0..4 : rank + 1 < 6
        OBVIOUS
      <3>2. Rank' + 1 < Rank
        BY <2>6, <2>8, <3>1
      <3> QED  BY <2>1, <2>3, <2>8, <3>2, MovesOn
    <2> QED  BY <2>4, <2>5, <2>7, <2>8
  <1>8. ASSUME NEW r \in Replies, RetryOnce(r)
        PROVE  StepsLeft' < StepsLeft
    <2>1. plan' = plan /\ pc = "retry" /\ Pending' = Pending
      BY <1>8 DEF RetryOnce, Pending
    <2>2. pos' = pos + 1 \/ (pos' = pos /\ pc' = "rollback")
      BY <1>8 DEF RetryOnce
    <2>3. Rank = 3 /\ (pc' = "rollback" => Rank' = 2)
      BY <2>1 DEF Rank
    <2> QED  BY <1>0, <2>1, <2>2, <2>3, MovesOn
  <1>9. CASE AcquireThenRetry
    <2>1. plan' = plan /\ pos' = pos /\ Pending' = Pending /\ pc = "ensure" /\ pc' = "retry"
      BY <1>9 DEF AcquireThenRetry, Pending
    <2>2. Rank = 4 /\ Rank' = 3
      BY <2>1 DEF Rank
    <2> QED  BY <1>0, <2>1, <2>2, MovesOn
  <1>10. CASE GoalFailed
    <2>1. plan' = plan /\ pos' = pos /\ Pending' = Pending /\ pc \in {"goal", "loop"}
          /\ pc' = "goal-rollback"
      BY <1>10 DEF GoalFailed, AtGoal, Pending
    <2>2. Rank \in {4, 6} /\ Rank' = 2
      BY <2>1 DEF Rank
    <2>3. Rank' + 1 < Rank /\ Pending' <= Pending + 1
      BY <1>0, <2>1, <2>2
    <2> QED  BY <2>1, <2>3, MovesOn
  <1>11. ASSUME NEW how \in InverseReplies, UndoLast(how)
         PROVE  StepsLeft' < StepsLeft
    <2>1. plan' = plan /\ pos' = pos /\ pc' = pc /\ ledger' = ledger
          /\ undone' = Append(undone, ledger[Pending]) /\ Pending > 0
      BY <1>11 DEF UndoLast
    <2>2. Len(undone') = Len(undone) + 1
      BY <2>1 DEF TypeOK
    <2>3. Pending' = Pending - 1
      BY <1>0, <2>1, <2>2 DEF Pending
    <2>4. Rank' = Rank
      BY <2>1 DEF Rank
    <2> QED  BY <1>0, <2>1, <2>3, <2>4, MovesOn
  <1> QED  BY <1>2, <1>3, <1>4, <1>5, <1>6, <1>7, <1>8, <1>9, <1>10, <1>11 DEF Next

\* The safety part of Terminates: every step of the driver lowers a natural
\* number, so that a flow of n steps makes at most 8 * n + 6 of them, whatever
\* the replies, retries, acquires and inverses are.
THEOREM EveryStepCounts ==
    Spec => /\ [](StepsLeft \in Nat)
            /\ [][StepsLeft' < StepsLeft]_vars
  <1>1. TypeOK => StepsLeft \in Nat
    BY StepsLeftIsNat
  <1>2. TypeOK /\ TypeOK' /\ [Next]_vars => [StepsLeft' < StepsLeft]_vars
    BY ShrinkStep
  <1> QED  BY <1>1, <1>2, TypeCorrect, PTL DEF Spec

-----------------------------------------------------------------------------
(* The ledger rebuilt from an execution.                                   *)

\* Induction over a set of naturals.
LEMMA SetInduction ==
  ASSUME NEW T \in SUBSET Nat, 0 \in T, \A n \in T : n + 1 \in T
  PROVE  T = Nat
  <1> SUFFICES ASSUME Nat \ T # {} PROVE FALSE
    OBVIOUS
  <1>1. PICK g \in Nat \ T : \A k \in Nat \ T : ~ (<<k, g>> \in OpToRel(<, Nat))
    BY NatLessThanWellFounded, WFMin
  <1>2. g # 0 /\ g - 1 \in Nat
    OBVIOUS
  <1>3. <<g - 1, g>> \in Nat \X Nat /\ <<g - 1, g>>[1] < <<g - 1, g>>[2]
    BY <1>2
  <1>4. <<g - 1, g>> \in OpToRel(<, Nat)
    BY <1>3 DEF OpToRel
  <1>5. g - 1 \in T
    BY <1>1, <1>2, <1>4
  <1> QED  BY <1>2, <1>5

\* g is the loop of ledger_from_execution over the first n entries.
Loop(g, n, entries, held) ==
    g = [k \in 0..n |->
            IF k = 0 THEN << >>
            ELSE IF Carries(entries[k], held)
                 THEN Append(g[k - 1], held[entries[k].id].mutation)
                 ELSE g[k - 1]]

\* One turn of the loop.
LEMMA LoopTurns ==
  ASSUME NEW g, NEW n \in Nat, NEW entries, NEW held, Loop(g, n, entries, held)
  PROVE  /\ g[0] = << >>
         /\ \A k \in 1..n :
              /\ Carries(entries[k], held) =>
                    g[k] = Append(g[k - 1], held[entries[k].id].mutation)
              /\ ~Carries(entries[k], held) => g[k] = g[k - 1]
  <1> DEFINE Turn(k) ==
                IF k = 0 THEN << >>
                ELSE IF Carries(entries[k], held)
                     THEN Append(g[k - 1], held[entries[k].id].mutation)
                     ELSE g[k - 1]
  <1>1. g = [k \in 0..n |-> Turn(k)]
    BY DEF Loop
  <1>2. \A k \in 0..n : g[k] = Turn(k)
    <2> HIDE DEF Turn
    <2> QED  BY <1>1, Zenon
  <1>3. 0 \in 0..n /\ Turn(0) = << >>
    OBVIOUS
  <1>4. ASSUME NEW k \in 1..n
        PROVE  /\ Carries(entries[k], held) =>
                     g[k] = Append(g[k - 1], held[entries[k].id].mutation)
               /\ ~Carries(entries[k], held) => g[k] = g[k - 1]
    <2>1. k \in 0..n /\ k # 0
      OBVIOUS
    <2>2. g[k] = Turn(k)
      BY <1>2, <2>1
    <2> QED  BY <2>1, <2>2
  <1> QED  BY <1>2, <1>3, <1>4

\* The recursion is well defined.
LEMMA LoopExists ==
  ASSUME NEW entries, NEW held
  PROVE  \A n \in Nat : \E g : Loop(g, n, entries, held)
  <1> DEFINE T == {n \in Nat : \E g : Loop(g, n, entries, held)}
  <1>1. 0 \in T
    <2> DEFINE g == [k \in 0..0 |-> << >>]
    <2>1. Loop(g, 0, entries, held)
      BY DEF Loop
    <2> QED  BY <2>1
  <1>2. ASSUME NEW n \in T PROVE n + 1 \in T
    <2>1. n \in Nat
      OBVIOUS
    <2>2. PICK g : Loop(g, n, entries, held)
      OBVIOUS
    <2> DEFINE next == IF Carries(entries[n + 1], held)
                       THEN Append(g[n], held[entries[n + 1].id].mutation)
                       ELSE g[n]
               h == [k \in 0..(n + 1) |-> IF k <= n THEN g[k] ELSE next]
    <2>3. h[n + 1] = next /\ \A k \in 0..n : h[k] = g[k]
      BY <2>1
    <2>4. \A k \in 0..(n + 1) :
             h[k] = IF k = 0 THEN << >>
                    ELSE IF Carries(entries[k], held)
                         THEN Append(h[k - 1], held[entries[k].id].mutation)
                         ELSE h[k - 1]
      <3> SUFFICES ASSUME NEW k \in 0..(n + 1)
                   PROVE h[k] = IF k = 0 THEN << >>
                                ELSE IF Carries(entries[k], held)
                                     THEN Append(h[k - 1], held[entries[k].id].mutation)
                                     ELSE h[k - 1]
        OBVIOUS
      <3> HIDE DEF h
      <3>1. CASE k = n + 1
        BY <2>1, <2>3, <3>1
      <3>2. CASE k \in 1..n
        <4>1. h[k - 1] = g[k - 1] /\ h[k] = g[k] /\ k # 0
          BY <2>1, <2>3, <3>2
        <4>2. /\ Carries(entries[k], held) =>
                    g[k] = Append(g[k - 1], held[entries[k].id].mutation)
              /\ ~Carries(entries[k], held) => g[k] = g[k - 1]
          BY <2>1, <2>2, <3>2, LoopTurns
        <4> QED  BY <4>1, <4>2
      <3>3. CASE k = 0
        BY <2>1, <2>2, <2>3, <3>3, LoopTurns
      <3> QED  BY <2>1, <3>1, <3>2, <3>3
    <2>5. Loop(h, n + 1, entries, held)
      BY <2>4 DEF Loop
    <2> QED  BY <2>1, <2>5
  <1>3. T = Nat
    <2> HIDE DEF T
    <2>1. T \in SUBSET Nat
      BY DEF T
    <2> QED  BY <1>1, <1>2, <2>1, SetInduction
  <1> QED  BY <1>3

\* Two loops that see the same entries agree.
LEMMA LoopsAgree ==
  ASSUME NEW n \in Nat, NEW N1 \in Nat, NEW N2 \in Nat, n <= N1, n <= N2,
         NEW g1, NEW tl1, NEW res1, NEW g2, NEW tl2, NEW res2,
         Loop(g1, N1, tl1, res1), Loop(g2, N2, tl2, res2),
         \A k \in 1..n : /\ Carries(tl1[k], res1) <=> Carries(tl2[k], res2)
                         /\ Carries(tl1[k], res1) =>
                              res1[tl1[k].id].mutation = res2[tl2[k].id].mutation
  PROVE  g1[n] = g2[n]
  <1> DEFINE T == {m \in Nat : m <= n => g1[m] = g2[m]}
  <1>1. 0 \in T
    BY LoopTurns
  <1>2. ASSUME NEW m \in T PROVE m + 1 \in T
    <2> SUFFICES ASSUME m + 1 <= n PROVE g1[m + 1] = g2[m + 1]
      OBVIOUS
    <2>1. m \in Nat /\ g1[m] = g2[m]
      OBVIOUS
    <2>2. m + 1 \in 1..n /\ m + 1 \in 1..N1 /\ m + 1 \in 1..N2 /\ (m + 1) - 1 = m
      BY <2>1
    <2>3. \/ /\ Carries(tl1[m + 1], res1) /\ Carries(tl2[m + 1], res2)
             /\ res1[tl1[m + 1].id].mutation = res2[tl2[m + 1].id].mutation
          \/ ~Carries(tl1[m + 1], res1) /\ ~Carries(tl2[m + 1], res2)
      BY <2>2
    <2>4. /\ Carries(tl1[m + 1], res1) =>
                g1[m + 1] = Append(g1[m], res1[tl1[m + 1].id].mutation)
          /\ ~Carries(tl1[m + 1], res1) => g1[m + 1] = g1[m]
      BY <2>2, LoopTurns
    <2>5. /\ Carries(tl2[m + 1], res2) =>
                g2[m + 1] = Append(g2[m], res2[tl2[m + 1].id].mutation)
          /\ ~Carries(tl2[m + 1], res2) => g2[m + 1] = g2[m]
      BY <2>2, LoopTurns
    <2> QED  BY <2>1, <2>3, <2>4, <2>5
  <1>3. T = Nat
    <2> HIDE DEF T
    <2>1. T \in SUBSET Nat
      BY DEF T
    <2> QED  BY <1>1, <1>2, <2>1, SetInduction
  <1> QED  BY <1>3

\* Rebuilt is where the loop ends.
LEMMA RebuiltIsLoop ==
  ASSUME NEW entries, NEW held, Len(entries) \in Nat
  PROVE  \E g : /\ Loop(g, Len(entries), entries, held)
                /\ Rebuilt(entries, held) = g[Len(entries)]
  <1> DEFINE f == CHOOSE g : Loop(g, Len(entries), entries, held)
  <1>1. Loop(f, Len(entries), entries, held)
    BY LoopExists
  <1>2. Rebuilt(entries, held) = f[Len(entries)]
    BY DEF Rebuilt, Loop
  <1> QED  BY <1>1, <1>2

\* Nothing is rebuilt from an empty timeline, and an entry added to it adds its
\* inverse at the end if it carries one; what else changed in the results does
\* not matter as long as the entries so far carry what they did.
LEMMA RebuiltAppends ==
  ASSUME NEW entries \in Seq(EntryType), NEW e \in EntryType, NEW held, NEW new,
         \A k \in 1..Len(entries) :
            /\ Carries(entries[k], held) <=> Carries(entries[k], new)
            /\ Carries(entries[k], held) =>
                 held[entries[k].id].mutation = new[entries[k].id].mutation
  PROVE  /\ Carries(e, new) =>
              Rebuilt(Append(entries, e), new)
                = Append(Rebuilt(entries, held), new[e.id].mutation)
         /\ ~Carries(e, new) => Rebuilt(Append(entries, e), new) = Rebuilt(entries, held)
  <1> DEFINE longer == Append(entries, e)
             n == Len(entries)
  <1>1. /\ n \in Nat
        /\ Len(longer) = n + 1
        /\ longer[n + 1] = e
        /\ \A k \in 1..n : longer[k] = entries[k]
    OBVIOUS
  <1> HIDE DEF longer, n
  <1>2. PICK g : Loop(g, n, entries, held) /\ Rebuilt(entries, held) = g[n]
    BY <1>1, RebuiltIsLoop DEF n
  <1>3. PICK h : Loop(h, n + 1, longer, new) /\ Rebuilt(longer, new) = h[n + 1]
    BY <1>1, RebuiltIsLoop
  <1>4. \A k \in 1..n : /\ Carries(entries[k], held) <=> Carries(longer[k], new)
                        /\ Carries(entries[k], held) =>
                             held[entries[k].id].mutation = new[longer[k].id].mutation
    BY <1>1 DEF n
  <1>5. g[n] = h[n]
    BY <1>1, <1>2, <1>3, <1>4, LoopsAgree
  <1>6. /\ Carries(longer[n + 1], new) =>
              h[n + 1] = Append(h[(n + 1) - 1], new[longer[n + 1].id].mutation)
        /\ ~Carries(longer[n + 1], new) => h[n + 1] = h[(n + 1) - 1]
    <2>1. n + 1 \in Nat /\ n + 1 \in 1..(n + 1)
      BY <1>1
    <2>2. \A k \in 1..(n + 1) :
             /\ Carries(longer[k], new) =>
                   h[k] = Append(h[k - 1], new[longer[k].id].mutation)
             /\ ~Carries(longer[k], new) => h[k] = h[k - 1]
      BY <1>3, <2>1, LoopTurns
    <2> QED  BY <2>1, <2>2
  <1>7. (n + 1) - 1 = n
    BY <1>1
  <1> QED  BY <1>1, <1>2, <1>3, <1>5, <1>6, <1>7 DEF longer

LEMMA RebuiltEmpty ==
  ASSUME NEW held
  PROVE  Rebuilt(<< >>, held) = << >>
  <1>1. Len(<< >>) = 0
    OBVIOUS
  <1>2. PICK g : Loop(g, 0, << >>, held) /\ Rebuilt(<< >>, held) = g[0]
    BY <1>1, RebuiltIsLoop
  <1> QED  BY <1>2, LoopTurns

\* The rebuilt ledger holds inverses of the entries that carry one, and of
\* every such entry.
LEMMA RebuiltCovers ==
  ASSUME NEW entries \in Seq(EntryType), NEW held, NEW Muts,
         \A k \in 1..Len(entries) :
            Carries(entries[k], held) => held[entries[k].id].mutation \in Muts
  PROVE  /\ Rebuilt(entries, held) \in Seq(Muts)
         /\ \A k \in 1..Len(entries) :
              Carries(entries[k], held) =>
                \E j \in 1..Len(Rebuilt(entries, held)) :
                   Rebuilt(entries, held)[j] = held[entries[k].id].mutation
  <1> DEFINE n == Len(entries)
             Held(k) == held[entries[k].id].mutation
  <1>0. n \in Nat
    OBVIOUS
  <1>1. PICK g : Loop(g, n, entries, held) /\ Rebuilt(entries, held) = g[n]
    BY <1>0, RebuiltIsLoop
  <1> DEFINE Good(m) ==
               /\ g[m] \in Seq(Muts)
               /\ \A k \in 1..m : Carries(entries[k], held) =>
                     \E j \in 1..Len(g[m]) : g[m][j] = Held(k)
             T == {m \in Nat : m <= n => Good(m)}
  <1> HIDE DEF n, Held
  <1>2. 0 \in T
    <2>1. g[0] = << >>
      BY <1>0, <1>1, LoopTurns
    <2>2. Good(0)
      BY <2>1
    <2> QED  BY <2>2
  <1>3. ASSUME NEW m \in T PROVE m + 1 \in T
    <2> SUFFICES ASSUME m + 1 <= n PROVE Good(m + 1)
      OBVIOUS
    <2>1. m \in Nat /\ Good(m)
      BY <1>0
    <2>2. m + 1 \in 1..n /\ (m + 1) - 1 = m
      BY <1>0, <2>1
    <2>3. /\ Carries(entries[m + 1], held) => g[m + 1] = Append(g[m], Held(m + 1))
          /\ ~Carries(entries[m + 1], held) => g[m + 1] = g[m]
      BY <1>0, <1>1, <2>2, LoopTurns DEF Held
    <2>4. CASE Carries(entries[m + 1], held)
      <3>1. Held(m + 1) \in Muts
        BY <2>2, <2>4 DEF Held, n
      <3>2. g[m + 1] = Append(g[m], Held(m + 1))
        BY <2>3, <2>4
      <3>3. /\ g[m + 1] \in Seq(Muts)
            /\ Len(g[m + 1]) = Len(g[m]) + 1
            /\ g[m + 1][Len(g[m]) + 1] = Held(m + 1)
            /\ \A j \in 1..Len(g[m]) : g[m + 1][j] = g[m][j]
        BY <2>1, <3>1, <3>2
      <3>4. ASSUME NEW k \in 1..(m + 1), Carries(entries[k], held)
            PROVE  \E j \in 1..Len(g[m + 1]) : g[m + 1][j] = Held(k)
        <4>1. CASE k = m + 1
          <5>1. Len(g[m]) + 1 \in 1..Len(g[m + 1])
            BY <2>1, <3>3
          <5> QED  BY <3>3, <4>1, <5>1
        <4>2. CASE k \in 1..m
          <5>1. PICK j \in 1..Len(g[m]) : g[m][j] = Held(k)
            BY <2>1, <3>4, <4>2
          <5>2. j \in 1..Len(g[m + 1]) /\ g[m + 1][j] = Held(k)
            BY <2>1, <3>3, <5>1
          <5> QED  BY <5>2
        <4> QED  BY <2>1, <4>1, <4>2
      <3> QED  BY <3>3, <3>4
    <2>5. CASE ~Carries(entries[m + 1], held)
      <3>1. g[m + 1] = g[m]
        BY <2>3, <2>5
      <3>2. \A k \in 1..(m + 1) : Carries(entries[k], held) => k \in 1..m
        BY <2>1, <2>5
      <3> QED  BY <2>1, <3>1, <3>2
    <2> QED  BY <2>4, <2>5
  <1>4. T = Nat
    <2> HIDE DEF T
    <2>1. T \in SUBSET Nat
      BY DEF T
    <2> QED  BY <1>2, <1>3, <2>1, SetInduction
  <1>5. Good(n)
    <2>1. n \in T /\ n <= n
      BY <1>0, <1>4
    <2> QED  BY <2>1
  <1> QED  BY <1>1, <1>5 DEF n, Held

-----------------------------------------------------------------------------
(* The inductive invariant of run_flow_document.                           *)

\* Where the results and the entries come from: an inverse stands for a
\* mutation made, a step's entry precedes the loop's position, and the ok
\* result of a mutation has an entry, the step's own ok one or a retry's.
RecordInv ==
    /\ \A i \in Steps : results[i].mutation \in 0..clock
    /\ \A k \in 1..Len(timeline) : timeline[k].tag = "step" =>
          /\ timeline[k].id \in Steps
          /\ timeline[k].id <= pos
          /\ pc = "loop" => timeline[k].id < pos
    /\ \A i \in Steps : results[i].ok /\ results[i].mutation # 0 =>
          \E k \in 1..Len(timeline) :
             /\ timeline[k].id = i
             /\ timeline[k].tag = "retry" \/ (timeline[k].tag = "step" /\ timeline[k].ok)

\* The two ledgers agree at every step, for the flows LedgersAgree is about.
RanOnce == /\ retriesUsed = 0
           /\ \A i \in Steps : plan[i].optional => results[i].mutation = 0
AgreeInv == RanOnce => Rebuilt(timeline, results) = ledger

\* Before a rollback, and once the driver is done, nothing reported was undone.
KeepInv == pc \in {"loop", "retry", "ensure", "goal"} \/ verdict.kind = "done" =>
              undone = << >> /\ reported \subseteq world

\* The document's own control: the driver is done when the verification says
\* ok, a compensation follows only a run that is not ok, and what it has passed
\* of the second ledger is undone.
StageInv ==
    /\ stage = "flow" => DriverInv /\ KeepInv /\ ~docOk /\ comp = << >>
    /\ stage # "end" => compensation = "none"
    /\ stage = "compensate" => ~docOk
    /\ stage # "flow" => comp = LedgerFromExecution
    /\ docOk => compensation = "none" /\ undone = << >> /\ reported \subseteq world
    /\ \A k \in 1..Len(comp) : k > left => comp[k] \notin world
    /\ compensation = "ok" => left = 0

\* What Log does to the timeline.
LEMMA LogAppends ==
  ASSUME TypeOK, NEW tag \in Tags, NEW ok \in BOOLEAN, Log(tag, ok)
  PROVE  /\ [id |-> pos, tag |-> tag, ok |-> ok] \in EntryType
         /\ timeline' = Append(timeline, [id |-> pos, tag |-> tag, ok |-> ok])
         /\ Len(timeline) \in Nat
         /\ Len(timeline') = Len(timeline) + 1
         /\ timeline'[Len(timeline) + 1] = [id |-> pos, tag |-> tag, ok |-> ok]
         /\ \A k \in 1..Len(timeline) : timeline'[k] = timeline[k]
  BY DEF TypeOK, Log, EntryType

\* An entry that stands for no result keeps RecordInv.
LEMMA NoteKeepsRecord ==
  ASSUME TypeOK, RecordInv, NEW tag \in Tags, NEW ok \in BOOLEAN, Log(tag, ok),
         plan' = plan, results' = results, clock' = clock, pos' = pos,
         pc' # "loop", tag = "step" => pos \in Steps
  PROVE  RecordInv'
  <1>1. /\ Len(timeline) \in Nat
        /\ Len(timeline') = Len(timeline) + 1
        /\ timeline'[Len(timeline) + 1] = [id |-> pos, tag |-> tag, ok |-> ok]
        /\ \A k \in 1..Len(timeline) : timeline'[k] = timeline[k]
    BY LogAppends
  <1>2. Steps' = Steps
    BY DEF Steps
  <1>3. \A k \in 1..Len(timeline') : timeline'[k].tag = "step" =>
           timeline'[k].id \in Steps /\ timeline'[k].id <= pos
    <2> SUFFICES ASSUME NEW k \in 1..Len(timeline'), timeline'[k].tag = "step"
                 PROVE  timeline'[k].id \in Steps /\ timeline'[k].id <= pos
      OBVIOUS
    <2>1. pos \in Nat
      BY DEF TypeOK
    <2>2. CASE k = Len(timeline) + 1
      BY <1>1, <2>1, <2>2
    <2>3. CASE k \in 1..Len(timeline)
      BY <1>1, <2>3 DEF RecordInv
    <2> QED  BY <1>1, <2>2, <2>3
  <1>4. ASSUME NEW i \in Steps, results[i].ok, results[i].mutation # 0
        PROVE  \E k \in 1..Len(timeline') :
                 /\ timeline'[k].id = i
                 /\ timeline'[k].tag = "retry" \/ (timeline'[k].tag = "step" /\ timeline'[k].ok)
    <2>1. PICK k \in 1..Len(timeline) :
                 /\ timeline[k].id = i
                 /\ timeline[k].tag = "retry" \/ (timeline[k].tag = "step" /\ timeline[k].ok)
      BY <1>4 DEF RecordInv
    <2>2. k \in 1..Len(timeline') /\ timeline'[k] = timeline[k]
      BY <1>1, <2>1
    <2> QED  BY <2>1, <2>2
  <1> QED  BY <1>2, <1>3, <1>4 DEF RecordInv

\* So does the result of the step at pos with its entry.
LEMMA ResultKeepsRecord ==
  ASSUME TypeOK, RecordInv, NEW tag \in {"step", "retry"}, NEW ok \in BOOLEAN, Log(tag, ok),
         plan' = plan, pos \in Steps,
         NEW v \in ResultType, results' = [results EXCEPT ![pos] = v],
         clock' \in Nat, clock <= clock', v.mutation \in 0..clock',
         v.ok => ok,
         \/ pos' = pos + 1
         \/ pos' = pos /\ pc' # "loop"
  PROVE  RecordInv'
  <1>1. /\ Len(timeline) \in Nat
        /\ Len(timeline') = Len(timeline) + 1
        /\ timeline'[Len(timeline) + 1] = [id |-> pos, tag |-> tag, ok |-> ok]
        /\ \A k \in 1..Len(timeline) : timeline'[k] = timeline[k]
    BY LogAppends DEF Tags
  <1>2. Steps' = Steps /\ pos \in Nat /\ clock \in Nat
    BY DEF Steps, TypeOK
  <1>3. /\ results'[pos] = v
        /\ \A i \in Steps : i # pos => results'[i] = results[i]
    BY DEF TypeOK
  <1>4. \A i \in Steps : results'[i].mutation \in 0..clock'
    BY <1>2, <1>3 DEF RecordInv
  <1>5. ASSUME NEW k \in 1..Len(timeline'), timeline'[k].tag = "step"
        PROVE  /\ timeline'[k].id \in Steps
               /\ timeline'[k].id <= pos'
               /\ pc' = "loop" => timeline'[k].id < pos'
    <2>1. CASE k = Len(timeline) + 1
      BY <1>1, <1>2, <2>1
    <2>2. CASE k \in 1..Len(timeline)
      <3>1. timeline[k].id \in Steps /\ timeline[k].id <= pos
        BY <1>1, <1>5, <2>2 DEF RecordInv
      <3>2. timeline[k].id \in Nat
        BY <3>1 DEF Steps
      <3> QED  BY <1>1, <1>2, <2>2, <3>1, <3>2
    <2> QED  BY <1>1, <2>1, <2>2
  <1>6. ASSUME NEW i \in Steps, results'[i].ok, results'[i].mutation # 0
        PROVE  \E k \in 1..Len(timeline') :
                 /\ timeline'[k].id = i
                 /\ timeline'[k].tag = "retry" \/ (timeline'[k].tag = "step" /\ timeline'[k].ok)
    <2>1. CASE i = pos
      <3>1. Len(timeline) + 1 \in 1..Len(timeline')
        BY <1>1
      <3>2. ok
        BY <1>3, <1>6, <2>1
      <3> QED  BY <1>1, <2>1, <3>1, <3>2
    <2>2. CASE i # pos
      <3>1. PICK k \in 1..Len(timeline) :
                   /\ timeline[k].id = i
                   /\ timeline[k].tag = "retry" \/ (timeline[k].tag = "step" /\ timeline[k].ok)
        BY <1>3, <1>6, <2>2 DEF RecordInv
      <3>2. k \in 1..Len(timeline') /\ timeline'[k] = timeline[k]
        BY <1>1, <3>1
      <3> QED  BY <3>1, <3>2
    <2> QED  BY <2>1, <2>2
  <1> QED  BY <1>2, <1>4, <1>5, <1>6 DEF RecordInv

\* A result is of a mutation made by then.
LEMMA ResultIsMade ==
  ASSUME TypeOK, NEW r \in ReplyType, r.inverse => r.effect, Happens(r)
  PROVE  /\ ResultOf(r) \in ResultType
         /\ ResultOf(r).ok = r.ok
         /\ ResultOf(r).mutation = IF r.inverse THEN clock + 1 ELSE 0
         /\ ResultOf(r).mutation \in 0..clock'
         /\ clock' \in Nat
         /\ clock <= clock'
  <1>1. clock' \in Nat /\ clock <= clock' /\ (r.inverse => clock' = clock + 1)
        /\ ResultOf(r) \in ResultType
    BY HappensType
  <1> QED  BY <1>1 DEF TypeOK, ResultOf, Mutation

LEMMA RecordStep ==
  TypeOK /\ RecordInv /\ [Next]_vars => RecordInv'
  <1> SUFFICES ASSUME TypeOK, RecordInv, [Next]_vars
               PROVE  RecordInv'
    OBVIOUS
  <1>0. Len(plan) \in Nat /\ pos \in 1..(Len(plan) + 1) /\ clock \in Nat
    BY PlanType DEF TypeOK
  \* The steps that touch neither the results nor the timeline.
  <1>1. ASSUME UNCHANGED <<plan, pos, results, timeline>>, pc' # "loop" \/ pc = "loop",
               clock' \in {clock, clock + 1}
        PROVE  RecordInv'
    BY <1>0, <1>1 DEF RecordInv, Steps
  <1>2. CASE CheckStepDeps
    <2>1. pos \in Steps
      BY <1>0, <1>2 DEF CheckStepDeps, AtStep, Steps
    <2>2. Log("step", FALSE) /\ pc' = "returned" /\ UNCHANGED <<plan, results, clock, pos>>
      BY <1>2 DEF CheckStepDeps, Return, worldVars
    <2> QED  BY <2>1, <2>2, NoteKeepsRecord DEF Tags
  <1>3. CASE SkipIrreversible
    <2> DEFINE v == [NoResult EXCEPT !.present = TRUE, !.ok = TRUE, !.inner = TRUE]
    <2>1. v \in ResultType /\ v.mutation = 0
      BY DEF NoResult, ResultType
    <2>2. pos \in Steps
      BY <1>0, <1>3 DEF SkipIrreversible, AtStep, Steps
    <2>3. Log("step", TRUE) /\ results' = [results EXCEPT ![pos] = v]
          /\ plan' = plan /\ clock' = clock /\ pos' = pos + 1
      BY <1>3 DEF SkipIrreversible, worldVars
    <2> HIDE DEF v
    <2>4. v.mutation \in 0..clock' /\ clock' \in Nat /\ clock <= clock'
      BY <1>0, <2>1, <2>3
    <2> QED  BY <2>1, <2>2, <2>3, <2>4, ResultKeepsRecord
  <1>4. ASSUME NEW r \in Replies, OptionalStep(r)
        PROVE  RecordInv'
    <2>1. r \in ReplyType /\ (r.inverse => r.effect) /\ Happens(r) /\ r.ok \in BOOLEAN
      BY <1>4, FoldType DEF OptionalStep, ReplyType
    <2>2. ResultOf(r) \in ResultType /\ ResultOf(r).ok = r.ok
          /\ ResultOf(r).mutation \in 0..clock' /\ clock' \in Nat /\ clock <= clock'
      BY <2>1, ResultIsMade
    <2>3. pos \in Steps /\ Log("step", r.ok) /\ results' = [results EXCEPT ![pos] = ResultOf(r)]
          /\ plan' = plan /\ pos' = pos + 1
      BY <1>0, <1>4 DEF OptionalStep, Dispatchable, AtStep, Steps
    <2> QED  BY <2>1, <2>2, <2>3, ResultKeepsRecord
  <1>5. ASSUME NEW reply \in Replies, MandatoryStep(reply)
        PROVE  RecordInv'
    <2>0. PICK r : r = FoldInnerOk(reply)
      OBVIOUS
    <2>1. r \in ReplyType /\ (r.inverse => r.effect) /\ Happens(r) /\ r.ok \in BOOLEAN
      BY <1>5, <2>0, FoldType DEF MandatoryStep, ReplyType
    <2>2. ResultOf(r) \in ResultType /\ ResultOf(r).ok = r.ok
          /\ ResultOf(r).mutation \in 0..clock' /\ clock' \in Nat /\ clock <= clock'
      BY <2>1, ResultIsMade
    <2>3. pos \in Steps /\ Log("step", r.ok) /\ results' = [results EXCEPT ![pos] = ResultOf(r)]
          /\ plan' = plan /\ FollowIntent(r)
      BY <1>0, <1>5, <2>0 DEF MandatoryStep, Dispatchable, AtStep, Steps
    <2>4. \/ pos' = pos + 1
          \/ pos' = pos /\ pc' # "loop"
      BY <2>3 DEF FollowIntent, Return
    <2> QED  BY <2>1, <2>2, <2>3, <2>4, ResultKeepsRecord
  <1>6. ASSUME NEW r \in Replies, RetryOnce(r)
        PROVE  RecordInv'
    <2>1. r \in ReplyType /\ (r.inverse => r.effect) /\ Happens(r) /\ r.ok \in BOOLEAN
      BY <1>6, FoldType DEF RetryOnce, ReplyType
    <2>2. ResultOf(r) \in ResultType /\ ResultOf(r).ok = r.ok
          /\ ResultOf(r).mutation \in 0..clock' /\ clock' \in Nat /\ clock <= clock'
      BY <2>1, ResultIsMade
    <2>3. pos \in Steps /\ Log("retry", r.ok) /\ results' = [results EXCEPT ![pos] = ResultOf(r)]
          /\ plan' = plan
      BY <1>6 DEF RetryOnce, TypeOK
    <2>4. \/ pos' = pos + 1
          \/ pos' = pos /\ pc' # "loop"
      BY <1>6 DEF RetryOnce
    <2> QED  BY <2>1, <2>2, <2>3, <2>4, ResultKeepsRecord
  <1>7. CASE AcquireBlocked
    <2>1. Log("blocked", FALSE) /\ pc' = "returned" /\ UNCHANGED <<plan, results, clock, pos>>
      BY <1>7 DEF AcquireBlocked, Return, worldVars
    <2> QED  BY <2>1, NoteKeepsRecord DEF Tags
  <1>8. ASSUME NEW how \in InverseReplies, UndoLast(how) \/ UndoFails(how)
        PROVE  RecordInv'
    <2>1. /\ Log("recovery", TRUE) \/ Log("recovery", FALSE)
          /\ pc' # "loop"
          /\ UNCHANGED <<plan, results, clock, pos>>
      BY <1>8 DEF UndoLast, UndoFails, RollingBack, Return
    <2> QED  BY <2>1, NoteKeepsRecord DEF Tags
  <1>9. CASE \/ CircuitBreak \/ AcquireThenRetry \/ GoalMet \/ GoalFailed \/ RollbackDone
             \/ CallRaises \/ UNCHANGED vars
    BY <1>1, <1>9 DEF CircuitBreak, AcquireThenRetry, GoalMet, GoalFailed, RollbackDone,
       CallRaises, Return, vars, driverVars, worldVars
  <1>10. ASSUME NEW b \in BOOLEAN, DispatchRaises(b)
         PROVE  RecordInv'
    BY <1>1, <1>10 DEF DispatchRaises, Return
  <1>11. ASSUME NEW how \in InverseReplies, InverseRaises(how)
         PROVE  RecordInv'
    BY <1>1, <1>11 DEF InverseRaises, Return
  <1> QED  BY <1>2, <1>3, <1>4, <1>5, <1>6, <1>7, <1>8, <1>9, <1>10, <1>11 DEF Next

\* An entry that carries nothing leaves the rebuilt ledger as it is.
LEMMA NoteKeepsRebuilt ==
  ASSUME TypeOK, NEW tag \in Tags, NEW ok \in BOOLEAN, Log(tag, ok), results' = results,
         tag = "step" => ~ok
  PROVE  Rebuilt(timeline', results') = Rebuilt(timeline, results)
  <1> DEFINE e == [id |-> pos, tag |-> tag, ok |-> ok]
  <1>1. timeline \in Seq(EntryType) /\ e \in EntryType /\ timeline' = Append(timeline, e)
    BY LogAppends DEF TypeOK
  <1>2. ~Carries(e, results)
    BY DEF Carries
  <1> HIDE DEF e
  <1> QED  BY <1>1, <1>2, RebuiltAppends

\* The result of a step of the loop adds its inverse to the rebuilt ledger when
\* the step is ok and reported one.
LEMMA StepRebuilds ==
  ASSUME TypeOK, RecordInv, pc = "loop", pos \in Steps,
         NEW ok \in BOOLEAN, Log("step", ok),
         NEW v \in ResultType, results' = [results EXCEPT ![pos] = v]
  PROVE  Rebuilt(timeline', results') =
            IF ok /\ v.mutation # 0 THEN Append(Rebuilt(timeline, results), v.mutation)
            ELSE Rebuilt(timeline, results)
  <1> DEFINE e == [id |-> pos, tag |-> "step", ok |-> ok]
  <1>1. timeline \in Seq(EntryType) /\ e \in EntryType /\ timeline' = Append(timeline, e)
    BY LogAppends DEF TypeOK, Tags
  <1>2. /\ results'[pos] = v
        /\ \A i \in Steps : i # pos => results'[i] = results[i]
    BY DEF TypeOK
  <1>3. Carries(e, results') <=> ok /\ v.mutation # 0
    BY <1>2 DEF Carries
  <1>4. e.id = pos
    OBVIOUS
  <1>5. ASSUME NEW k \in 1..Len(timeline)
        PROVE  /\ Carries(timeline[k], results) <=> Carries(timeline[k], results')
               /\ Carries(timeline[k], results) =>
                    results[timeline[k].id].mutation = results'[timeline[k].id].mutation
    <2>1. CASE timeline[k].tag = "step"
      <3>1. timeline[k].id \in Steps /\ timeline[k].id < pos
        BY <2>1 DEF RecordInv
      <3>2. timeline[k].id # pos
        BY <3>1 DEF Steps
      <3>3. results'[timeline[k].id] = results[timeline[k].id]
        BY <1>2, <3>1, <3>2
      <3> QED  BY <3>3 DEF Carries
    <2>2. CASE timeline[k].tag # "step"
      BY <2>2 DEF Carries
    <2> QED  BY <2>1, <2>2
  <1> HIDE DEF e
  <1>6. /\ Carries(e, results') =>
              Rebuilt(timeline', results')
                = Append(Rebuilt(timeline, results), results'[e.id].mutation)
        /\ ~Carries(e, results') =>
              Rebuilt(timeline', results') = Rebuilt(timeline, results)
    <2>1. PICK new : new = results'
      OBVIOUS
    <2>2. \A k \in 1..Len(timeline) :
             /\ Carries(timeline[k], results) <=> Carries(timeline[k], new)
             /\ Carries(timeline[k], results) =>
                  results[timeline[k].id].mutation = new[timeline[k].id].mutation
      BY <1>5, <2>1
    <2>3. /\ Carries(e, new) =>
                Rebuilt(Append(timeline, e), new)
                  = Append(Rebuilt(timeline, results), new[e.id].mutation)
          /\ ~Carries(e, new) =>
                Rebuilt(Append(timeline, e), new) = Rebuilt(timeline, results)
      BY <1>1, <2>2, RebuiltAppends
    <2> QED  BY <1>1, <2>1, <2>3
  <1>7. results'[e.id].mutation = v.mutation
    BY <1>2, <1>4
  <1>8. CASE ok /\ v.mutation # 0
    BY <1>3, <1>6, <1>7, <1>8
  <1>9. CASE ~(ok /\ v.mutation # 0)
    BY <1>3, <1>6, <1>9
  <1> QED  BY <1>8, <1>9

\* A flow that meets the condition after a step of the loop met it before.
LEMMA RanOnceBefore ==
  ASSUME TypeOK, FreshInv, pc = "loop", pos \in Steps, plan' = plan,
         retriesUsed' = retriesUsed,
         NEW v \in ResultType, results' = [results EXCEPT ![pos] = v],
         RanOnce'
  PROVE  RanOnce /\ (plan[pos].optional => v.mutation = 0)
  <1>1. /\ results'[pos] = v
        /\ \A i \in Steps : i # pos => results'[i] = results[i]
        /\ Steps' = Steps
    BY DEF TypeOK, Steps
  <1>2. results[pos].mutation = 0
    BY DEF FreshInv, NoResult
  <1>3. retriesUsed = 0 /\ \A i \in Steps : plan[i].optional => results'[i].mutation = 0
    BY <1>1 DEF RanOnce
  <1>4. plan[pos].optional => v.mutation = 0
    BY <1>1, <1>3
  <1>5. ASSUME NEW i \in Steps, plan[i].optional PROVE results[i].mutation = 0
    BY <1>1, <1>2, <1>3, <1>5
  <1> QED  BY <1>3, <1>4, <1>5 DEF RanOnce

LEMMA AgreeStep ==
  TypeOK /\ FreshInv /\ RecordInv /\ AgreeInv /\ [Next]_vars => AgreeInv'
  <1> SUFFICES ASSUME TypeOK, FreshInv, RecordInv, AgreeInv, [Next]_vars
               PROVE  AgreeInv'
    OBVIOUS
  <1>0. Len(plan) \in Nat /\ pos \in 1..(Len(plan) + 1)
    BY PlanType DEF TypeOK
  <1>1. ASSUME UNCHANGED <<plan, results, ledger, retriesUsed>>,
               Rebuilt(timeline', results') = Rebuilt(timeline, results)
        PROVE  AgreeInv'
    <2>1. RanOnce' => RanOnce
      BY <1>1 DEF RanOnce, Steps
    <2> QED  BY <1>1, <2>1 DEF AgreeInv
  <1>2. ASSUME UNCHANGED <<plan, results, ledger, retriesUsed, timeline>>
        PROVE  AgreeInv'
    BY <1>1, <1>2
  <1>3. CASE CheckStepDeps
    <2>1. Log("step", FALSE) /\ UNCHANGED <<plan, results, ledger, retriesUsed>>
      BY <1>3 DEF CheckStepDeps
    <2> QED  BY <1>1, <2>1, NoteKeepsRebuilt DEF Tags
  <1>4. CASE SkipIrreversible
    <2> DEFINE v == [NoResult EXCEPT !.present = TRUE, !.ok = TRUE, !.inner = TRUE]
    <2>1. v \in ResultType /\ v.mutation = 0
      BY DEF NoResult, ResultType
    <2>2. pos \in Steps
      BY <1>0, <1>4 DEF SkipIrreversible, AtStep, Steps
    <2>3. pc = "loop" /\ Log("step", TRUE) /\ results' = [results EXCEPT ![pos] = v]
          /\ UNCHANGED <<plan, ledger, retriesUsed>>
      BY <1>4 DEF SkipIrreversible, AtStep
    <2> HIDE DEF v
    <2>4. Rebuilt(timeline', results') = Rebuilt(timeline, results)
      BY <2>1, <2>2, <2>3, StepRebuilds
    <2>5. RanOnce' => RanOnce
      BY <2>1, <2>2, <2>3, RanOnceBefore
    <2> QED  BY <2>3, <2>4, <2>5 DEF AgreeInv
  <1>5. ASSUME NEW r \in Replies, OptionalStep(r)
        PROVE  AgreeInv'
    <2>1. r \in ReplyType /\ (r.inverse => r.effect) /\ Happens(r) /\ r.ok \in BOOLEAN
      BY <1>5, FoldType DEF OptionalStep, ReplyType
    <2>2. ResultOf(r) \in ResultType
      BY <2>1, ResultIsMade
    <2>3. pos \in Steps
      BY <1>0, <1>5 DEF OptionalStep, Dispatchable, AtStep, Steps
    <2>4. pc = "loop" /\ Log("step", r.ok) /\ results' = [results EXCEPT ![pos] = ResultOf(r)]
          /\ plan[pos].optional /\ UNCHANGED <<plan, ledger, retriesUsed>>
      BY <1>5 DEF OptionalStep, Dispatchable, AtStep, Step
    <2>5. RanOnce' => RanOnce /\ ResultOf(r).mutation = 0
      BY <2>2, <2>3, <2>4, RanOnceBefore
    <2>6. ResultOf(r).mutation = 0 => Rebuilt(timeline', results') = Rebuilt(timeline, results)
      BY <2>1, <2>2, <2>3, <2>4, StepRebuilds
    <2> QED  BY <2>4, <2>5, <2>6 DEF AgreeInv
  <1>6. ASSUME NEW reply \in Replies, MandatoryStep(reply)
        PROVE  AgreeInv'
    <2>0. PICK r : r = FoldInnerOk(reply)
      OBVIOUS
    <2>1. r \in ReplyType /\ (r.inverse => r.effect) /\ Happens(r) /\ r.ok \in BOOLEAN
      BY <1>6, <2>0, FoldType DEF MandatoryStep, ReplyType
    <2>2. ResultOf(r) \in ResultType /\ ResultOf(r).mutation = IF r.inverse THEN clock + 1 ELSE 0
      BY <2>1, ResultIsMade
    <2>3. pos \in Steps
      BY <1>0, <1>6 DEF MandatoryStep, Dispatchable, AtStep, Steps
    <2>4. pc = "loop" /\ Log("step", r.ok) /\ results' = [results EXCEPT ![pos] = ResultOf(r)]
          /\ UpdateLedger(r) /\ UNCHANGED <<plan, retriesUsed>>
      BY <1>6, <2>0 DEF MandatoryStep, Dispatchable, AtStep
    <2>5. RanOnce' => RanOnce
      BY <2>2, <2>3, <2>4, RanOnceBefore
    <2>6. Rebuilt(timeline', results') =
            IF r.ok /\ ResultOf(r).mutation # 0
            THEN Append(Rebuilt(timeline, results), ResultOf(r).mutation)
            ELSE Rebuilt(timeline, results)
      BY <2>1, <2>2, <2>3, <2>4, StepRebuilds
    <2>7. clock + 1 # 0
      BY DEF TypeOK
    <2>8. CASE r.ok /\ r.inverse
      <3>1. /\ Rebuilt(timeline', results') = Append(Rebuilt(timeline, results), clock + 1)
            /\ ledger' = Append(ledger, clock + 1)
        BY <2>2, <2>4, <2>6, <2>7, <2>8 DEF UpdateLedger
      <3> QED  BY <2>5, <3>1 DEF AgreeInv
    <2>9. CASE ~(r.ok /\ r.inverse)
      <3>1. /\ Rebuilt(timeline', results') = Rebuilt(timeline, results)
            /\ ledger' = ledger
        BY <2>2, <2>4, <2>6, <2>9 DEF UpdateLedger
      <3> QED  BY <2>5, <3>1 DEF AgreeInv
    <2> QED  BY <2>8, <2>9
  <1>7. ASSUME NEW r \in Replies, RetryOnce(r)
        PROVE  AgreeInv'
    BY <1>7 DEF RetryOnce, TypeOK, AgreeInv, RanOnce
  <1>8. CASE AcquireBlocked
    <2>1. Log("blocked", FALSE) /\ UNCHANGED <<plan, results, ledger, retriesUsed>>
      BY <1>8 DEF AcquireBlocked
    <2> QED  BY <1>1, <2>1, NoteKeepsRebuilt DEF Tags
  <1>9. ASSUME NEW how \in InverseReplies, UndoLast(how) \/ UndoFails(how)
        PROVE  AgreeInv'
    <2>1. /\ Log("recovery", TRUE) \/ Log("recovery", FALSE)
          /\ UNCHANGED <<plan, results, ledger, retriesUsed>>
      BY <1>9 DEF UndoLast, UndoFails
    <2> QED  BY <1>1, <2>1, NoteKeepsRebuilt DEF Tags
  <1>10. CASE \/ CircuitBreak \/ AcquireThenRetry \/ GoalMet \/ GoalFailed \/ RollbackDone
              \/ CallRaises \/ UNCHANGED vars
    BY <1>2, <1>10 DEF CircuitBreak, AcquireThenRetry, GoalMet, GoalFailed, RollbackDone,
       CallRaises, vars, driverVars
  <1>11. ASSUME NEW b \in BOOLEAN, DispatchRaises(b)
         PROVE  AgreeInv'
    BY <1>2, <1>11 DEF DispatchRaises
  <1>12. ASSUME NEW how \in InverseReplies, InverseRaises(how)
         PROVE  AgreeInv'
    BY <1>2, <1>12 DEF InverseRaises
  <1> QED  BY <1>3, <1>4, <1>5, <1>6, <1>7, <1>8, <1>9, <1>10, <1>11, <1>12 DEF Next

LEMMA KeepStep ==
  TypeOK /\ ControlInv /\ KeepInv /\ [Next]_vars => KeepInv'
  <1> SUFFICES ASSUME TypeOK, ControlInv, KeepInv, [Next]_vars
               PROVE  KeepInv'
    OBVIOUS
  <1> DEFINE Forward == {"loop", "retry", "ensure", "goal"}
  \* A dispatch before any rollback.
  <1>1. ASSUME pc \in Forward, NEW r \in ReplyType, r.inverse => r.effect, Happens(r),
               undone' = undone
        PROVE  KeepInv'
    <2>1. undone = << >> /\ reported \subseteq world
      BY <1>1 DEF KeepInv
    <2>2. reported' \subseteq world'
      BY <1>1, <2>1 DEF Happens
    <2> QED  BY <1>1, <2>1, <2>2 DEF KeepInv
  <1>2. ASSUME NEW r \in Replies, OptionalStep(r) \/ RetryOnce(r)
        PROVE  KeepInv'
    <2>1. r \in ReplyType /\ (r.inverse => r.effect) /\ Happens(r)
      BY <1>2, FoldType DEF OptionalStep, RetryOnce
    <2>2. pc \in Forward /\ undone' = undone
      BY <1>2 DEF OptionalStep, RetryOnce, Dispatchable, AtStep
    <2> QED  BY <1>1, <2>1, <2>2
  <1>3. ASSUME NEW reply \in Replies, MandatoryStep(reply)
        PROVE  KeepInv'
    <2>0. PICK r : r = FoldInnerOk(reply)
      OBVIOUS
    <2>1. r \in ReplyType /\ (r.inverse => r.effect) /\ Happens(r)
      BY <1>3, <2>0, FoldType DEF MandatoryStep
    <2>2. pc \in Forward /\ undone' = undone
      BY <1>3 DEF MandatoryStep, Dispatchable, AtStep
    <2> QED  BY <1>1, <2>1, <2>2
  \* The steps on which nothing is dispatched.
  <1>4. CASE \/ CircuitBreak \/ CheckStepDeps \/ SkipIrreversible \/ AcquireThenRetry
             \/ AcquireBlocked \/ GoalMet \/ GoalFailed
    <2>1. pc \in Forward
      BY <1>4 DEF CircuitBreak, CheckStepDeps, SkipIrreversible, AcquireThenRetry,
         AcquireBlocked, GoalMet, GoalFailed, AtStep, AtGoal
    <2>2. undone' = undone /\ reported' = reported /\ world' = world
      BY <1>4 DEF CircuitBreak, CheckStepDeps, SkipIrreversible, AcquireThenRetry,
         AcquireBlocked, GoalMet, GoalFailed, worldVars
    <2> QED  BY <2>1, <2>2 DEF KeepInv
  \* From the rollback on, the driver neither goes forward nor ends done.
  <1>5. ASSUME NEW how \in InverseReplies, UndoLast(how)
        PROVE  KeepInv'
    BY <1>5 DEF UndoLast, RollingBack, KeepInv, ControlInv, Running
  <1>6. CASE \/ RollbackDone \/ CallRaises
             \/ \E how \in InverseReplies : UndoFails(how) \/ InverseRaises(how)
             \/ \E b \in BOOLEAN : DispatchRaises(b)
    <2>1. CASE Return("raised", "none") \/ Return("raised", "stuck")
      BY <2>1 DEF Return, KeepInv
    <2>2. CASE Return(Why, "ok") \/ Return(Why, "stuck")
      BY <2>2 DEF Return, Why, KeepInv
    <2> QED
      BY <1>6, <2>1, <2>2 DEF RollbackDone, CallRaises, UndoFails, InverseRaises, DispatchRaises
  <1>7. CASE UNCHANGED vars
    BY <1>7 DEF vars, driverVars, worldVars, KeepInv
  <1> QED  BY <1>2, <1>3, <1>4, <1>5, <1>6, <1>7 DEF Next

\* What the driver's step relies on and keeps, whatever the document does.
DriverBase == TypeOK /\ RecordInv /\ AgreeInv

\* The driver's part of a step of the document.
LEMMA ExecuteKeeps ==
  ASSUME DriverBase, DriverInv, KeepInv, [Next]_vars
  PROVE  DriverBase' /\ DriverInv' /\ KeepInv' /\ clock <= clock'
  <1>1. ControlInv /\ FreshInv
    BY DriverInvParts
  <1>2. TypeOK' /\ RecordInv' /\ AgreeInv'
    BY <1>1, TypeStep, RecordStep, AgreeStep DEF DriverBase
  <1>3. KeepInv'
    BY <1>1, KeepStep DEF DriverBase
  <1>4. LedgerInOrder' /\ LedgerMatchesWorld' /\ ControlInv' /\ BudgetInv' /\ FreshInv'
    BY LedgerStep, BudgetStep, FreshStep, DriverInvParts DEF DriverBase
  <1>5. DriverInv'
    BY <1>4 DEF DriverInv, ControlInv, BudgetInv, FreshInv
  <1>6. clock <= clock'
    <2>1. clock' = clock \/ clock' = clock + 1
      BY DEF Next, CircuitBreak, CheckStepDeps, SkipIrreversible, OptionalStep, MandatoryStep,
         RetryOnce, AcquireThenRetry, AcquireBlocked, GoalMet, GoalFailed, UndoLast, UndoFails,
         RollbackDone, DispatchRaises, CallRaises, InverseRaises, Happens, vars, worldVars
    <2> QED  BY <2>1 DEF DriverBase, TypeOK
  <1> QED  BY <1>2, <1>3, <1>5, <1>6 DEF DriverBase

\* A world that only lost mutations keeps the driver's part.
LEMMA RevertKeeps ==
  ASSUME DriverBase, UNCHANGED <<driverVars, clock, reported>>, world' \subseteq world
  PROVE  DriverBase'
  BY DEF DriverBase, TypeOK, driverVars, RecordInv, AgreeInv, RanOnce, Steps

\* The types of what run_flow_document keeps beside the driver.
DocTyped == /\ stage \in Stages
            /\ requested \in BOOLEAN
            /\ scan \in BOOLEAN
            /\ docOk \in BOOLEAN
            /\ comp \in Seq(1..clock)
            /\ left \in 0..Len(comp)
            /\ compensation \in {"none", "ok", "stuck"}
            /\ twice \subseteq 1..clock

\* The inductive invariant.
DocInv == DriverBase /\ DocTyped /\ StageInv

\* The second ledger: mutations made, and one for every ok result of a mutation
\* whose step was not retried.
LEMMA SecondLedger ==
  ASSUME DriverBase
  PROVE  /\ LedgerFromExecution \in Seq(1..clock)
         /\ \A i \in Steps :
              /\ results[i].ok
              /\ results[i].mutation # 0
              /\ \A k \in 1..Len(timeline) : timeline[k].tag = "retry" => timeline[k].id # i
              => \E j \in 1..Len(LedgerFromExecution) :
                    LedgerFromExecution[j] = results[i].mutation
  <1>1. timeline \in Seq(EntryType) /\ clock \in Nat
    BY DEF DriverBase, TypeOK
  <1>2. ASSUME NEW k \in 1..Len(timeline), Carries(timeline[k], results)
        PROVE  results[timeline[k].id].mutation \in 1..clock
    <2>1. timeline[k].id \in Steps /\ results[timeline[k].id].mutation # 0
      BY <1>2 DEF Carries, DriverBase, RecordInv
    <2>2. results[timeline[k].id].mutation \in 0..clock
      BY <2>1 DEF DriverBase, RecordInv
    <2> QED  BY <1>1, <2>1, <2>2
  <1>3. /\ LedgerFromExecution \in Seq(1..clock)
        /\ \A k \in 1..Len(timeline) :
              Carries(timeline[k], results) =>
                \E j \in 1..Len(LedgerFromExecution) :
                   LedgerFromExecution[j] = results[timeline[k].id].mutation
    BY <1>1, <1>2, RebuiltCovers DEF LedgerFromExecution
  <1>4. ASSUME NEW i \in Steps, results[i].ok, results[i].mutation # 0,
               \A k \in 1..Len(timeline) : timeline[k].tag = "retry" => timeline[k].id # i
        PROVE  \E j \in 1..Len(LedgerFromExecution) :
                  LedgerFromExecution[j] = results[i].mutation
    <2>1. PICK k \in 1..Len(timeline) :
             /\ timeline[k].id = i
             /\ timeline[k].tag = "retry" \/ (timeline[k].tag = "step" /\ timeline[k].ok)
      BY <1>4 DEF DriverBase, RecordInv
    <2>2. Carries(timeline[k], results)
      BY <1>4, <2>1 DEF Carries
    <2> QED  BY <1>3, <2>1, <2>2
  <1> QED  BY <1>3, <1>4

LEMMA DocStep == DocInv /\ [DocNext]_allVars => DocInv'
  <1> SUFFICES ASSUME DocInv, [DocNext]_allVars
               PROVE  DocInv'
    OBVIOUS
  <1> USE DEF DocInv
  <1>0. clock \in Nat
    BY DEF DriverBase, TypeOK
  <1>1. CASE ExecuteFlow
    <2>1. stage = "flow" /\ Next /\ UNCHANGED docVars
      BY <1>1 DEF ExecuteFlow
    <2>2. DriverBase' /\ DriverInv' /\ KeepInv' /\ clock <= clock'
      BY <2>1, ExecuteKeeps DEF StageInv
    <2>3. clock' \in Nat
      BY <2>2 DEF DriverBase, TypeOK
    <2>4. comp' \in Seq(1..clock')
      BY <1>0, <2>1, <2>2, <2>3, SeqWidens DEF DocTyped, docVars
    <2>5. DocTyped'
      BY <1>0, <2>1, <2>2, <2>3, <2>4 DEF DocTyped, docVars
    <2>6. StageInv'
      BY <2>1, <2>2 DEF StageInv, docVars
    <2> QED  BY <2>2, <2>5, <2>6
  <1>2. ASSUME NEW passed \in BOOLEAN, VerifyFlow(passed)
        PROVE  DocInv'
    <2>1. /\ UNCHANGED vars
          /\ DriverBase' /\ clock' = clock
      BY <1>2 DEF VerifyFlow, vars, driverVars, worldVars, DriverBase, TypeOK, RecordInv, AgreeInv,
         RanOnce, Steps
    <2>2. DocTyped'
      BY <1>2, <2>1, SecondLedger DEF VerifyFlow, DocTyped, Stages
    <2>3. StageInv'
      <3>1. /\ stage = "flow" /\ compensation' = "none" /\ comp' = LedgerFromExecution
            /\ docOk' = (verdict.kind = "done" /\ passed)
            /\ left' = Len(comp')
            /\ (stage' = "compensate" /\ ~docOk') \/ stage' = "end"
        BY <1>2 DEF VerifyFlow, StageInv
      <3>2. LedgerFromExecution' = LedgerFromExecution
        BY <2>1 DEF LedgerFromExecution, vars, driverVars
      <3>3. docOk' => undone' = << >> /\ reported' \subseteq world'
        BY <2>1, <3>1 DEF StageInv, KeepInv, vars, driverVars, worldVars
      <3>4. Len(comp') \in Nat
        BY <2>2 DEF DocTyped
      <3>5. \A k \in 1..Len(comp') : ~(k > left')
        BY <3>1, <3>4
      <3> QED  BY <3>1, <3>2, <3>3, <3>5 DEF StageInv
    <2> QED  BY <2>1, <2>2, <2>3
  <1>3. ASSUME NEW how \in InverseReplies, CompensateLast(how)
        PROVE  DocInv'
    <2>1. /\ UNCHANGED <<driverVars, clock, reported, requested, scan, docOk, comp>>
          /\ world' = IF how \in {"undone", "lost"} THEN world \ {comp[left]} ELSE world
          /\ twice' \in {twice, twice \cup {comp[left]}}
          /\ stage = "compensate" /\ left > 0
      BY <1>3 DEF CompensateLast, Reverts
    <2>2. DriverBase'
      BY <2>1, RevertKeeps
    <2>3. comp[left] \in 1..clock /\ left \in Nat /\ left - 1 \in 0..Len(comp) /\ Len(comp) \in Nat
      <3>1. comp \in Seq(1..clock) /\ left \in 0..Len(comp)
        BY DEF DocTyped
      <3>2. Len(comp) \in Nat /\ left \in 1..Len(comp)
        BY <2>1, <3>1
      <3>3. \A k \in 1..Len(comp) : comp[k] \in 1..clock
        BY <1>0, <3>1
      <3>4. comp[left] \in 1..clock
        BY <3>2, <3>3
      <3> QED  BY <3>2, <3>4
    <2>4. LedgerFromExecution' = LedgerFromExecution
      BY <2>1 DEF LedgerFromExecution, driverVars
    <2>5. CASE how = "undone" /\ left' = left - 1 /\ UNCHANGED <<stage, compensation>>
      <3>1. DocTyped'
        BY <2>1, <2>3, <2>5 DEF DocTyped
      <3>2. \A k \in 1..Len(comp) : k > left - 1 => comp[k] \notin world'
        BY <2>1, <2>3, <2>5 DEF StageInv
      <3>3. StageInv'
        BY <2>1, <2>4, <2>5, <3>2 DEF StageInv
      <3> QED  BY <2>2, <3>1, <3>3
    <2>6. CASE stage' = "end" /\ compensation' = "stuck" /\ left' = left
      <3>1. DocTyped'
        BY <2>1, <2>3, <2>6 DEF DocTyped, Stages
      <3>2. StageInv'
        BY <2>1, <2>4, <2>6 DEF StageInv
      <3> QED  BY <2>2, <3>1, <3>2
    <2> QED  BY <1>3, <2>5, <2>6 DEF CompensateLast, Ends
  <1>4. CASE ScanRaises
    <2>1. DriverBase' /\ clock' = clock
      BY <1>4 DEF ScanRaises, vars, driverVars, worldVars, DriverBase, TypeOK, RecordInv, AgreeInv,
         RanOnce, Steps
    <2>2. DocTyped'
      <3>1. Len(comp) \in 0..Len(comp)
        BY DEF DocTyped
      <3> QED  BY <1>4, <2>1, <3>1 DEF ScanRaises, DocTyped
    <2>3. StageInv'
      <3>1. \A k \in 1..Len(comp) : ~(k > Len(comp))
        BY DEF DocTyped
      <3> QED  BY <1>4, <3>1 DEF ScanRaises, StageInv, LedgerFromExecution, vars, driverVars, worldVars
    <2> QED  BY <2>1, <2>2, <2>3
  <1>5. CASE CompensationDone
    <2>1. DriverBase' /\ clock' = clock
      BY <1>5 DEF CompensationDone, vars, driverVars, worldVars, DriverBase, TypeOK, RecordInv, AgreeInv,
         RanOnce, Steps
    <2>2. DocTyped'
      BY <1>5, <2>1 DEF CompensationDone, Ends, DocTyped, Stages
    <2>3. StageInv'
      BY <1>5 DEF CompensationDone, Ends, StageInv, LedgerFromExecution, vars, driverVars, worldVars
    <2> QED  BY <2>1, <2>2, <2>3
  <1>6. CASE UNCHANGED allVars
    <2>1. DriverBase' /\ clock' = clock
      BY <1>6 DEF allVars, vars, driverVars, worldVars, DriverBase, TypeOK, RecordInv, AgreeInv,
         RanOnce, Steps
    <2>2. DocTyped'
      BY <1>6, <2>1 DEF allVars, docVars, DocTyped
    <2>3. StageInv'
      BY <1>6 DEF allVars, docVars, vars, driverVars, worldVars, StageInv, LedgerFromExecution,
         DriverInv, LedgerInOrder, LedgerMatchesWorld, Pending, Steps, KeepInv
    <2> QED  BY <2>1, <2>2, <2>3
  <1> QED  BY <1>1, <1>2, <1>3, <1>4, <1>5, <1>6 DEF DocNext

\* The inductive invariant of run_flow_document holds in every reachable state.
THEOREM DocumentInvariant == DocSpec => []DocInv
  <1>1. DocInit => DocInv
    <2> SUFFICES ASSUME DocInit PROVE DocInv
      OBVIOUS
    <2>1. Init /\ stage = "flow" /\ comp = << >> /\ left = 0 /\ compensation = "none"
          /\ docOk = FALSE /\ twice = {} /\ requested \in BOOLEAN /\ scan \in BOOLEAN
      BY DEF DocInit
    <2>2. TypeOK /\ DriverInv
      BY <2>1, InitType, InitDriver
    <2>3. RecordInv
      BY <2>1, <2>2 DEF Init, RecordInv, NoResult
    <2>4. AgreeInv
      BY <2>1, RebuiltEmpty DEF Init, AgreeInv
    <2>5. KeepInv
      BY <2>1 DEF Init, KeepInv
    <2>6. DocTyped
      <3>1. comp \in Seq(1..clock) /\ left \in 0..Len(comp) /\ twice \subseteq 1..clock
        BY <2>1
      <3>2. docOk \in BOOLEAN
        BY <2>1
      <3>3. stage \in Stages /\ compensation \in {"none", "ok", "stuck"}
        BY <2>1 DEF Stages
      <3> QED  BY <2>1, <3>1, <3>2, <3>3 DEF DocTyped
    <2>7. StageInv
      BY <2>1, <2>2, <2>5 DEF StageInv
    <2> QED  BY <2>2, <2>3, <2>4, <2>6, <2>7 DEF DocInv, DriverBase
  <1> QED  BY <1>1, DocStep, PTL DEF DocSpec

-----------------------------------------------------------------------------
(* The properties of run_flow_document.                                    *)

\* Every variable of run_flow_document keeps its type: the second ledger only
\* ever lists mutations made, and the compensation stays inside it.
THEOREM DocTypeCorrect == DocSpec => []DocTypeOK
  <1>1. DocInv => DocTypeOK
    BY DEF DocInv, DriverBase, DocTyped, DocTypeOK
  <1> QED  BY <1>1, DocumentInvariant, PTL

\* A run that ends ok was neither rolled back nor compensated: every mutation
\* reported with an inverse is still in place.
THEOREM OkRunsKeepEverything == DocSpec => []OkRunKeepsEverything
  <1>1. DocInv => OkRunKeepsEverything
    BY DEF DocInv, StageInv, OkRunKeepsEverything
  <1> QED  BY <1>1, DocumentInvariant, PTL

\* The ledger of _thin_update_ledger and the one of ledger_from_execution are
\* the same list, for a flow without retries whose optional steps reported none.
THEOREM BothLedgersAgree == DocSpec => []LedgersAgree
  <1>1. DocInv => LedgersAgree
    BY DEF DocInv, DriverBase, StageInv, AgreeInv, RanOnce, LedgersAgree, LedgerFromExecution
  <1> QED  BY <1>1, DocumentInvariant, PTL

\* A compensation that answers ok has undone the mutation of every step that is
\* ok and ran once, optional steps included.
THEOREM CompensationIsClean == DocSpec => []CompensationCleans
  <1>1. DocInv => CompensationCleans
    <2> SUFFICES ASSUME DocInv, compensation = "ok",
                        NEW i \in Steps, results[i].mutation \in world, results[i].ok,
                        ~ \E k \in 1..Len(timeline) :
                             timeline[k].tag = "retry" /\ timeline[k].id = i
                 PROVE  FALSE
      BY DEF CompensationCleans
    <2>1. stage = "end" /\ left = 0 /\ comp = LedgerFromExecution /\ comp \in Seq(1..clock)
      BY DEF DocInv, StageInv, DocTyped, Stages
    <2>2. results[i].mutation # 0
      BY DEF DocInv, DriverBase, TypeOK
    <2>3. DriverBase
      BY DEF DocInv
    <2>4. PICK j \in 1..Len(comp) : comp[j] = results[i].mutation
      BY <2>1, <2>2, <2>3, SecondLedger
    <2>5. j > left
      BY <2>1
    <2> QED  BY <2>4, <2>5 DEF DocInv, StageInv
  <1> QED  BY <1>1, DocumentInvariant, PTL
=============================================================================
