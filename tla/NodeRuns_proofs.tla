--------------------------- MODULE NodeRuns_proofs ---------------------------
(***************************************************************************)
(* Proofs about NodeRuns, for any number of requests and cancels, any      *)
(* commands and any choice of names.                                       *)
(***************************************************************************)
EXTENDS NodeRuns, TLAPS

\* The steps that touch neither the registry nor who is active nor any id.
Elsewhere == UNCHANGED <<runs, pc, id>>

LEMMA NameType ==
  ASSUME NEW r \in Requests
  PROVE  NameOf[r] # Anonymous => NameOf[r] \in Names
  BY NameAssumption

LEMMA NextType ==
  ASSUME TypeOK, [Next]_vars
  PROVE  TypeOK'
  <1> USE DEF TypeOK, Goto, runVars, procVars
  <1>1. ASSUME NEW r \in Requests, Name(r) PROVE TypeOK'
    <2>0. (IF NameOf[r] = Anonymous THEN seq + 1 ELSE NameOf[r]) \in Ids
      <3>2. CASE NameOf[r] = Anonymous
        <4>1. seq + 1 \in Nat
          OBVIOUS
        <4> QED  BY <3>2, <4>1 DEF Ids
      <3>3. CASE NameOf[r] # Anonymous
        BY <3>3, NameType DEF Ids
      <3> QED  BY <3>2, <3>3
    <2>1. id' \in [Requests -> Ids]
      BY <1>1, <2>0 DEF Name
    <2> QED  BY <1>1, <2>1 DEF Name
  <1>2. ASSUME NEW r \in Requests, Enter(r) PROVE TypeOK'
    <2>1. /\ runs' = {e \in runs : e.key # id[r]} \cup {[key |-> id[r], run |-> r]}
          /\ id[r] \in Ids
      BY <1>2 DEF Enter
    <2>2. \A e \in runs' : \/ (e \in runs /\ e.key # id[r])
                           \/ (e.key = id[r] /\ e.run = r)
      <3> TAKE e \in runs'
      <3>1. CASE e \in runs /\ e.key # id[r]
        BY <3>1
      <3>2. CASE e = [key |-> id[r], run |-> r]
        BY <3>2
      <3> QED  BY <2>1, <3>1, <3>2
    <2>3. runs' \subseteq [key : Ids, run : Requests]
      BY <2>1
    <2>4. \A e, f \in runs' : e.key = f.key => e.run = f.run
      BY <2>2
    <2> QED  BY <1>2, <2>3, <2>4 DEF Enter
  <1>3. ASSUME NEW r \in Requests, Refuse(r) PROVE TypeOK'
    BY <1>3 DEF Refuse
  <1>4. ASSUME NEW r \in Requests, Spawn(r) PROVE TypeOK'
    <2>1. (CommandOf[r] = "forking") \in BOOLEAN
      OBVIOUS
    <2>2. orphan' \in [Requests -> BOOLEAN]
      BY <1>4, <2>1 DEF Spawn
    <2> QED  BY <1>4, <2>2 DEF Spawn
  <1>5. ASSUME NEW r \in Requests, Register(r) PROVE TypeOK'
    BY <1>5 DEF Register
  <1>6. ASSUME NEW r \in Requests, Progress(r) \/ Exit(r) \/ OrphanExits(r) \/ Timeout(r) PROVE TypeOK'
    <2>1. CASE Progress(r)
      BY <2>1 DEF Progress
    <2>2. CASE Exit(r)
      BY <2>2 DEF Exit
    <2>3. CASE OrphanExits(r)
      BY <2>3 DEF OrphanExits
    <2>4. CASE Timeout(r)
      BY <2>4 DEF Timeout
    <2> QED  BY <1>6, <2>1, <2>2, <2>3, <2>4
  <1>7. ASSUME NEW r \in Requests, End(r) PROVE TypeOK'
    BY <1>7 DEF End
  <1>8. ASSUME NEW r \in Requests, EndRaises(r) PROVE TypeOK'
    BY <1>8 DEF EndRaises
  <1>9. ASSUME NEW r \in Requests, Publish(r) PROVE TypeOK'
    BY <1>9 DEF Publish
  <1>10. ASSUME NEW r \in Requests, Leave(r) PROVE TypeOK'
    BY <1>10 DEF Leave
  <1>11. ASSUME NEW k \in Cancellers, NEW i, Lookup(k, i) PROVE TypeOK'
    <2>1. CASE cpc' = [cpc EXCEPT ![k] = "absent"]
      BY <1>11, <2>1 DEF Lookup
    <2>2. CASE cpc' # [cpc EXCEPT ![k] = "absent"]
      <3>1. PICK r \in Requests : ctrl' = [ctrl EXCEPT ![k] = r]
        BY <1>11, <2>2 DEF Lookup
      <3>2. ctrl' \in [Cancellers -> Requests \cup {NoRun}] /\ ctrl'[k] # NoRun
        BY <3>1, NoRunAssumption
      <3> QED  BY <1>11, <2>2, <3>1, <3>2 DEF Lookup
    <2> QED  BY <2>1, <2>2
  <1>12. ASSUME NEW k \in Cancellers, SetFlag(k) PROVE TypeOK'
    BY <1>12 DEF SetFlag
  <1>13. ASSUME NEW k \in Cancellers, Kill(k) PROVE TypeOK'
    BY <1>13 DEF Kill
  <1>14. CASE UNCHANGED vars
    BY <1>14 DEF vars
  <1> QED  BY <1>1, <1>2, <1>3, <1>4, <1>5, <1>6, <1>7, <1>8, <1>9, <1>10, <1>11, <1>12, <1>13,
             <1>14 DEF Next, Thread

\* Every variable keeps its type, and the registry stays a function.
THEOREM TypeCorrect == Spec => []TypeOK
  <1>1. Init => TypeOK
    BY DEF Init, TypeOK, Ids
  <1> QED  BY <1>1, NextType, PTL DEF Spec

-----------------------------------------------------------------------------

\* Cancels, timers and processes are elsewhere.
LEMMA ElsewhereSteps ==
  ASSUME [Next]_vars
  PROVE  Elsewhere \/ \E r \in Requests : Thread(r)
  <1>1. ASSUME NEW r \in Requests, Progress(r) \/ Exit(r) \/ OrphanExits(r) \/ Timeout(r)
        PROVE  Elsewhere
    BY <1>1 DEF Progress, Exit, OrphanExits, Timeout, runVars, Elsewhere
  <1>2. ASSUME NEW k \in Cancellers, NEW i, Lookup(k, i) \/ SetFlag(k) \/ Kill(k)
        PROVE  Elsewhere
    BY <1>2 DEF Lookup, SetFlag, Kill, runVars, Elsewhere
  <1>3. CASE UNCHANGED vars
    BY <1>3 DEF vars, runVars, Elsewhere
  <1> QED  BY <1>1, <1>2, <1>3 DEF Next

LEMMA NoStaleStep ==
  ASSUME TypeOK, NoStaleControl, [Next]_vars
  PROVE  NoStaleControl'
  <1> USE DEF NoStaleControl, Active, TypeOK, Goto
  <1>1. CASE Elsewhere
    BY <1>1 DEF Elsewhere
  <1>2. ASSUME NEW r \in Requests, Thread(r) PROVE NoStaleControl'
    <2>0. \A e \in runs : e.key \in Ids /\ e.run \in Requests
      OBVIOUS
    <2>1. CASE Name(r)
      <3>1. \A e \in runs : e.run # r
        BY <2>1 DEF Name
      <3> QED  BY <2>0, <2>1, <3>1 DEF Name
    <2>2. CASE Enter(r)
      BY <2>0, <2>2 DEF Enter
    <2>3. CASE Refuse(r) \/ Spawn(r) \/ Register(r) \/ End(r) \/ EndRaises(r) \/ Publish(r)
      <3>1. /\ UNCHANGED <<runs, id>>
            /\ \A q \in Requests : Active(q) => Active(q)'
        BY <2>3 DEF Refuse, Spawn, Register, End, EndRaises, Publish
      <3> QED  BY <2>0, <3>1
    <2>4. CASE Leave(r)
      <3>1. \A e \in runs' : e \in runs /\ e.key # id[r]
        BY <2>4 DEF Leave
      <3>2. \A e \in runs' : e.run # r
        BY <3>1
      <3> QED  BY <2>0, <2>4, <3>1, <3>2 DEF Leave
    <2> QED  BY <1>2, <2>1, <2>2, <2>3, <2>4 DEF Thread
  <1> QED  BY <1>1, <1>2, ElsewhereSteps

\* Whatever ids runs choose or share, the registry never holds a run that has
\* left it.
THEOREM RegistryHasNoStaleControl == Spec => []NoStaleControl
  <1>1. Init => NoStaleControl
    BY DEF Init, NoStaleControl
  <1> QED  BY <1>1, TypeCorrect, NoStaleStep, PTL DEF Spec

-----------------------------------------------------------------------------

LEMMA AddressableStep ==
  ASSUME TypeOK, Addressable, [Next]_vars
  PROVE  Addressable'
  <1> USE DEF Addressable, Active, Unshared, TypeOK, Goto
  <1>1. CASE Elsewhere
    BY <1>1 DEF Elsewhere
  <1>2. ASSUME NEW r \in Requests, Thread(r) PROVE Addressable'
    <2>1. CASE Name(r)
      <3>1. /\ UNCHANGED runs
            /\ \A q \in Requests : q # r => pc'[q] = pc[q] /\ id'[q] = id[q]
            /\ pc[r] = "new" /\ pc'[r] = "named"
        BY <2>1 DEF Name
      <3> QED  BY <3>1
    <2>2. CASE Enter(r)
      <3>1. /\ \A q \in Requests : q # r => pc'[q] = pc[q]
            /\ pc[r] = "named" /\ pc'[r] = "entered"
        BY <2>2 DEF Enter
      <3>2. [key |-> id[r], run |-> r] \in runs' /\ id' = id
        BY <2>2 DEF Enter
      <3>3. \A q \in Requests : q # r /\ Active(q) /\ Unshared(q) => [key |-> id[q], run |-> q] \in runs'
        BY <2>2, <3>1 DEF Enter
      <3>4. \A q \in Requests : Unshared(q)' => Unshared(q)
        BY <3>1, <3>2
      <3> QED  BY <3>1, <3>2, <3>3, <3>4
    <2>3. CASE Refuse(r) \/ Spawn(r) \/ Register(r) \/ End(r) \/ EndRaises(r) \/ Publish(r)
      <3>1. /\ UNCHANGED <<runs, id>>
            /\ \A q \in Requests : pc[q] # "new" => pc'[q] # "new"
            /\ \A q \in Requests : Active(q)' => Active(q)
        BY <2>3 DEF Refuse, Spawn, Register, End, EndRaises, Publish
      <3> QED  BY <3>1
    <2>4. CASE Leave(r)
      <3>1. /\ \A q \in Requests : q # r => pc'[q] = pc[q]
            /\ pc[r] = "published" /\ pc'[r] = "done"
        BY <2>4 DEF Leave
      <3>2. ~Active(r)' /\ id' = id
        BY <2>4 DEF Leave
      <3>3. \A q \in Requests : q # r /\ Active(q) /\ Unshared(q) => [key |-> id[q], run |-> q] \in runs'
        BY <2>4, <3>1 DEF Leave
      <3>4. \A q \in Requests : Unshared(q)' => Unshared(q)
        BY <3>1, <3>2
      <3> QED  BY <3>1, <3>2, <3>3, <3>4
    <2> QED  BY <1>2, <2>1, <2>2, <2>3, <2>4 DEF Thread
  <1> QED  BY <1>1, <1>2, ElsewhereSteps

\* A run in flight is in the registry under its id, unless another run has
\* taken the same id.
THEOREM UnsharedRunsAreAddressable == Spec => []Addressable
  <1>1. Init => Addressable
    BY DEF Init, Addressable, Active
  <1>2. TypeOK /\ Addressable /\ [Next]_vars => Addressable'
    BY AddressableStep
  <1> QED  BY <1>1, <1>2, TypeCorrect, PTL DEF Spec

-----------------------------------------------------------------------------
(* Cancels.                                                                *)

\* A canceller that is past the flag has set the one of the control it found;
\* nothing takes a flag back.
FlagInv == \A k \in Cancellers : cpc[k] \in {"set", "cancelled"} => cancel[ctrl[k]]

LEMMA FlagStep ==
  ASSUME TypeOK, FlagInv, [Next]_vars
  PROVE  FlagInv'
  <1> USE DEF FlagInv, TypeOK
  <1>1. ASSUME UNCHANGED <<cancel, ctrl, cpc>>
        PROVE  FlagInv'
    BY <1>1
  <1>2. ASSUME NEW r \in Requests, Thread(r) \/ Progress(r) \/ Exit(r) \/ OrphanExits(r) \/ Timeout(r)
        PROVE  FlagInv'
    BY <1>1, <1>2 DEF Thread, Name, Enter, Refuse, Spawn, Register, End, EndRaises, Publish,
       Leave, Progress, Exit, OrphanExits, Timeout
  <1>3. ASSUME NEW k \in Cancellers, NEW i, Lookup(k, i)
        PROVE  FlagInv'
    <2>1. cpc'[k] \in {"found", "absent"} /\ cancel' = cancel
      BY <1>3 DEF Lookup
    <2>2. \A j \in Cancellers : j # k => cpc'[j] = cpc[j] /\ ctrl'[j] = ctrl[j]
      <3>1. CASE UNCHANGED ctrl
        BY <1>3, <3>1 DEF Lookup
      <3>2. CASE ctrl' # ctrl
        <4>1. PICK r \in Requests : ctrl' = [ctrl EXCEPT ![k] = r]
          BY <1>3, <3>2 DEF Lookup
        <4>2. cpc' = [cpc EXCEPT ![k] = "found"]
          BY <1>3, <3>2 DEF Lookup
        <4> QED  BY <4>1, <4>2
      <3> QED  BY <3>1, <3>2
    <2>3. \A j \in Cancellers : cpc'[j] \in {"set", "cancelled"} => j # k
      BY <2>1
    <2> QED  BY <2>1, <2>2, <2>3
  <1>4. ASSUME NEW k \in Cancellers, SetFlag(k)
        PROVE  FlagInv'
    <2>1. ctrl[k] \in Requests
      BY <1>4 DEF SetFlag
    <2>2. ctrl' = ctrl /\ cancel'[ctrl[k]] /\ \A q \in Requests : cancel[q] => cancel'[q]
      BY <1>4, <2>1 DEF SetFlag
    <2>3. \A j \in Cancellers : j # k => cpc'[j] = cpc[j]
      BY <1>4 DEF SetFlag
    <2>4. \A j \in Cancellers : cpc[j] \in {"set", "cancelled"} => ctrl[j] \in Requests
      OBVIOUS
    <2> QED  BY <2>2, <2>3, <2>4
  <1>5. ASSUME NEW k \in Cancellers, Kill(k)
        PROVE  FlagInv'
    <2>1. cpc[k] = "set" /\ UNCHANGED <<cancel, ctrl>>
      BY <1>5 DEF Kill
    <2>2. \A j \in Cancellers : j # k => cpc'[j] = cpc[j]
      BY <1>5 DEF Kill
    <2> QED  BY <2>1, <2>2
  <1>6. CASE UNCHANGED vars
    BY <1>1, <1>6 DEF vars
  <1> QED  BY <1>2, <1>3, <1>4, <1>5, <1>6 DEF Next

\* A process is registered once its run reads from it, and is gone once it ends.
StageInv == \A r \in Requests :
    /\ pc[r] \in {"new", "named", "entered"} => proc[r] = "none"
    /\ pc[r] = "reading" => registered[r]
    /\ registered[r] => pc[r] = "reading" \/ Ended(r)
    /\ Ended(r) => proc[r] # "alive"

\* The answers keep what they knew; the second part is the property.
HeardInv == \A k \in Cancellers : heard[k] # "no" =>
    /\ heard[k] = "killed" => registered[ctrl[k]]
    /\ heard[k] = "late" => Ended(ctrl[k])
    /\ proc[ctrl[k]] = "alive" => heard[k] = "early"
    /\ heard[k] # "late" /\ Ended(ctrl[k]) => status[ctrl[k]] = "cancelled" \/ timedOut[ctrl[k]]

RunSteps(r) == Thread(r) \/ Progress(r) \/ Exit(r) \/ OrphanExits(r) \/ Timeout(r)

LEMMA StageStep ==
  ASSUME TypeOK, StageInv, [Next]_vars
  PROVE  StageInv'
  <1> USE DEF StageInv, Ended, TypeOK, Goto
  <1>1. ASSUME NEW r \in Requests, RunSteps(r)
        PROVE  StageInv'
    <2>1. CASE Name(r) \/ Enter(r) \/ Refuse(r)
      BY <2>1 DEF Name, Enter, Refuse, procVars
    <2>2. CASE Spawn(r)
      BY <2>2 DEF Spawn
    <2>3. CASE Register(r)
      BY <2>3 DEF Register, procVars
    <2>4. CASE End(r) \/ EndRaises(r)
      BY <2>4 DEF End, EndRaises, procVars
    <2>5. CASE Publish(r) \/ Leave(r)
      BY <2>5 DEF Publish, Leave, procVars
    <2>6. CASE Progress(r) \/ OrphanExits(r)
      BY <2>6 DEF Progress, OrphanExits, runVars, procVars
    <2>7. CASE Exit(r) \/ Timeout(r)
      <3>1. /\ UNCHANGED <<pc, registered>>
            /\ \A q \in Requests : q # r => proc'[q] = proc[q]
            /\ proc'[r] = "dead" /\ pc[r] \notin {"new", "named", "entered"}
        BY <2>7 DEF Exit, Timeout, runVars
      <3> QED  BY <3>1
    <2> QED  BY <1>1, <2>1, <2>2, <2>3, <2>4, <2>5, <2>6, <2>7 DEF RunSteps, Thread
  <1>2. ASSUME NEW k \in Cancellers, NEW i, Lookup(k, i) \/ SetFlag(k)
        PROVE  StageInv'
    BY <1>2 DEF Lookup, SetFlag, runVars, procVars
  <1>3. ASSUME NEW k \in Cancellers, Kill(k)
        PROVE  StageInv'
    <2>1. UNCHANGED <<pc, registered>>
      BY <1>3 DEF Kill, runVars
    <2>2. \A q \in Requests : proc'[q] = proc[q] \/ (registered[q] /\ proc'[q] = "dead")
      BY <1>3 DEF Kill
    <2> QED  BY <2>1, <2>2
  <1>4. CASE UNCHANGED vars
    BY <1>4 DEF vars, runVars, procVars
  <1> QED  BY <1>1, <1>2, <1>3, <1>4 DEF Next, RunSteps

\* A step of a run: what ended stays as it ended, what ends with the flag set is
\* cancelled or has raised, and no process that was registered starts anew.
LEMMA RunStep ==
  ASSUME TypeOK, StageInv, NEW r \in Requests, RunSteps(r), NEW q \in Requests
  PROVE  /\ Ended(q) => Ended(q)' /\ status'[q] = status[q]
         /\ timedOut[q] => timedOut'[q]
         /\ registered[q] => registered'[q]
         /\ proc'[q] = "alive" /\ (Ended(q) \/ registered[q]) => proc[q] = "alive"
         /\ ~Ended(q) /\ Ended(q)' /\ cancel[q] => status'[q] = "cancelled" \/ timedOut'[q]
  <1> USE DEF StageInv, Ended, TypeOK, Goto
  <1>1. CASE Name(r) \/ Enter(r)
    BY <1>1 DEF Name, Enter, procVars
  <1>2. CASE Refuse(r)
    BY <1>2 DEF Refuse, procVars
  <1>3. CASE Spawn(r)
    BY <1>3 DEF Spawn
  <1>4. CASE Register(r)
    BY <1>4 DEF Register, procVars
  <1>5. CASE End(r)
    BY <1>5 DEF End, procVars
  <1>6. CASE EndRaises(r)
    BY <1>6 DEF EndRaises, procVars
  <1>7. CASE Publish(r) \/ Leave(r)
    BY <1>7 DEF Publish, Leave, procVars
  <1>8. CASE Progress(r) \/ OrphanExits(r)
    BY <1>8 DEF Progress, OrphanExits, runVars, procVars
  <1>9. CASE Exit(r)
    BY <1>9 DEF Exit, runVars
  <1>10. CASE Timeout(r)
    BY <1>10 DEF Timeout, runVars
  <1> QED  BY <1>1, <1>2, <1>3, <1>4, <1>5, <1>6, <1>7, <1>8, <1>9, <1>10 DEF RunSteps, Thread

LEMMA HeardStep ==
  ASSUME TypeOK, FlagInv, StageInv, HeardInv, [Next]_vars
  PROVE  HeardInv'
  <1>0. \A k \in Cancellers : heard[k] # "no" => ctrl[k] \in Requests /\ cancel[ctrl[k]]
    BY DEF FlagInv, TypeOK
  <1>1. ASSUME NEW r \in Requests, RunSteps(r)
        PROVE  HeardInv'
    <2>1. UNCHANGED <<ctrl, heard>>
      BY <1>1 DEF RunSteps, Thread, Name, Enter, Refuse, Spawn, Register, End, EndRaises, Publish,
         Leave, Progress, Exit, OrphanExits, Timeout
    <2> SUFFICES ASSUME NEW k \in Cancellers, heard[k] # "no"
                 PROVE  /\ heard[k] = "killed" => registered'[ctrl[k]]
                        /\ heard[k] = "late" => Ended(ctrl[k])'
                        /\ proc'[ctrl[k]] = "alive" => heard[k] = "early"
                        /\ heard[k] # "late" /\ Ended(ctrl[k])' =>
                              status'[ctrl[k]] = "cancelled" \/ timedOut'[ctrl[k]]
      BY <2>1 DEF HeardInv, Ended
    <2>2. ctrl[k] \in Requests /\ cancel[ctrl[k]]
      BY <1>0
    <2>3. /\ Ended(ctrl[k]) => Ended(ctrl[k])' /\ status'[ctrl[k]] = status[ctrl[k]]
          /\ timedOut[ctrl[k]] => timedOut'[ctrl[k]]
          /\ registered[ctrl[k]] => registered'[ctrl[k]]
          /\ proc'[ctrl[k]] = "alive" /\ (Ended(ctrl[k]) \/ registered[ctrl[k]]) => proc[ctrl[k]] = "alive"
          /\ ~Ended(ctrl[k]) /\ Ended(ctrl[k])' /\ cancel[ctrl[k]] =>
                status'[ctrl[k]] = "cancelled" \/ timedOut'[ctrl[k]]
      <3>1. \A q \in Requests :
              /\ Ended(q) => Ended(q)' /\ status'[q] = status[q]
              /\ timedOut[q] => timedOut'[q]
              /\ registered[q] => registered'[q]
              /\ proc'[q] = "alive" /\ (Ended(q) \/ registered[q]) => proc[q] = "alive"
              /\ ~Ended(q) /\ Ended(q)' /\ cancel[q] => status'[q] = "cancelled" \/ timedOut'[q]
        BY <1>1, RunStep
      <3> QED  BY <2>1, <2>2, <3>1 DEF Ended
    <2>4. heard[k] \in {"early", "killed", "late"}
      BY DEF TypeOK
    <2> QED  BY <2>2, <2>3, <2>4 DEF HeardInv
  <1>2. ASSUME NEW k \in Cancellers, NEW i, Lookup(k, i) \/ SetFlag(k)
        PROVE  HeardInv'
    <2>1. /\ UNCHANGED <<pc, registered, status, proc, timedOut, heard>>
          /\ \A j \in Cancellers : j # k => ctrl'[j] = ctrl[j]
          /\ heard[k] = "no"
      BY <1>2 DEF Lookup, SetFlag, runVars, procVars, TypeOK
    <2> QED  BY <2>1 DEF HeardInv, Ended
  <1>3. ASSUME NEW k \in Cancellers, Kill(k)
        PROVE  HeardInv'
    <2>1. UNCHANGED <<pc, registered, status, timedOut, ctrl>>
      BY <1>3 DEF Kill, runVars
    <2>2. ctrl[k] \in Requests /\ heard[k] = "no"
      BY <1>3 DEF Kill, TypeOK
    <2>3. \A q \in Requests : proc'[q] = "alive" => proc[q] = "alive"
      BY <1>3 DEF Kill, TypeOK
    <2>4. registered[ctrl[k]] => proc'[ctrl[k]] = "dead"
      BY <1>3, <2>2 DEF Kill, TypeOK
    <2>5. /\ Ended(ctrl[k]) => heard'[k] = "late"
          /\ ~Ended(ctrl[k]) => heard'[k] = IF registered[ctrl[k]] THEN "killed" ELSE "early"
      BY <1>3 DEF Kill, TypeOK
    <2>6. \A j \in Cancellers : j # k => heard'[j] = heard[j]
      BY <1>3 DEF Kill
    <2>7. Ended(ctrl[k]) => proc'[ctrl[k]] # "alive"
      BY <2>2, <2>3 DEF StageInv
    <2>8. \A j \in Cancellers : heard[j] # "no" /\ proc'[ctrl[j]] = "alive" => proc[ctrl[j]] = "alive"
      BY <1>0, <2>3
    <2>9. \A j \in Cancellers : j # k => (heard'[j] # "no" =>
            /\ heard'[j] = "killed" => registered'[ctrl'[j]]
            /\ heard'[j] = "late" => Ended(ctrl[j])
            /\ proc'[ctrl'[j]] = "alive" => heard'[j] = "early"
            /\ heard'[j] # "late" /\ Ended(ctrl[j]) =>
                  status'[ctrl'[j]] = "cancelled" \/ timedOut'[ctrl'[j]])
      BY <2>1, <2>6, <2>8 DEF HeardInv
    <2>10. /\ heard'[k] = "killed" => registered'[ctrl'[k]]
           /\ heard'[k] = "late" => Ended(ctrl[k])
           /\ proc'[ctrl'[k]] = "alive" => heard'[k] = "early"
           /\ heard'[k] # "late" => ~Ended(ctrl[k])
      <3>1. CASE Ended(ctrl[k])
        BY <2>1, <2>5, <2>7, <3>1
      <3>2. CASE ~Ended(ctrl[k])
        BY <2>1, <2>4, <2>5, <3>2
      <3> QED  BY <3>1, <3>2
    <2> QED  BY <2>1, <2>9, <2>10 DEF HeardInv, Ended
  <1>4. CASE UNCHANGED vars
    BY <1>4 DEF vars, runVars, procVars, HeardInv, Ended
  <1> QED  BY <1>1, <1>2, <1>3, <1>4 DEF Next, RunSteps

\* The answer 200 of a cancel: the process may outlive it only if it was not
\* registered yet, and a run answered before it ended ends as cancelled unless
\* its timer has made it raise.
THEOREM CancelsTakeEffect == Spec => []CancelTakesEffect
  <1>1. Init => FlagInv /\ StageInv /\ HeardInv
    BY DEF Init, FlagInv, StageInv, HeardInv, Ended
  <1>2. TypeOK /\ FlagInv /\ [Next]_vars => FlagInv'
    BY FlagStep
  <1>3. TypeOK /\ StageInv /\ [Next]_vars => StageInv'
    BY StageStep
  <1>4. TypeOK /\ FlagInv /\ StageInv /\ HeardInv /\ [Next]_vars => HeardInv'
    BY HeardStep
  <1>5. HeardInv => CancelTakesEffect
    BY DEF HeardInv, CancelTakesEffect
  <1> QED  BY <1>1, <1>2, <1>3, <1>4, <1>5, TypeCorrect, PTL DEF Spec
=============================================================================
