------------------------- MODULE NodeDeploy_proofs -------------------------
(***************************************************************************)
(* Proofs about NodeDeploy, for every set of deploys, whatever they ask    *)
(* for, and any number of restarts.                                        *)
(***************************************************************************)
EXTENDS NodeDeploy, TLAPS

-----------------------------------------------------------------------------
(* Type correctness.                                                       *)

LEMMA BodyFields ==
  ASSUME TypeOK, NEW d \in Deploys
  PROVE  /\ body[d] \in BodyType
         /\ body[d].uris \subseteq Uris
         /\ body[d].allow \subseteq Uris
         /\ pc[d] \in {"new", "coded", "built", "swapped", "routed", "counted",
                       "bumped", "allowing", "applied", "opened", "written",
                       "loaded", "taken", "truncated", "saved", "answered", "refused", "dead"}
         /\ built[d] \in Registries
         /\ seen[d] \in Nat
         /\ kept[d] \in SUBSET Uris
         /\ says[d] \in SUBSET Files
  BY BodiesAssumption DEF TypeOK, BodyType

\* What a deploy builds has one binding per uri, and a merge serves at least
\* the uris served before.
LEMMA Merged ==
  ASSUME NEW r \in Registries, NEW us \in SUBSET Uris, NEW d \in Deploys,
         NEW n, n = [uri : us, by : {d}] \cup {b \in r : b.uri \notin us}
  PROVE  /\ n \in Registries
         /\ UrisOf(r) \subseteq UrisOf(n)
  <1>1. n \subseteq Bindings
    BY DEF Registries, Bindings, Origins
  <1>2. ASSUME NEW a \in n, NEW b \in n, a.uri = b.uri
        PROVE  a = b
    <2>1. CASE a.uri \in us
      <3>1. a \in [uri : us, by : {d}] /\ b \in [uri : us, by : {d}]
        BY <1>2, <2>1
      <3> QED  BY <3>1, <1>2
    <2>2. CASE a.uri \notin us
      <3>1. a \in r /\ b \in r
        BY <1>2, <2>2
      <3> QED  BY <3>1, <1>2 DEF Registries
    <2> QED  BY <2>1, <2>2
  <1>3. ASSUME NEW b \in r
        PROVE  \E a \in n : a.uri = b.uri
    <2>1. CASE b.uri \in us
      <3>1. [uri |-> b.uri, by |-> d] \in n
        BY <2>1
      <3> QED  BY <3>1
    <2>2. CASE b.uri \notin us
      BY <2>2
    <2> QED  BY <2>1, <2>2
  <1> QED  BY <1>1, <1>2, <1>3 DEF Registries, UrisOf

LEMMA Replaced ==
  ASSUME NEW us \in SUBSET Uris, NEW d \in Deploys
  PROVE  [uri : us, by : {d}] \in Registries
  <1>1. [uri : us, by : {d}] \subseteq Bindings
    BY DEF Bindings, Origins
  <1>2. ASSUME NEW a \in [uri : us, by : {d}], NEW b \in [uri : us, by : {d}],
               a.uri = b.uri
        PROVE  a = b
    BY <1>2
  <1> QED  BY <1>1, <1>2 DEF Registries

LEMMA NoBindings == {} \in Registries
  BY DEF Registries

LEMMA UrisOfType ==
  ASSUME NEW r \in Registries
  PROVE  UrisOf(r) \subseteq Uris
  BY DEF Registries, Bindings, UrisOf

LEMMA SurfaceType ==
  ASSUME TypeOK
  PROVE  Surface \in Registries \X Origins
  BY DEF TypeOK, Surface

\* Every reachable state is one of the types of the variables.
THEOREM TypeCorrect == Spec => []TypeOK
  <1>1. Init => TypeOK
    <2> SUFFICES ASSUME Init PROVE TypeOK
      OBVIOUS
    <2>1. \A us \in SUBSET Uris : [uri : us, by : {Start}] \in Registries
      <3> SUFFICES ASSUME NEW us \in SUBSET Uris
                   PROVE  [uri : us, by : {Start}] \in Registries
        OBVIOUS
      <3>1. [uri : us, by : {Start}] \subseteq Bindings
        BY DEF Bindings, Origins
      <3>2. ASSUME NEW a \in [uri : us, by : {Start}],
                   NEW b \in [uri : us, by : {Start}], a.uri = b.uri
            PROVE  a = b
        BY <3>2
      <3> QED  BY <3>1, <3>2 DEF Registries
    <2>2. registry \in Registries
      BY <2>1 DEF Init
    <2>3. UrisOf(registry) \subseteq Uris
      BY <2>2, UrisOfType
    <2>4. built \in [Deploys -> Registries]
      BY NoBindings DEF Init
    <2>5. since \in Registries \X Origins
      BY <2>2 DEF Init, Surface, Origins
    <2> QED  BY <2>2, <2>3, <2>4, <2>5 DEF Init, TypeOK, Origins
  <1>2. TypeOK /\ [Next]_vars => TypeOK'
    <2> SUFFICES ASSUME TypeOK, [Next]_vars PROVE TypeOK'
      OBVIOUS
    <2> USE DEF nodeVars, diskVars, deployVars, probeVars, historyVars, Goto
    <2>1. ASSUME NEW d \in Deploys, PushCode(d) PROVE TypeOK'
      BY <2>1 DEF PushCode, TypeOK, Origins, Excuses
    <2>2. ASSUME NEW d \in Deploys, Refuse(d) PROVE TypeOK'
      BY <2>2 DEF Refuse, TypeOK, Excuses
    <2>3. ASSUME NEW d \in Deploys, Build(d) PROVE TypeOK'
      <3>1. CASE body[d].merge
        <4>1. built'[d] \in Registries
          BY <2>3, <3>1, BodyFields, Merged DEF Build, TypeOK
        <4> QED  BY <2>3, <3>1, <4>1 DEF Build, TypeOK
      <3>2. CASE ~body[d].merge
        <4>1. [uri : body[d].uris, by : {d}] \in Registries
          BY BodyFields, Replaced
        <4> QED  BY <2>3, <3>2, <4>1 DEF Build, TypeOK
      <3> QED  BY <3>1, <3>2
    <2>4. ASSUME NEW d \in Deploys, SwapRegistry(d) PROVE TypeOK'
      BY <2>4, BodyFields DEF SwapRegistry, TypeOK, Files
    <2>5. ASSUME NEW d \in Deploys, SwapRoutes(d) PROVE TypeOK'
      BY <2>5, BodyFields, UrisOfType, NoBindings DEF SwapRoutes, TypeOK
    <2>6. ASSUME NEW d \in Deploys, ReadGeneration(d) PROVE TypeOK'
      BY <2>6 DEF ReadGeneration, TypeOK
    <2>7. ASSUME NEW d \in Deploys, WriteGeneration(d) PROVE TypeOK'
      BY <2>7, BodyFields DEF WriteGeneration, TypeOK, Excuses
    <2>8. ASSUME NEW d \in Deploys, ReadAllow(d) PROVE TypeOK'
      BY <2>8 DEF ReadAllow, TypeOK
    <2>9. ASSUME NEW d \in Deploys, WriteAllow(d) PROVE TypeOK'
      BY <2>9, BodyFields DEF WriteAllow, TypeOK, Files
    <2>10. ASSUME NEW d \in Deploys, OpenFile(d) PROVE TypeOK'
      <3>1. torn' \subseteq Files /\ shared' \subseteq Files /\ unsaved' \subseteq Files
        BY <2>10 DEF OpenFile, TypeOK, Files
      <3>2. built' \in [Deploys -> Registries]
        BY <2>10 DEF OpenFile, TypeOK
      <3>3. pc' \in [Deploys -> {"new", "coded", "built", "swapped", "routed", "counted",
                                 "bumped", "allowing", "applied", "opened", "written",
                                 "loaded", "taken", "truncated", "saved", "answered",
                                 "refused", "dead"}]
        BY <2>10 DEF OpenFile, TypeOK
      <3> QED  BY <2>10, <3>1, <3>2, <3>3 DEF OpenFile, TypeOK
    <2>11. ASSUME NEW d \in Deploys, WriteFile(d) PROVE TypeOK'
      <3>1. torn' \subseteq Files
        BY <2>11 DEF WriteFile, TypeOK, Files
      <3>4. says' \in [Deploys -> SUBSET Files]
        <4>1. CASE says' = says
          BY <4>1 DEF TypeOK
        <4>2. CASE says' = [says EXCEPT ![d] = {"registry"}]
          BY <4>2 DEF TypeOK, Files
        <4> QED  BY <2>11, <4>1, <4>2 DEF WriteFile
      <3>2. built' \in [Deploys -> Registries]
        BY <2>11, NoBindings DEF WriteFile, TypeOK
      <3>3. file' \in Registries
        BY <2>11, BodyFields DEF WriteFile, TypeOK
      <3> QED  BY <2>11, <3>1, <3>2, <3>3, <3>4 DEF WriteFile, TypeOK
    <2>12. ASSUME NEW d \in Deploys, LoadConfig(d) \/ TakeAllow(d) PROVE TypeOK'
      <3>1. CASE LoadConfig(d)
        BY <3>1 DEF LoadConfig, TypeOK
      <3>2. CASE TakeAllow(d)
        BY <3>2 DEF TakeAllow, TypeOK
      <3> QED  BY <2>12, <3>1, <3>2
    <2>22. ASSUME NEW d \in Deploys, OpenConfig(d) PROVE TypeOK'
      <3>1. torn' \subseteq Files /\ shared' \subseteq Files /\ unsaved' \subseteq Files
        BY <2>22 DEF OpenConfig, TypeOK, Files
      <3>3. pc' \in [Deploys -> {"new", "coded", "built", "swapped", "routed", "counted",
                                 "bumped", "allowing", "applied", "opened", "written",
                                 "loaded", "taken", "truncated", "saved", "answered",
                                 "refused", "dead"}]
        BY <2>22 DEF OpenConfig, TypeOK
      <3> QED  BY <2>22, <3>1, <3>3 DEF OpenConfig, TypeOK
    <2>23. ASSUME NEW d \in Deploys, WriteConfig(d) PROVE TypeOK'
      <3>1. torn' \subseteq Files
        BY <2>23 DEF WriteConfig, TypeOK, Files
      <3>2. says[d] \cup {"config"} \in SUBSET Files
        BY BodyFields DEF Files
      <3>4. says' \in [Deploys -> SUBSET Files]
        BY <2>23, <3>2 DEF WriteConfig, TypeOK
      <3>3. config' \subseteq Uris
        BY <2>23, BodyFields DEF WriteConfig, TypeOK
      <3> QED  BY <2>23, <3>1, <3>4, <3>3 DEF WriteConfig, TypeOK
    <2>13. ASSUME NEW d \in Deploys, Answer(d) PROVE TypeOK'
      BY <2>13 DEF Answer, TypeOK
    <2>14. ASSUME NEW u \in Uris \cup Manage, Validate(u) PROVE TypeOK'
      BY <2>14 DEF Validate, TypeOK
    <2>15. ASSUME NEW u \in Uris \cup Manage, Execute(u) PROVE TypeOK'
      BY <2>15, SurfaceType DEF Execute, TypeOK
    <2>16. ASSUME Snapshot PROVE TypeOK'
      BY <2>16 DEF Snapshot, TypeOK, Excuses
    <2>17. ASSUME SnapshotGeneration PROVE TypeOK'
      BY <2>17, SurfaceType DEF SnapshotGeneration, TypeOK
    <2>18. ASSUME Health PROVE TypeOK'
      BY <2>18 DEF Health, TypeOK
    <2>19. ASSUME Verdict PROVE TypeOK'
      BY <2>19 DEF Verdict, TypeOK, Excuses
    <2>20. ASSUME Restart PROVE TypeOK'
      <3>1. UrisOf(file) \subseteq Uris
        BY UrisOfType DEF TypeOK
      <3>2. pc' \in [Deploys -> {"new", "coded", "built", "swapped", "routed", "counted",
                                 "bumped", "allowing", "applied", "opened", "written",
                                 "loaded", "taken", "truncated", "saved", "answered", "refused", "dead"}]
        BY <2>20 DEF Restart, TypeOK
      <3>3. excuse' \subseteq Excuses /\ touched' \in BOOLEAN
        BY <2>20 DEF Restart, TypeOK, Excuses
      <3>4. restarts' \in Nat /\ generation' \in Nat
        BY <2>20 DEF Restart, TypeOK
      <3>5. /\ registry' \in Registries /\ routes' \subseteq Uris /\ allow' \subseteq Uris
            /\ run' \subseteq Uris \cup Manage /\ overlapped' \in BOOLEAN
            /\ unsaved' \subseteq Files
        BY <2>20, <3>1 DEF Restart, TypeOK
      <3>6. /\ built' \in [Deploys -> Registries]
            /\ seen' \in [Deploys -> Nat]
            /\ kept' \in [Deploys -> SUBSET Uris]
            /\ says' \in [Deploys -> SUBSET Files]
        BY <2>20, NoBindings DEF Restart
      <3>7. UNCHANGED <<code, file, torn, shared, config, body, ppc, etag, gen, todo,
                        churn, same, verdict, ranOn, since>>
        BY <2>20 DEF Restart
      <3> QED  BY <3>2, <3>3, <3>4, <3>5, <3>6, <3>7 DEF TypeOK
    <2>21. CASE UNCHANGED vars
      BY <2>21 DEF vars, TypeOK
    <2> QED  BY <2>1, <2>2, <2>3, <2>4, <2>5, <2>6, <2>7, <2>8, <2>9, <2>10, <2>11,
                <2>12, <2>13, <2>14, <2>15, <2>16, <2>17, <2>18, <2>19, <2>20, <2>21,
                <2>22, <2>23 DEF Next, DeployStep
  <1> QED  BY <1>1, <1>2, PTL DEF Spec

-----------------------------------------------------------------------------
(* Deploys that do not overlap.  While no two have, at most one thread is  *)
(* inside apply_deploy; what it has read is still so, and what is saved is *)
(* what is served.                                                         *)

Alone == \A d, e \in Deploys : Active(d) /\ Active(e) => d = e
RoutesFollow ==
    /\ \A d \in Deploys : pc[d] = "swapped" => registry = built[d]
    /\ (\A d \in Deploys : pc[d] # "swapped") => routes = UrisOf(registry)
ReadsHold ==
    \A d \in Deploys :
        /\ pc[d] = "built" /\ body[d].merge => UrisOf(registry) \subseteq UrisOf(built[d])
        /\ pc[d] = "allowing" /\ body[d].merge => kept[d] = allow
SavedHolds ==
    /\ "registry" \notin unsaved => "registry" \notin torn /\ file = registry
    /\ "config" \notin unsaved => "config" \notin torn /\ config = allow
    /\ \A d \in Deploys : pc[d] \in {"new", "coded", "built", "swapped", "routed", "counted",
                                    "bumped", "allowing", "applied", "opened"} => says[d] = {}
    /\ \A d \in Deploys : Active(d) =>
          /\ "registry" \in says[d] => "registry" \notin torn /\ file = registry
          /\ "config" \in says[d] => pc[d] = "saved" /\ "config" \notin torn /\ config = allow
          /\ pc[d] = "opened" =>
                built[d] = registry /\ "registry" \notin shared /\ "registry" \in unsaved
          /\ pc[d] \in {"taken", "truncated"} => kept[d] = allow
          /\ pc[d] = "truncated" => "config" \notin shared /\ "config" \in unsaved
Orderly == ~overlapped => Alone /\ RoutesFollow /\ ReadsHold /\ SavedHolds

LEMMA OrderlyInit == Init => Orderly
  BY DEF Init, Orderly, Alone, RoutesFollow, ReadsHold, SavedHolds, Active

LEMMA OrderlyStep == TypeOK /\ Orderly /\ [Next]_vars => Orderly'
  <1> SUFFICES ASSUME TypeOK, Orderly, [Next]_vars, ~overlapped'
               PROVE  (Alone /\ RoutesFollow /\ ReadsHold /\ SavedHolds)'
    BY DEF Orderly
  <1> USE DEF nodeVars, diskVars, deployVars, probeVars, historyVars, Goto
  <1> DEFINE Good == Alone /\ RoutesFollow /\ ReadsHold /\ SavedHolds
  <1>1. ASSUME NEW d \in Deploys, PushCode(d) PROVE Good'
    <2>1. ~overlapped /\ Idle
      BY <1>1 DEF PushCode
    <2>2. \A e \in Deploys : ~Active(e)
      BY <2>1 DEF Idle
    <2> QED  BY <1>1, <2>1, <2>2
             DEF PushCode, TypeOK, Orderly, Alone, RoutesFollow, ReadsHold, SavedHolds, Active
  <1>2. ASSUME NEW d \in Deploys, Refuse(d) PROVE Good'
    <2>1. ~overlapped
      BY <1>2 DEF Refuse
    <2> QED  BY <1>2, <2>1
             DEF Refuse, TypeOK, Orderly, Alone, RoutesFollow, ReadsHold, SavedHolds, Active
  <1>3. ASSUME NEW d \in Deploys, Build(d) PROVE Good'
    <2>1. ~overlapped
      BY <1>3 DEF Build
    <2>2. body[d].merge => UrisOf(registry) \subseteq UrisOf(built'[d])
      <3> SUFFICES ASSUME body[d].merge
                   PROVE  UrisOf(registry) \subseteq UrisOf(built'[d])
        OBVIOUS
      <3>1. built'[d] = [uri : body[d].uris, by : {d}]
                        \cup {b \in registry : b.uri \notin body[d].uris}
        BY <1>3 DEF Build, TypeOK
      <3>2. registry \in Registries /\ body[d].uris \in SUBSET Uris
        BY BodyFields DEF TypeOK
      <3> QED  BY <3>1, <3>2, Merged
    <2>3. (Alone /\ SavedHolds)'
      BY <1>3, <2>1 DEF Build, TypeOK, Orderly, Alone, SavedHolds, Active
    <2>4. RoutesFollow'
      BY <1>3, <2>1 DEF Build, TypeOK, Orderly, Alone, RoutesFollow, Active
    <2>5. \A e \in Deploys : e # d => ~Active(e)
      BY <1>3, <2>1 DEF Build, Orderly, Alone, Active
    <2>6. ReadsHold'
      BY <1>3, <2>2, <2>5 DEF Build, TypeOK, ReadsHold, Active
    <2> QED  BY <2>3, <2>4, <2>6
  <1>4. ASSUME NEW d \in Deploys, SwapRegistry(d) PROVE Good'
    <2>1. ~overlapped
      BY <1>4 DEF SwapRegistry
    <2> QED  BY <1>4, <2>1
             DEF SwapRegistry, TypeOK, Orderly, Alone, RoutesFollow, ReadsHold, SavedHolds, Active
  <1>5. ASSUME NEW d \in Deploys, SwapRoutes(d) PROVE Good'
    <2>1. ~overlapped
      BY <1>5 DEF SwapRoutes
    <2> QED  BY <1>5, <2>1
             DEF SwapRoutes, TypeOK, Orderly, Alone, RoutesFollow, ReadsHold, SavedHolds, Active
  <1>6. ASSUME NEW d \in Deploys, ReadGeneration(d) PROVE Good'
    <2>1. ~overlapped
      BY <1>6 DEF ReadGeneration
    <2> QED  BY <1>6, <2>1
             DEF ReadGeneration, TypeOK, Orderly, Alone, RoutesFollow, ReadsHold, SavedHolds, Active
  <1>7. ASSUME NEW d \in Deploys, WriteGeneration(d) PROVE Good'
    <2>1. ~overlapped
      BY <1>7 DEF WriteGeneration
    <2> QED  BY <1>7, <2>1
             DEF WriteGeneration, TypeOK, Orderly, Alone, RoutesFollow, ReadsHold, SavedHolds, Active
  <1>8. ASSUME NEW d \in Deploys, ReadAllow(d) PROVE Good'
    <2>1. ~overlapped
      BY <1>8 DEF ReadAllow
    <2> QED  BY <1>8, <2>1
             DEF ReadAllow, TypeOK, Orderly, Alone, RoutesFollow, ReadsHold, SavedHolds, Active
  <1>9. ASSUME NEW d \in Deploys, WriteAllow(d) PROVE Good'
    <2>1. ~overlapped
      BY <1>9 DEF WriteAllow
    <2> QED  BY <1>9, <2>1
             DEF WriteAllow, TypeOK, Orderly, Alone, RoutesFollow, ReadsHold, SavedHolds, Active
  <1>10. ASSUME NEW d \in Deploys, OpenFile(d) PROVE Good'
    <2>1. ~overlapped /\ UNCHANGED <<registry, routes, allow, body>>
      BY <1>10 DEF OpenFile
    <2>2. Active(d)
      BY <1>10 DEF OpenFile, Active
    <2>3. \A e \in Deploys : e # d => ~Active(e)
      BY <2>1, <2>2 DEF Orderly, Alone
    <2>4. \A e \in Deploys : e # d => pc'[e] = pc[e]
      <3>1. PICK v : pc' = [pc EXCEPT ![d] = v]
        BY <1>10 DEF OpenFile
      <3> QED  BY <3>1
    <2>5. pc[d] \notin {"built", "swapped", "allowing"} /\ pc'[d] \notin {"built", "swapped", "allowing"}
      BY <1>10 DEF OpenFile, TypeOK
    <2>6. Alone'
      BY <2>3, <2>4 DEF Alone, Active
    <2>7. RoutesFollow'
      <3>1. \A e \in Deploys : pc[e] # "swapped" /\ pc'[e] # "swapped"
        BY <2>3, <2>4, <2>5 DEF Active
      <3> QED  BY <2>1, <3>1 DEF Orderly, RoutesFollow
    <2>8. ReadsHold'
      <3>1. \A e \in Deploys : pc'[e] \notin {"built", "allowing"}
        BY <2>3, <2>4, <2>5 DEF Active
      <3> QED  BY <3>1 DEF ReadsHold
    <2>9. SavedHolds'
      <3>1. SavedHolds
        BY <2>1 DEF Orderly
      <3>2. \A e \in Deploys : Active(e)' => e = d
        BY <2>3, <2>4 DEF Active
      <3> QED  BY <1>10, <2>1, <2>2, <3>1, <3>2 DEF OpenFile, TypeOK, SavedHolds, Active, Files
    <2> QED  BY <2>6, <2>7, <2>8, <2>9
  <1>11. ASSUME NEW d \in Deploys, WriteFile(d) PROVE Good'
    <2>1. ~overlapped /\ UNCHANGED <<registry, routes, allow, body>>
      BY <1>11 DEF WriteFile
    <2>2. Active(d)
      BY <1>11 DEF WriteFile, Active
    <2>3. \A e \in Deploys : e # d => ~Active(e)
      BY <2>1, <2>2 DEF Orderly, Alone
    <2>4. \A e \in Deploys : e # d => pc'[e] = pc[e]
      <3>1. PICK v : pc' = [pc EXCEPT ![d] = v]
        BY <1>11 DEF WriteFile
      <3> QED  BY <3>1
    <2>5. pc[d] \notin {"built", "swapped", "allowing"} /\ pc'[d] \notin {"built", "swapped", "allowing"}
      BY <1>11 DEF WriteFile, TypeOK
    <2>6. Alone'
      BY <2>3, <2>4 DEF Alone, Active
    <2>7. RoutesFollow'
      <3>1. \A e \in Deploys : pc[e] # "swapped" /\ pc'[e] # "swapped"
        BY <2>3, <2>4, <2>5 DEF Active
      <3> QED  BY <2>1, <3>1 DEF Orderly, RoutesFollow
    <2>8. ReadsHold'
      <3>1. \A e \in Deploys : pc'[e] \notin {"built", "allowing"}
        BY <2>3, <2>4, <2>5 DEF Active
      <3> QED  BY <3>1 DEF ReadsHold
    <2>9. SavedHolds'
      <3>1. SavedHolds
        BY <2>1 DEF Orderly
      <3>2. \A e \in Deploys : Active(e)' => e = d
        BY <2>3, <2>4 DEF Active
      <3> QED  BY <1>11, <2>1, <2>2, <3>1, <3>2 DEF WriteFile, TypeOK, SavedHolds, Active, Files
    <2> QED  BY <2>6, <2>7, <2>8, <2>9
  <1>12. ASSUME NEW d \in Deploys, LoadConfig(d) PROVE Good'
    <2>1. ~overlapped /\ UNCHANGED <<registry, routes, allow, body>>
      BY <1>12 DEF LoadConfig
    <2>2. Active(d)
      BY <1>12 DEF LoadConfig, Active
    <2>3. \A e \in Deploys : e # d => ~Active(e)
      BY <2>1, <2>2 DEF Orderly, Alone
    <2>4. \A e \in Deploys : e # d => pc'[e] = pc[e]
      <3>1. PICK v : pc' = [pc EXCEPT ![d] = v]
        BY <1>12 DEF LoadConfig
      <3> QED  BY <3>1
    <2>5. pc[d] \notin {"built", "swapped", "allowing"} /\ pc'[d] \notin {"built", "swapped", "allowing"}
      BY <1>12 DEF LoadConfig, TypeOK
    <2>6. Alone'
      BY <2>3, <2>4 DEF Alone, Active
    <2>7. RoutesFollow'
      <3>1. \A e \in Deploys : pc[e] # "swapped" /\ pc'[e] # "swapped"
        BY <2>3, <2>4, <2>5 DEF Active
      <3> QED  BY <2>1, <3>1 DEF Orderly, RoutesFollow
    <2>8. ReadsHold'
      <3>1. \A e \in Deploys : pc'[e] \notin {"built", "allowing"}
        BY <2>3, <2>4, <2>5 DEF Active
      <3> QED  BY <3>1 DEF ReadsHold
    <2>9. SavedHolds'
      <3>1. SavedHolds
        BY <2>1 DEF Orderly
      <3>2. \A e \in Deploys : Active(e)' => e = d
        BY <2>3, <2>4 DEF Active
      <3> QED  BY <1>12, <2>1, <2>2, <3>1, <3>2 DEF LoadConfig, TypeOK, SavedHolds, Active, Files
    <2> QED  BY <2>6, <2>7, <2>8, <2>9
  <1>22. ASSUME NEW d \in Deploys, TakeAllow(d) PROVE Good'
    <2>1. ~overlapped /\ UNCHANGED <<registry, routes, allow, body>>
      BY <1>22 DEF TakeAllow
    <2>2. Active(d)
      BY <1>22 DEF TakeAllow, Active
    <2>3. \A e \in Deploys : e # d => ~Active(e)
      BY <2>1, <2>2 DEF Orderly, Alone
    <2>4. \A e \in Deploys : e # d => pc'[e] = pc[e]
      <3>1. PICK v : pc' = [pc EXCEPT ![d] = v]
        BY <1>22 DEF TakeAllow
      <3> QED  BY <3>1
    <2>5. pc[d] \notin {"built", "swapped", "allowing"} /\ pc'[d] \notin {"built", "swapped", "allowing"}
      BY <1>22 DEF TakeAllow, TypeOK
    <2>6. Alone'
      BY <2>3, <2>4 DEF Alone, Active
    <2>7. RoutesFollow'
      <3>1. \A e \in Deploys : pc[e] # "swapped" /\ pc'[e] # "swapped"
        BY <2>3, <2>4, <2>5 DEF Active
      <3> QED  BY <2>1, <3>1 DEF Orderly, RoutesFollow
    <2>8. ReadsHold'
      <3>1. \A e \in Deploys : pc'[e] \notin {"built", "allowing"}
        BY <2>3, <2>4, <2>5 DEF Active
      <3> QED  BY <3>1 DEF ReadsHold
    <2>9. SavedHolds'
      <3>1. SavedHolds
        BY <2>1 DEF Orderly
      <3>2. \A e \in Deploys : Active(e)' => e = d
        BY <2>3, <2>4 DEF Active
      <3> QED  BY <1>22, <2>1, <2>2, <3>1, <3>2 DEF TakeAllow, TypeOK, SavedHolds, Active, Files
    <2> QED  BY <2>6, <2>7, <2>8, <2>9
  <1>23. ASSUME NEW d \in Deploys, OpenConfig(d) PROVE Good'
    <2>1. ~overlapped /\ UNCHANGED <<registry, routes, allow, body>>
      BY <1>23 DEF OpenConfig
    <2>2. Active(d)
      BY <1>23 DEF OpenConfig, Active
    <2>3. \A e \in Deploys : e # d => ~Active(e)
      BY <2>1, <2>2 DEF Orderly, Alone
    <2>4. \A e \in Deploys : e # d => pc'[e] = pc[e]
      <3>1. PICK v : pc' = [pc EXCEPT ![d] = v]
        BY <1>23 DEF OpenConfig
      <3> QED  BY <3>1
    <2>5. pc[d] \notin {"built", "swapped", "allowing"} /\ pc'[d] \notin {"built", "swapped", "allowing"}
      BY <1>23 DEF OpenConfig, TypeOK
    <2>6. Alone'
      BY <2>3, <2>4 DEF Alone, Active
    <2>7. RoutesFollow'
      <3>1. \A e \in Deploys : pc[e] # "swapped" /\ pc'[e] # "swapped"
        BY <2>3, <2>4, <2>5 DEF Active
      <3> QED  BY <2>1, <3>1 DEF Orderly, RoutesFollow
    <2>8. ReadsHold'
      <3>1. \A e \in Deploys : pc'[e] \notin {"built", "allowing"}
        BY <2>3, <2>4, <2>5 DEF Active
      <3> QED  BY <3>1 DEF ReadsHold
    <2>9. SavedHolds'
      <3>1. SavedHolds
        BY <2>1 DEF Orderly
      <3>2. \A e \in Deploys : Active(e)' => e = d
        BY <2>3, <2>4 DEF Active
      <3> QED  BY <1>23, <2>1, <2>2, <3>1, <3>2 DEF OpenConfig, TypeOK, SavedHolds, Active, Files
    <2> QED  BY <2>6, <2>7, <2>8, <2>9
  <1>24. ASSUME NEW d \in Deploys, WriteConfig(d) PROVE Good'
    <2>1. ~overlapped /\ UNCHANGED <<registry, routes, allow, body>>
      BY <1>24 DEF WriteConfig
    <2>2. Active(d)
      BY <1>24 DEF WriteConfig, Active
    <2>3. \A e \in Deploys : e # d => ~Active(e)
      BY <2>1, <2>2 DEF Orderly, Alone
    <2>4. \A e \in Deploys : e # d => pc'[e] = pc[e]
      <3>1. PICK v : pc' = [pc EXCEPT ![d] = v]
        BY <1>24 DEF WriteConfig
      <3> QED  BY <3>1
    <2>5. pc[d] \notin {"built", "swapped", "allowing"} /\ pc'[d] \notin {"built", "swapped", "allowing"}
      BY <1>24 DEF WriteConfig, TypeOK
    <2>6. Alone'
      BY <2>3, <2>4 DEF Alone, Active
    <2>7. RoutesFollow'
      <3>1. \A e \in Deploys : pc[e] # "swapped" /\ pc'[e] # "swapped"
        BY <2>3, <2>4, <2>5 DEF Active
      <3> QED  BY <2>1, <3>1 DEF Orderly, RoutesFollow
    <2>8. ReadsHold'
      <3>1. \A e \in Deploys : pc'[e] \notin {"built", "allowing"}
        BY <2>3, <2>4, <2>5 DEF Active
      <3> QED  BY <3>1 DEF ReadsHold
    <2>9. SavedHolds'
      <3>1. SavedHolds
        BY <2>1 DEF Orderly
      <3>2. \A e \in Deploys : Active(e)' => e = d
        BY <2>3, <2>4 DEF Active
      <3> QED  BY <1>24, <2>1, <2>2, <3>1, <3>2 DEF WriteConfig, TypeOK, SavedHolds, Active, Files
    <2> QED  BY <2>6, <2>7, <2>8, <2>9
  <1>13. ASSUME NEW d \in Deploys, Answer(d) PROVE Good'
    <2>1. ~overlapped /\ UNCHANGED <<registry, routes, allow, body>>
      BY <1>13 DEF Answer
    <2>2. Active(d)
      BY <1>13 DEF Answer, Active
    <2>3. \A e \in Deploys : e # d => ~Active(e)
      BY <2>1, <2>2 DEF Orderly, Alone
    <2>4. \A e \in Deploys : e # d => pc'[e] = pc[e]
      <3>1. PICK v : pc' = [pc EXCEPT ![d] = v]
        BY <1>13 DEF Answer
      <3> QED  BY <3>1
    <2>5. pc[d] \notin {"built", "swapped", "allowing"} /\ pc'[d] \notin {"built", "swapped", "allowing"}
      BY <1>13 DEF Answer, TypeOK
    <2>6. Alone'
      BY <2>3, <2>4 DEF Alone, Active
    <2>7. RoutesFollow'
      <3>1. \A e \in Deploys : pc[e] # "swapped" /\ pc'[e] # "swapped"
        BY <2>3, <2>4, <2>5 DEF Active
      <3> QED  BY <2>1, <3>1 DEF Orderly, RoutesFollow
    <2>8. ReadsHold'
      <3>1. \A e \in Deploys : pc'[e] \notin {"built", "allowing"}
        BY <2>3, <2>4, <2>5 DEF Active
      <3> QED  BY <3>1 DEF ReadsHold
    <2>9. SavedHolds'
      <3>1. SavedHolds
        BY <2>1 DEF Orderly
      <3>2. \A e \in Deploys : Active(e)' => e = d
        BY <2>3, <2>4 DEF Active
      <3> QED  BY <1>13, <2>1, <2>2, <3>1, <3>2 DEF Answer, TypeOK, SavedHolds, Active, Files
    <2> QED  BY <2>6, <2>7, <2>8, <2>9
  <1>14. ASSUME NEW u \in Uris \cup Manage, Validate(u) PROVE Good'
    BY <1>14 DEF Validate, Orderly, Alone, RoutesFollow, ReadsHold, SavedHolds, Active
  <1>15. ASSUME NEW u \in Uris \cup Manage, Execute(u) PROVE Good'
    BY <1>15 DEF Execute, Orderly, Alone, RoutesFollow, ReadsHold, SavedHolds, Active
  <1>16. ASSUME Snapshot PROVE Good'
    BY <1>16 DEF Snapshot, Orderly, Alone, RoutesFollow, ReadsHold, SavedHolds, Active
  <1>17. ASSUME SnapshotGeneration PROVE Good'
    BY <1>17 DEF SnapshotGeneration, Orderly, Alone, RoutesFollow, ReadsHold, SavedHolds, Active
  <1>18. ASSUME Health PROVE Good'
    BY <1>18 DEF Health, Orderly, Alone, RoutesFollow, ReadsHold, SavedHolds, Active
  <1>19. ASSUME Verdict PROVE Good'
    BY <1>19 DEF Verdict, Orderly, Alone, RoutesFollow, ReadsHold, SavedHolds, Active
  <1>20. ASSUME Restart PROVE Good'
    <2>1. \A d \in Deploys : ~Active(d)'
      BY <1>20 DEF Restart, TypeOK, Active
    <2> QED  BY <1>20, <2>1
             DEF Restart, TypeOK, Alone, RoutesFollow, ReadsHold, SavedHolds, Active
  <1>21. CASE UNCHANGED vars
    BY <1>21 DEF vars, Orderly, Alone, RoutesFollow, ReadsHold, SavedHolds, Active
  <1> QED  BY <1>1, <1>2, <1>3, <1>4, <1>5, <1>6, <1>7, <1>8, <1>9, <1>10, <1>11, <1>12, <1>13, <1>14, <1>15, <1>16, <1>17, <1>18, <1>19, <1>20, <1>21, <1>22, <1>23, <1>24
           DEF Next, DeployStep

LEMMA OrderlyAlways == Spec => []Orderly
  <1>1. Spec => []TypeOK
    BY TypeCorrect
  <1> QED  BY <1>1, OrderlyInit, OrderlyStep, PTL DEF Spec

\* Between deploys that did not overlap, the routes the node lists are those of
\* the registry it serves (_apply_deploy_surface).
THEOREM RoutesSettle == Spec => []SettledSurface
  <1>1. Orderly => SettledSurface
    BY DEF Orderly, RoutesFollow, SettledSurface, Idle, Active
  <1> QED  BY <1>1, OrderlyAlways, PTL

\* What a deploy's answer reports persisted is whole on disk and what the node
\* serves, until a deploy changes it or opens the file again
\* (_persist_registry, _persist_allow_config).
THEOREM SavedSurvives == Spec => []PersistedSurvives
  <1>1. Orderly => PersistedSurvives
    BY DEF Orderly, SavedHolds, PersistedSurvives
  <1> QED  BY <1>1, OrderlyAlways, PTL

\* Merges that do not overlap lose no route and no allowed pattern
\* (_deploy_registry, _apply_deploy_allow).
THEOREM MergesKeep == Spec => MergeKeeps
  <1> DEFINE Kept == OnlyMerges /\ ~overlapped /\ restarts' = restarts =>
                UrisOf(registry) \subseteq UrisOf(registry') /\ allow \subseteq allow'
  <1>1. TypeOK /\ Orderly /\ [Next]_vars => [Kept]_vars
    <2> SUFFICES ASSUME TypeOK, Orderly, [Next]_vars,
                        OnlyMerges, ~overlapped, restarts' = restarts
                 PROVE  UrisOf(registry) \subseteq UrisOf(registry') /\ allow \subseteq allow'
      OBVIOUS
    <2> USE DEF nodeVars, diskVars, deployVars, probeVars, historyVars, Goto
    <2>1. ASSUME NEW d \in Deploys, SwapRegistry(d)
          PROVE  UrisOf(registry) \subseteq UrisOf(registry') /\ allow \subseteq allow'
      <3>1. body[d].merge
        BY <2>1 DEF SwapRegistry, OnlyMerges, Active
      <3> QED  BY <2>1, <3>1 DEF SwapRegistry, Orderly, ReadsHold
    <2>2. ASSUME NEW d \in Deploys, WriteAllow(d)
          PROVE  UrisOf(registry) \subseteq UrisOf(registry') /\ allow \subseteq allow'
      <3>1. body[d].merge
        BY <2>2 DEF WriteAllow, OnlyMerges, Active
      <3> QED  BY <2>2, <3>1 DEF WriteAllow, Orderly, ReadsHold
    <2>3. ASSUME NEW d \in Deploys,
                 DeployStep(d), ~SwapRegistry(d), ~WriteAllow(d)
          PROVE  registry' = registry /\ allow' = allow
      BY <2>3 DEF DeployStep, PushCode, Refuse, Build, SwapRoutes, ReadGeneration,
                  WriteGeneration, ReadAllow, OpenFile, WriteFile, LoadConfig, TakeAllow,
                    OpenConfig, WriteConfig, Answer
    <2>4. ASSUME NEW u \in Uris \cup Manage, Validate(u) \/ Execute(u)
          PROVE  registry' = registry /\ allow' = allow
      BY <2>4 DEF Validate, Execute
    <2>5. CASE Snapshot \/ SnapshotGeneration \/ Health \/ Verdict
      BY <2>5 DEF Snapshot, SnapshotGeneration, Health, Verdict
    <2>6. CASE Restart
      BY <2>6, RestartsAssumption DEF Restart, TypeOK
    <2>7. CASE UNCHANGED vars
      BY <2>7 DEF vars
    <2> QED  BY <2>1, <2>2, <2>3, <2>4, <2>5, <2>6, <2>7 DEF Next
  <1> QED  BY <1>1, TypeCorrect, OrderlyAlways, PTL DEF Spec, MergeKeeps

-----------------------------------------------------------------------------
(* The probe.  As long as nothing was under way since the snapshot, what   *)
(* it took is what the node serves.                                        *)

Quiet ==
    /\ verdict = "churned" => ppc = "done"
    /\ ppc = "new" => ~churn
    /\ Manage = {} /\ Probing /\ ~touched =>
          /\ Idle
          /\ ~churn
          /\ routes = etag
          /\ ppc # "etag" => gen = generation
          /\ ppc = "health" => same

\* A probe of a node without node:// management reports churn only when a
\* deploy or a restart was under way (probe_command).
THEOREM ChurnIsExplained == Spec => []ChurnMeansDeploy
  <1> DEFINE QInv == Quiet /\ ChurnMeansDeploy
  <1>1. Init => QInv
    BY DEF Init, Quiet, Probing, ChurnMeansDeploy
  <1>2. QInv /\ TypeOK /\ [Next]_vars => QInv'
    <2> SUFFICES ASSUME Quiet, ChurnMeansDeploy, TypeOK, [Next]_vars
                 PROVE  (Quiet /\ ChurnMeansDeploy)'
      OBVIOUS
    <2> USE DEF nodeVars, diskVars, deployVars, probeVars, historyVars, Goto
    <2>1. ASSUME NEW d \in Deploys, PushCode(d) PROVE QInv'
      BY <2>1 DEF PushCode, Quiet, ChurnMeansDeploy, Probing
    <2>2. ASSUME NEW d \in Deploys, DeployStep(d), ~PushCode(d) PROVE QInv'
      <3>1. Active(d)
        BY <2>2 DEF DeployStep, Refuse, Build, SwapRegistry, SwapRoutes, ReadGeneration,
                    WriteGeneration, ReadAllow, WriteAllow, OpenFile, WriteFile,
                    LoadConfig, TakeAllow, OpenConfig, WriteConfig, Answer, Active
      <3>2. UNCHANGED <<probeVars, touched>>
        BY <2>2 DEF DeployStep, Refuse, Build, SwapRegistry, SwapRoutes, ReadGeneration,
                    WriteGeneration, ReadAllow, WriteAllow, OpenFile, WriteFile,
                    LoadConfig, TakeAllow, OpenConfig, WriteConfig, Answer
      <3>3. ~Idle
        BY <3>1 DEF Idle
      <3> QED  BY <3>2, <3>3 DEF Quiet, ChurnMeansDeploy, Probing
    <2>3. ASSUME NEW u \in Uris \cup Manage, Validate(u) PROVE QInv'
      BY <2>3 DEF Validate, Quiet, ChurnMeansDeploy, Probing, Idle, Active
    <2>4. ASSUME NEW u \in Uris \cup Manage, Execute(u) PROVE QInv'
      BY <2>4 DEF Execute, Quiet, ChurnMeansDeploy, Probing, Idle, Active
    <2>5. ASSUME Snapshot PROVE QInv'
      BY <2>5 DEF Snapshot, Quiet, ChurnMeansDeploy, Probing, Idle, Active
    <2>6. ASSUME SnapshotGeneration PROVE QInv'
      BY <2>6 DEF SnapshotGeneration, Quiet, ChurnMeansDeploy, Probing, Idle, Active
    <2>7. ASSUME Health PROVE QInv'
      BY <2>7 DEF Health, Quiet, ChurnMeansDeploy, Probing, Idle, Active
    <2>8. ASSUME Verdict PROVE QInv'
      BY <2>8 DEF Verdict, Quiet, ChurnMeansDeploy, Probing, Idle, Active
    <2>9. ASSUME Restart PROVE QInv'
      <3>1. UNCHANGED <<ppc, churn, verdict>> /\ touched' = (Probing \/ touched)
        BY <2>9 DEF Restart
      <3> QED  BY <3>1 DEF Quiet, ChurnMeansDeploy, Probing
    <2>10. CASE UNCHANGED vars
      BY <2>10 DEF vars, Quiet, ChurnMeansDeploy, Probing, Idle, Active
    <2> QED  BY <2>1, <2>2, <2>3, <2>4, <2>5, <2>6, <2>7, <2>8, <2>9, <2>10 DEF Next
  <1>3. Spec => []QInv
    BY <1>1, <1>2, TypeCorrect, PTL DEF Spec
  <1> QED  BY <1>3, PTL

-----------------------------------------------------------------------------
(* A stable verdict.  A deploy that changed the registry or the code shows *)
(* in the generation, unless it has still to write it.                     *)

Unseen(d) == \/ pc[d] \in {"swapped", "routed", "counted"}
             \/ pc[d] \in {"coded", "built"} /\ body[d].code
Unchanged == ranOn \subseteq {since} /\ Surface = since
Honest ==
    /\ run # {} => ppc = "running"
    /\ verdict = "stable" => ppc = "done"
    /\ ppc \in {"new", "etag"} => ranOn = {}
    /\ ppc \in {"running", "health"} /\ excuse = {} =>
          /\ gen <= generation
          /\ gen = generation => Unchanged \/ \E d \in Deploys : Unseen(d)

\* The verdict of probe_command, however many deploys there are: when it says
\* stable, every route ran on the registry and the code of the snapshot, but
\* for the four excuses.
THEOREM StableVerdictIsHonest == Spec => []StableIsHonest
  <1> DEFINE HInv == Honest /\ StableIsHonest
  <1>1. Init => HInv
    BY DEF Init, Honest, StableIsHonest
  <1>2. HInv /\ TypeOK /\ [Next]_vars => HInv'
    <2> SUFFICES ASSUME Honest, StableIsHonest, TypeOK, [Next]_vars
                 PROVE  (Honest /\ StableIsHonest)'
      OBVIOUS
    <2> USE DEF nodeVars, diskVars, deployVars, probeVars, historyVars, Goto
    <2> gen \in Nat /\ generation \in Nat /\ seen \in [Deploys -> Nat]
      BY DEF TypeOK
    <2>1. ASSUME NEW d \in Deploys, PushCode(d) PROVE HInv'
      <3>1. \A e \in Deploys : Unseen(e) => Unseen(e)'
        BY <2>1 DEF PushCode, Unseen, TypeOK
      <3>2. Unchanged => Unchanged' \/ Unseen(d)'
        BY <2>1 DEF PushCode, Unseen, Unchanged, Surface, TypeOK
      <3> QED  BY <2>1, <3>1, <3>2 DEF PushCode, Honest, StableIsHonest
    <2>2. ASSUME NEW d \in Deploys, Refuse(d) PROVE HInv'
      <3>1. excuse' = {} =>
               excuse = {} /\ (Probing => \A e \in Deploys : Unseen(e) => Unseen(e)')
        BY <2>2 DEF Refuse, Unseen, TypeOK
      <3>2. Unchanged => Unchanged'
        BY <2>2 DEF Refuse, Unchanged, Surface
      <3> QED  BY <2>2, <3>1, <3>2 DEF Refuse, Honest, StableIsHonest, Probing
    <2>3. ASSUME NEW d \in Deploys, WriteGeneration(d) PROVE HInv'
      <3>1. ppc \in {"running", "health"} /\ excuse' = {} =>
               excuse = {} /\ generation < generation'
        BY <2>3 DEF WriteGeneration, Probing
      <3>2. excuse' = {} => excuse = {}
        BY <2>3 DEF WriteGeneration
      <3>3. generation' \in Nat
        BY <2>3 DEF WriteGeneration
      <3> QED  BY <2>3, <3>1, <3>2, <3>3 DEF WriteGeneration, Honest, StableIsHonest
    <2>4. ASSUME NEW d \in Deploys, Build(d) \/ SwapRegistry(d) \/ SwapRoutes(d)
                                    \/ ReadGeneration(d)
          PROVE  HInv'
      <3>1. \A e \in Deploys : Unseen(e) => Unseen(e)'
        BY <2>4 DEF Build, SwapRegistry, SwapRoutes, ReadGeneration, Unseen, TypeOK
      <3>2. Unchanged => Unchanged' \/ Unseen(d)'
        BY <2>4 DEF Build, SwapRegistry, SwapRoutes, ReadGeneration, Unseen, Unchanged,
                    Surface, TypeOK
      <3>3. UNCHANGED <<generation, probeVars, excuse>>
        BY <2>4 DEF Build, SwapRegistry, SwapRoutes, ReadGeneration
      <3> QED  BY <3>1, <3>2, <3>3 DEF Honest, StableIsHonest
    <2>5. ASSUME NEW d \in Deploys, ReadAllow(d) \/ WriteAllow(d) \/ OpenFile(d)
                                    \/ WriteFile(d) \/ LoadConfig(d) \/ TakeAllow(d)
                                    \/ OpenConfig(d) \/ WriteConfig(d) \/ Answer(d)
          PROVE  HInv'
      <3>1. \A e \in Deploys : Unseen(e) => Unseen(e)'
        BY <2>5 DEF ReadAllow, WriteAllow, OpenFile, WriteFile, LoadConfig, TakeAllow,
                    OpenConfig, WriteConfig, Answer,
                    Unseen, TypeOK
      <3>2. UNCHANGED <<registry, code, generation, probeVars, excuse>>
        BY <2>5 DEF ReadAllow, WriteAllow, OpenFile, WriteFile, LoadConfig, TakeAllow,
                    OpenConfig, WriteConfig, Answer
      <3> QED  BY <3>1, <3>2 DEF Honest, StableIsHonest, Unchanged, Surface
    <2>6. ASSUME NEW u \in Uris \cup Manage, Validate(u) PROVE HInv'
      BY <2>6 DEF Validate, Honest, StableIsHonest, Unchanged, Surface, Unseen
    <2>7. ASSUME NEW u \in Uris \cup Manage, Execute(u) PROVE HInv'
      <3>1. Unchanged => Unchanged'
        BY <2>7 DEF Execute, Unchanged, Surface
      <3>2. ppc = "running"
        BY <2>7 DEF Execute, Honest
      <3> QED  BY <2>7, <3>1, <3>2 DEF Execute, Honest, StableIsHonest, Unseen
    <2>8. ASSUME Snapshot PROVE HInv'
      BY <2>8 DEF Snapshot, Honest, StableIsHonest
    <2>9. ASSUME SnapshotGeneration PROVE HInv'
      <3>1. Unchanged'
        BY <2>9 DEF SnapshotGeneration, Honest, Unchanged, Surface
      <3> QED  BY <2>9, <3>1 DEF SnapshotGeneration, Honest, StableIsHonest
    <2>10. ASSUME Health PROVE HInv'
      BY <2>10 DEF Health, Honest, StableIsHonest, Unchanged, Surface, Unseen
    <2>11. ASSUME Verdict PROVE HInv'
      <3>1. excuse' = {} => Idle /\ excuse = {}
        BY <2>11 DEF Verdict
      <3>2. \A d \in Deploys : Unseen(d) => Active(d)
        BY DEF Unseen, Active
      <3>3. verdict' = "stable" /\ excuse' = {} => ranOn \subseteq {since}
        BY <2>11, <3>1, <3>2 DEF Verdict, Honest, Idle, Unchanged
      <3> QED  BY <2>11, <3>3 DEF Verdict, Honest, StableIsHonest
    <2>12. ASSUME Restart PROVE HInv'
      <3>1. /\ UNCHANGED <<ppc, verdict, ranOn, since>> /\ run' = {}
            /\ excuse' = IF Probing THEN excuse \cup {"restart"} ELSE excuse
        BY <2>12 DEF Restart
      <3> QED  BY <3>1 DEF Honest, StableIsHonest, Probing
    <2>13. CASE UNCHANGED vars
      BY <2>13 DEF vars, Honest, StableIsHonest, Unchanged, Surface, Unseen
    <2> QED  BY <2>1, <2>2, <2>3, <2>4, <2>5, <2>6, <2>7, <2>8, <2>9, <2>10, <2>11,
                <2>12, <2>13 DEF Next, DeployStep
  <1>3. Spec => []HInv
    BY <1>1, <1>2, TypeCorrect, PTL DEF Spec
  <1> QED  BY <1>3, PTL
=============================================================================
