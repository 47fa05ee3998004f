----------------------------- MODULE NodeDeploy -----------------------------
(***************************************************************************)
(* The surface a node serves and the two that share it: POST /deploy of    *)
(* urirun_node/server.py, which changes the node's state in place, field   *)
(* by field, on a thread of its own and without a lock; and                *)
(* "urirun host probe" (urirun/host/node_cli.py), which snapshots the      *)
(* surface, runs every route pinned to the snapshot's etag, and reads the  *)
(* surface once more for its verdict.                                      *)
(*                                                                         *)
(* A binding is a uri and the deploy that brought it; a pattern of the     *)
(* allow-list is the uri it allows; the etag of a surface is its set of    *)
(* uris, which is all that registry_fingerprint covers (with the kind).    *)
(* A local variable is forgotten when its last reader has run; a restart   *)
(* takes the node back to what its files say.                              *)
(***************************************************************************)
EXTENDS Naturals, FiniteSets

CONSTANTS
    Uris,        \* uris of connector routes
    Manage,      \* the uris of node:// management, served with --manage
    Deploys,     \* requests of /deploy
    Bodies,      \* what they may ask for
    Start,       \* "the registry the node was first started with"
    MaxRestarts  \* bound: restarts of the node

\* A deploy merges or replaces; its bindings (none: no surface) compile or
\* not; it may push handler code and an allow-list, and ask to be persisted.
BodyType == [merge : BOOLEAN, uris : SUBSET Uris, valid : BOOLEAN,
             code : BOOLEAN, policy : BOOLEAN, allow : SUBSET Uris,
             persist : BOOLEAN]

ASSUME BodiesAssumption == Bodies \subseteq BodyType
ASSUME StartAssumption == Start \notin Deploys
ASSUME ManageAssumption == Manage \cap Uris = {}
ASSUME RestartsAssumption == MaxRestarts \in Nat

Origins == Deploys \cup {Start}
Bindings == [uri : Uris, by : Origins]
Registries == {r \in SUBSET Bindings : \A a, b \in r : a.uri = b.uri => a = b}

VARIABLES
    registry,   \* state["registry"]
    routes,     \* state["routes"]
    generation, \* state["generation"]
    allow,      \* state["allow"]
    code,       \* who pushed the handler code that is loaded
    file,       \* the registry file the node starts from
    torn,       \* the files that were opened for writing and are not well-formed
    shared,     \* the files two deploys had open at once
    config,     \* the allow-list in the node's config file
    body,       \* what each deploy asks for
    pc,         \* where its thread is
    built,      \* the registry it has computed, then the one it persists
    seen,       \* the generation it has read
    kept,       \* the allow-list it has read
    says,       \* the files its answer reports persisted
    ppc,        \* where the probe is
    etag,       \* the etag of its snapshot
    gen,        \* the generation of its snapshot
    todo,       \* the routes it has still to run
    run,        \* the route whose request the node has accepted, in a set
    churn,      \* some route was answered 409
    same,       \* the etag of its second look is the snapshot's
    verdict,    \* what it reports
    ranOn,      \* the registries and codes the probe's routes ran on (history)
    since,      \* the registry and code of the snapshot (history)
    touched,    \* a deploy or restart was under way since the snapshot (history)
    overlapped, \* two deploys were under way at once since the start (history)
    excuse,     \* why a stable verdict may be wrong (history)
    unsaved,    \* the files not reported persisted since registry, allow or the
                \* file itself was last written to (history)
    restarts    \* restarts so far

nodeVars == <<registry, routes, generation, allow, code>>
diskVars == <<file, torn, shared, config>>
deployVars == <<body, pc, built, seen, kept, says>>
probeVars == <<ppc, etag, gen, todo, run, churn, same, verdict, ranOn, since>>
historyVars == <<touched, overlapped, excuse, unsaved>>
vars == <<nodeVars, diskVars, deployVars, probeVars, historyVars, restarts>>

Excuses == {"recount", "refused", "restart", "in_flight"}
Files == {"registry", "config"}
Surface == <<registry, code>>
UrisOf(r) == {b.uri : b \in r}
Active(d) == pc[d] \notin {"new", "answered", "refused", "dead"}
Idle == \A d \in Deploys : ~Active(d)
Probing == ppc \in {"etag", "running", "health"}
HasSurface(d) == body[d].uris # {}

Init == /\ registry \in {[uri : us, by : {Start}] : us \in SUBSET Uris}
        /\ routes = UrisOf(registry)
        /\ generation = 1
        /\ allow = Uris
        /\ code = Start
        /\ file = registry
        /\ torn = {}
        /\ shared = {}
        /\ config = Uris
        /\ body \in [Deploys -> Bodies]
        /\ pc = [d \in Deploys |-> "new"]
        /\ built = [d \in Deploys |-> {}]
        /\ seen = [d \in Deploys |-> 0]
        /\ kept = [d \in Deploys |-> {}]
        /\ says = [d \in Deploys |-> {}]
        /\ ppc = "new"
        /\ etag = {}
        /\ gen = 0
        /\ todo = {}
        /\ run = {}
        /\ churn = FALSE
        /\ same = FALSE
        /\ verdict = "none"
        /\ ranOn = {}
        /\ since = Surface
        /\ touched = FALSE
        /\ overlapped = FALSE
        /\ excuse = {}
        /\ unsaved = {}
        /\ restarts = 0

Goto(d, from, to) == pc[d] = from /\ pc' = [pc EXCEPT ![d] = to]

-----------------------------------------------------------------------------
(* A deploy.                                                               *)

\* Pushed code is written and imported before anything else of the body is
\* looked at.
PushCode(d) ==
    /\ Goto(d, "new", "coded")
    /\ code' = IF body[d].code THEN d ELSE code
    /\ touched' = (Probing \/ touched)
    /\ overlapped' = (overlapped \/ ~Idle)
    /\ UNCHANGED <<registry, routes, generation, allow, diskVars, body, built,
                   seen, kept, says, probeVars, excuse, unsaved, restarts>>

\* A malformed body is answered 400; the code it brought stays.
Refuse(d) ==
    /\ ~body[d].valid
    /\ Goto(d, "coded", "refused")
    /\ excuse' = IF Probing /\ body[d].code THEN excuse \cup {"refused"} ELSE excuse
    /\ UNCHANGED <<nodeVars, diskVars, body, built, seen, kept, says, probeVars,
                   touched, overlapped, unsaved, restarts>>

\* _deploy_registry: a merge keeps what is served now, the body winning.
Build(d) ==
    /\ body[d].valid /\ HasSurface(d)
    /\ Goto(d, "coded", "built")
    /\ built' = [built EXCEPT ![d] =
                    [uri : body[d].uris, by : {d}]
                    \cup IF body[d].merge
                         THEN {b \in registry : b.uri \notin body[d].uris} ELSE {}]
    /\ UNCHANGED <<nodeVars, diskVars, body, seen, kept, says, probeVars, historyVars, restarts>>

SwapRegistry(d) ==
    /\ Goto(d, "built", "swapped")
    /\ registry' = built[d]
    /\ unsaved' = unsaved \cup {"registry"}
    /\ UNCHANGED <<routes, generation, allow, code, diskVars, body, built, seen, kept,
                   says, probeVars, touched, overlapped, excuse, restarts>>

\* Mutant: only the routes of the body.
SwapRoutesOfBody(d) ==
    /\ Goto(d, "swapped", "routed")
    /\ routes' = body[d].uris
    /\ built' = [built EXCEPT ![d] = {}]
    /\ UNCHANGED <<registry, generation, allow, code, diskVars, body, seen, kept,
                   says, probeVars, historyVars, restarts>>

\* The routes are those of the registry the deploy computed.
SwapRoutes(d) ==
    /\ Goto(d, "swapped", "routed")
    /\ routes' = UrisOf(built[d])
    /\ built' = [built EXCEPT ![d] = {}]
    /\ UNCHANGED <<registry, generation, allow, code, diskVars, body, seen, kept,
                   says, probeVars, historyVars, restarts>>

\* state.get("generation", 1) + 1 is read, and then written.
ReadGeneration(d) ==
    /\ \/ Goto(d, "routed", "counted")
       \/ body[d].valid /\ ~HasSurface(d) /\ Goto(d, "coded", "counted")
    /\ seen' = [seen EXCEPT ![d] = generation]
    /\ UNCHANGED <<nodeVars, diskVars, body, built, kept, says, probeVars, historyVars, restarts>>

\* Mutant: only a new surface is counted, not new code.
WriteGenerationForSurface(d) ==
    /\ Goto(d, "counted", "bumped")
    /\ generation' = IF HasSurface(d) THEN seen[d] + 1 ELSE generation
    /\ seen' = [seen EXCEPT ![d] = 0]
    /\ excuse' = IF Probing /\ generation' <= generation /\ HasSurface(d)
                 THEN excuse \cup {"recount"} ELSE excuse
    /\ UNCHANGED <<registry, routes, allow, code, diskVars, body, built, kept,
                   says, probeVars, touched, overlapped, unsaved, restarts>>

\* Another deploy may have counted meanwhile; then a number comes twice.
WriteGeneration(d) ==
    /\ Goto(d, "counted", "bumped")
    /\ generation' = seen[d] + 1
    /\ seen' = [seen EXCEPT ![d] = 0]
    /\ excuse' = IF Probing /\ generation' <= generation
                 THEN excuse \cup {"recount"} ELSE excuse
    /\ UNCHANGED <<registry, routes, allow, code, diskVars, body, built, kept,
                   says, probeVars, touched, overlapped, unsaved, restarts>>

\* The allow-list is replaced, or, to merge, read and then written.
ReadAllow(d) ==
    /\ Goto(d, "bumped", "allowing")
    /\ kept' = [kept EXCEPT ![d] = IF body[d].merge THEN allow ELSE {}]
    /\ UNCHANGED <<nodeVars, diskVars, body, built, seen, says, probeVars, historyVars, restarts>>

WriteAllow(d) ==
    /\ Goto(d, "allowing", "applied")
    /\ allow' = IF body[d].policy THEN kept[d] \cup body[d].allow ELSE allow
    /\ unsaved' = unsaved \cup {"config"}
    /\ kept' = [kept EXCEPT ![d] = {}]
    /\ UNCHANGED <<registry, routes, generation, code, diskVars, body, built, seen,
                   says, probeVars, touched, overlapped, excuse, restarts>>

\* _persist_registry takes the registry served by now, which need not be the
\* deploy's own, and truncates the file before it writes.  A directory or a file
\* that cannot be opened leaves the old one, and persistError in the answer.
OpenFile(d) ==
    /\ body[d].persist
    /\ \/ /\ Goto(d, "applied", "opened")
          /\ built' = [built EXCEPT ![d] = registry]
          /\ torn' = torn \cup {"registry"}
          /\ shared' = IF \E e \in Deploys \ {d} : pc[e] = "opened"
                       THEN shared \cup {"registry"} ELSE shared \ {"registry"}
          /\ unsaved' = unsaved \cup {"registry"}
       \/ /\ Goto(d, "applied", "written")
          /\ UNCHANGED <<built, torn, shared, unsaved>>
    /\ UNCHANGED <<nodeVars, file, config, body, seen, kept, says, probeVars,
                   touched, overlapped, excuse, restarts>>

\* Mutant: the path is reported before the write has succeeded.
WriteFileNoted(d) ==
    /\ Goto(d, "opened", "written")
    /\ \/ torn' = torn \ {"registry"} /\ file' = built[d]
       \/ torn' = torn \cup {"registry"} /\ UNCHANGED file
    /\ says' = [says EXCEPT ![d] = {"registry"}]
    /\ built' = [built EXCEPT ![d] = {}]
    /\ UNCHANGED <<nodeVars, shared, config, body, seen, kept, probeVars,
                   historyVars, restarts>>

\* Two writers that had the file open at once may leave a mixture.  A write that
\* fails leaves a part; the exception is caught, and the deploy goes on.
WriteFile(d) ==
    /\ Goto(d, "opened", "written")
    /\ \/ /\ file' = built[d]
          /\ \/ torn' = torn \ {"registry"}
             \/ "registry" \in shared /\ torn' = torn \cup {"registry"}
          /\ says' = [says EXCEPT ![d] = {"registry"}]
       \/ /\ torn' = torn \cup {"registry"}
          /\ UNCHANGED <<file, says>>
    /\ built' = [built EXCEPT ![d] = {}]
    /\ UNCHANGED <<nodeVars, shared, config, body, seen, kept, probeVars,
                   historyVars, restarts>>

\* _persist_allow_config keeps what else the config holds, so it reads it first;
\* one that is torn, or cannot be read, is left as it is: persistAllowError.
LoadConfig(d) ==
    /\ \/ "config" \notin torn /\ Goto(d, "written", "loaded")
       \/ Goto(d, "written", "saved")
    /\ UNCHANGED <<nodeVars, diskVars, body, built, seen, kept, says, probeVars,
                   historyVars, restarts>>

\* list(state["allow"]): the allow-list of now, not the deploy's own.
TakeAllow(d) ==
    /\ Goto(d, "loaded", "taken")
    /\ kept' = [kept EXCEPT ![d] = allow]
    /\ UNCHANGED <<nodeVars, diskVars, body, built, seen, says, probeVars,
                   historyVars, restarts>>

\* write_text truncates,
OpenConfig(d) ==
    /\ \/ /\ Goto(d, "taken", "truncated")
          /\ torn' = torn \cup {"config"}
          /\ shared' = IF \E e \in Deploys \ {d} : pc[e] = "truncated"
                       THEN shared \cup {"config"} ELSE shared \ {"config"}
          /\ unsaved' = unsaved \cup {"config"}
       \/ /\ Goto(d, "taken", "saved")
          /\ UNCHANGED <<torn, shared, unsaved>>
    /\ UNCHANGED <<nodeVars, file, config, body, built, seen, kept, says, probeVars,
                   touched, overlapped, excuse, restarts>>

\* and then writes, or fails.
WriteConfig(d) ==
    /\ Goto(d, "truncated", "saved")
    /\ \/ /\ config' = kept[d]
          /\ \/ torn' = torn \ {"config"}
             \/ "config" \in shared /\ torn' = torn \cup {"config"}
          /\ says' = [says EXCEPT ![d] = @ \cup {"config"}]
       \/ /\ torn' = torn \cup {"config"}
          /\ UNCHANGED <<config, says>>
    /\ kept' = [kept EXCEPT ![d] = {}]
    /\ UNCHANGED <<nodeVars, file, shared, body, built, seen, probeVars,
                   historyVars, restarts>>

\* 200, whatever was persisted of it.
Answer(d) ==
    /\ \/ Goto(d, "saved", "answered")
       \/ ~body[d].persist /\ Goto(d, "applied", "answered")
    /\ unsaved' = unsaved \ says[d]
    /\ says' = [says EXCEPT ![d] = {}]
    /\ kept' = [kept EXCEPT ![d] = {}]
    /\ UNCHANGED <<nodeVars, diskVars, body, built, seen, probeVars,
                   touched, overlapped, excuse, restarts>>

\* The node dies with its threads and is started again from its files; from a
\* torn registry or config it does not start.
Restart ==
    /\ restarts < MaxRestarts
    /\ restarts' = restarts + 1
    /\ torn = {}
    /\ registry' = file
    /\ routes' = UrisOf(file)
    /\ generation' = 1
    /\ allow' = config
    /\ pc' = [d \in Deploys |-> IF Active(d) THEN "dead" ELSE pc[d]]
    /\ built' = [d \in Deploys |-> {}]
    /\ seen' = [d \in Deploys |-> 0]
    /\ kept' = [d \in Deploys |-> {}]
    /\ says' = [d \in Deploys |-> {}]
    /\ run' = {}
    /\ touched' = (Probing \/ touched)
    /\ overlapped' = FALSE
    /\ excuse' = IF Probing THEN excuse \cup {"restart"} ELSE excuse
    /\ unsaved' = {}
    /\ UNCHANGED <<code, diskVars, body, ppc, etag, gen, todo,
                   churn, same, verdict, ranOn, since>>

-----------------------------------------------------------------------------
(* The probe.                                                              *)

\* GET /routes: the etag and the routes are those with node:// management,
Snapshot ==
    /\ ppc = "new"
    /\ ppc' = "etag"
    /\ etag' = routes \cup Manage
    /\ todo' = routes \cup Manage
    /\ touched' = ~Idle
    /\ excuse' = {}
    /\ UNCHANGED <<nodeVars, diskVars, deployVars, gen, run, churn, same, verdict,
                   ranOn, since, overlapped, unsaved, restarts>>

\* and the generation is read after them.
SnapshotGeneration ==
    /\ ppc = "etag"
    /\ ppc' = "running"
    /\ gen' = generation
    /\ since' = Surface
    /\ UNCHANGED <<nodeVars, diskVars, deployVars, etag, todo, run, churn, same,
                   verdict, ranOn, historyVars, restarts>>

\* Mutant: the pin is compared with the registry that is being deployed.
ValidateDeployed(u) ==
    /\ ppc = "running" /\ run = {}
    /\ u \in todo
    /\ todo' = todo \ {u}
    /\ run' = IF etag \ Manage = UrisOf(file) THEN {u} ELSE {}
    /\ churn' = (churn \/ etag \ Manage # UrisOf(file))
    /\ UNCHANGED <<nodeVars, diskVars, deployVars, ppc, etag, gen, same, verdict,
                   ranOn, since, historyVars, restarts>>

\* _validate_run_request compares the pin with the etag of the routes without
\* node:// management: the run goes on, or is answered 409.
Validate(u) ==
    /\ ppc = "running" /\ run = {}
    /\ u \in todo
    /\ todo' = todo \ {u}
    /\ run' = IF etag = routes THEN {u} ELSE {}
    /\ churn' = (churn \/ etag # routes)
    /\ UNCHANGED <<nodeVars, diskVars, deployVars, ppc, etag, gen, same, verdict,
                   ranOn, since, historyVars, restarts>>

\* _run_target and the dispatch: whatever registry and code are there by now,
\* under the allow-list of now.
Execute(u) ==
    /\ u \in run
    /\ run' = {}
    /\ ranOn' = IF u \in UrisOf(registry) \cap allow THEN ranOn \cup {Surface} ELSE ranOn
    /\ UNCHANGED <<nodeVars, diskVars, deployVars, ppc, etag, gen, todo, churn, same,
                   verdict, since, historyVars, restarts>>

\* GET /health after the last route: an etag without node:// management,
Health ==
    /\ ppc = "running" /\ run = {} /\ todo = {}
    /\ ppc' = "health"
    /\ same' = (etag = routes)
    /\ UNCHANGED <<nodeVars, diskVars, deployVars, etag, gen, todo, run, churn, verdict,
                   ranOn, since, historyVars, restarts>>

\* the generation after it, and the verdict.
Verdict ==
    /\ ppc = "health"
    /\ ppc' = "done"
    /\ verdict' = IF same /\ gen = generation /\ ~churn THEN "stable" ELSE "churned"
    /\ excuse' = IF Idle THEN excuse ELSE excuse \cup {"in_flight"}
    /\ UNCHANGED <<nodeVars, diskVars, deployVars, etag, gen, todo, run, churn, same,
                   ranOn, since, touched, overlapped, unsaved, restarts>>

DeployStep(d) ==
    \/ PushCode(d) \/ Refuse(d) \/ Build(d) \/ SwapRegistry(d) \/ SwapRoutes(d)
    \/ ReadGeneration(d) \/ WriteGeneration(d) \/ ReadAllow(d) \/ WriteAllow(d)
    \/ OpenFile(d) \/ WriteFile(d) \/ LoadConfig(d) \/ TakeAllow(d) \/ OpenConfig(d)
    \/ WriteConfig(d) \/ Answer(d)

Next == \/ \E d \in Deploys : DeployStep(d)
        \/ \E u \in Uris \cup Manage : Validate(u) \/ Execute(u)
        \/ Snapshot \/ SnapshotGeneration \/ Health \/ Verdict
        \/ Restart

Spec == Init /\ [][Next]_vars

-----------------------------------------------------------------------------
(* Properties.                                                             *)

TypeOK ==
    /\ registry \in Registries
    /\ routes \subseteq Uris
    /\ generation \in Nat
    /\ allow \subseteq Uris
    /\ code \in Origins
    /\ file \in Registries
    /\ torn \subseteq Files
    /\ shared \subseteq Files
    /\ config \subseteq Uris
    /\ body \in [Deploys -> Bodies]
    /\ pc \in [Deploys -> {"new", "coded", "built", "swapped", "routed", "counted",
                           "bumped", "allowing", "applied", "opened", "written",
                           "loaded", "taken", "truncated", "saved", "answered", "refused", "dead"}]
    /\ built \in [Deploys -> Registries]
    /\ seen \in [Deploys -> Nat]
    /\ kept \in [Deploys -> SUBSET Uris]
    /\ says \in [Deploys -> SUBSET Files]
    /\ ppc \in {"new", "etag", "running", "health", "done"}
    /\ etag \subseteq Uris \cup Manage
    /\ gen \in Nat
    /\ todo \subseteq Uris \cup Manage
    /\ run \subseteq Uris \cup Manage
    /\ churn \in BOOLEAN
    /\ same \in BOOLEAN
    /\ verdict \in {"none", "stable", "churned"}
    /\ ranOn \subseteq Registries \X Origins
    /\ since \in Registries \X Origins
    /\ touched \in BOOLEAN
    /\ overlapped \in BOOLEAN
    /\ excuse \subseteq Excuses
    /\ unsaved \subseteq Files
    /\ restarts \in Nat

\* "honest verdict instead of silently hitting a moving target": when the probe
\* reports the surface stable, every route ran on the registry and the code of
\* the snapshot, unless two overlapping deploys counted the same generation, one
\* was refused after its code was loaded, one was still under way at the verdict,
\* or the node restarted.
StableIsHonest == verdict = "stable" /\ excuse = {} => ranOn \subseteq {since}

\* Without node:// management, no probe reports churn unless a deploy or a
\* restart was under way.
ChurnMeansDeploy == Manage = {} /\ verdict = "churned" => touched

\* Between deploys that did not overlap, the routes a node lists (and its etag)
\* are those of the registry it serves.
SettledSurface == Idle /\ ~overlapped => routes = UrisOf(registry)

\* "a connector can be pushed without dropping the node's other routes": while
\* only merges are under way, one after the other, no route and no pattern of
\* the allow-list is lost.
OnlyMerges == \A d \in Deploys : Active(d) => body[d].merge
MergeKeeps ==
    [][OnlyMerges /\ ~overlapped /\ restarts' = restarts =>
          UrisOf(registry) \subseteq UrisOf(registry') /\ allow \subseteq allow']_vars

\* "so the deployed routes survive a restart": what the answer of a deploy reports
\* persisted is well-formed on disk and is what the node serves, and stays so until
\* a deploy changes it or opens the file again, unless deploys overlapped.  Opening
\* a file or writing it may fail; the deploy is answered 200 all the same, and may
\* have torn what an earlier one had reported.
PersistedSurvives == ~overlapped =>
    /\ "registry" \notin unsaved => "registry" \notin torn /\ file = registry
    /\ "config" \notin unsaved => "config" \notin torn /\ config = allow

-----------------------------------------------------------------------------
(* What the repository says of the node and the code does not do.          *)

\* "A 409 on any route, or an etag/generation change [...] means the registry
\* was hot-swapped under the probe".
ChurnIsReal == verdict = "churned" => touched
=============================================================================
