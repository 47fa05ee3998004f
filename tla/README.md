# urirun in TLA+

TLA+ models of `urirun`, the runtime that turns URIs into calls of connectors, runs
flows of such calls, and serves them from nodes. The modules here are translated from
the Python adapter (`src/adapters/python/`), which is the implementation that runs
nodes and flows; paths below are relative to that directory. `PROJECT.json` lists the
runs, the mapping of every definition to source lines, the hazards and the theorems.

* [1. The system](#1-the-system): inventory of components
* [2. Modules](#2-modules): what models what
* [3. Runs](#3-runs): what is checked, in which bounds
* [4. Fairness](#4-fairness)
* [5. Proofs](#5-proofs)
* [6. Where the code and its documentation disagree](#6-where-the-code-and-its-documentation-disagree)
* [7. Not modelled](#7-not-modelled)
* [8. Plan](#8-plan)

## 1. The system

A *connector* offers URIs (`scheme://target/noun/verb/...`), each with a kind (query or
command), a schema and an executor. A *registry* compiles bindings of URIs to executors.
A *node* is an HTTP server that serves one registry: `/run` executes a URI, `/deploy`
changes the registry, `/events` streams what happens. A *host* keeps a list of nodes,
probes them, and plans *flows*: sequences of URIs run by a driver that follows the intent
each reply carries and rolls back what it did when a step fails.

| Component | State | Operations | Talks to |
|---|---|---|---|
| Thin driver, `urirun_flow/flow_thin.py` | position, ledger of inverses, results, timeline, two budgets | dispatch a step, retry, acquire and retry, self-heal, goal check, rollback, circuit break | connectors, through `dispatch_uri` |
| Flow documents, `urirun_flow/flow.py`, `flow_verify.py` | execution, verification, a second ledger | `run_flow_document`: plan, run, verify, compensate | thin driver, reversible engine; `os.environ["URI_SERVICE_MAP"]` shared by the process |
| Reversible engine, `urirun_twin/reversible.py` | ledger of transitions, `twin.state_sig` | `execute`, `rollback`, `rollback_flow` | connectors, a scan route that reads an environment others change |
| Event hub and stream, `urirun_node/server.py`, `client.py` | sequence, ring, subscriber queues; the client's cursor | publish, replay, subscribe, serve; `stream_run`, `watch_loop` with reconnects | all threads of the node publish |
| Runs, `urirun_node/server.py`, `urirun_runtime/progress.py`, `v1.py` | registry of `RunControl`s, child processes | `/run`, `run://<id>/command/cancel` | event hub, the operating system |
| Surface, `urirun_node/server.py`; `host probe`, `urirun/host/node_cli.py` | registry, routes, generation, allow-list, registry file, config file | `/deploy`, `/routes`, `/health`, pinned `/run`, start | deploys and runs are threads of one process without a lock |
| Twin store, `urirun_twin/twin_store.py` | a mirror per handle, one JSON file: known-good and degraded flows, environments, sessions | remember a flow or an environment, drift query, session start/append/commit, each with a whole-file flush | threads and processes with a handle each |
| Worker pools, `urirun_runtime/worker.py` | a process per connector, its pipe, its lock | look up or start a pool, write a request, read a line | the threads of a node, connector processes |
| Daemon, `urirun_runtime/daemon.py` | a socket file, a backlog, one connection | bind, accept, answer, clean up; `call` with a timeout | light clients, other daemons on the same path |
| Policy gate, `urirun_runtime/v2.py` | none (registry in, verdict out) | validate, decide, dry-run or execute | registry, executors |
| Recovery, `urirun_flow/recovery.py`, `diagnostics.py` | attempts | classify an error, retry, remediate once | thin driver (legacy path) |
| Document archive, `urirun_scanner/scanner_bridge.py`, `document_sync.py` | staging directory, open series, `index.json`, PDFs, sidecars, scanned-id log | capture, best frame of a series, archive, enrich, supersede, prune, reconcile | threads of the dashboard; the user moves files |
| Document sync, `urirun_scanner/document_sync.py`; file transfer, `urirun/host/fs_transfer.py` | what was listed, acknowledged, verified | list, upload, read back, report, repeat; `write_b64` to a free name | the archive that changes meanwhile, a process per upload on the node |
| Task queue, `urirun/host/host_db.py`, `task_planner.py` | SQLite, planfiles | claim, complete | several host processes |
| The rest (compilation, planners, bridges, command line, secrets, dashboards) | pure, or one call each | | |

What is hard here: a node is a threaded server whose shared state (`state`, `runs`, the
hub) is changed field by field with a lock only inside the hub; connections break and
clients resume by cursor; child processes are killed by a timer and by a cancel that may
come first; a process may die between the change of its state and the write of a file;
handles and daemons that know nothing of each other share one file or one socket path; an upload
outlives the call that waits for it;
and a flow acts on a world it only knows from replies, which may fail after the fact, lie,
or get lost. A test runs one interleaving of these, and the tests of the repository run
the quiet one.

What makes each part correct:

* **Driver and engine.** The ledger is the truth about what can still be undone, in
  order; undo is last-in first-out; nothing is recorded once it began; the verdict says
  what is left. No irreversible step follows a degraded one. Every flow ends.
* **Flow document.** A run reported ok was not compensated; the rebuilt ledger is the
  driver's; a compensation that answers ok left nothing it knew of.
* **Event stream.** A follower gets nothing twice, keeps the order of a run, and knows
  every way an event can be missed; a dead subscription is dropped; a follower of a run
  returns.
* **Runs.** The registry holds exactly the runs in flight under their ids; a cancel that is
  answered before the run ended takes effect, but for the timer and the moment before the process is
  registered; every run ends.
* **Surface.** Listed routes are served routes; what a deploy reports persisted
  survives a restart, until a later deploy opens the file; a merge loses nothing; the probe's verdict means what it says, both ways.
* **Twin store.** What is remembered stays in the file, unless a handle that read the file
  before, or could not read it, writes after; a degraded run or a drift query never replaces a known-good record; a
  session keeps its steps in order.
* **Worker pools.** A call gets the answer to its own request; it fails only when no
  worker could be started or for a cause in the worker that served it; every call returns.
* **Daemon.** It ends because it was told to, or because of the two holes its error handling has (a
  client that left, an `accept` that raises); a listening daemon is found at its path, until another
  is started or one it met removes the file; every call ends.
* **Document archive.** One record per paper, whose PDF is there; a frame thrown away as a
  duplicate had its paper archived; a replacement keeps what the old document knew; the
  staging directory keeps the frames that are still needed; a request ends.
* **Document sync.** A sync that reports ok copied every PDF it listed, with the bytes it read; a
  file on the node is replaced only when that was asked for or the name was free when it was
  chosen; a sync ends, and one that reports a failure had a reason to.

## 2. Modules

Every `MC*` module holds only the constants of small instances; every `*_proofs` module
the theorems of one or two components (`Flow_proofs`: ThinDriver and FlowDocument; `Workers_proofs`:
ConnectorPools and Daemon; `Documents_proofs`: DocumentSync and DocumentArchive). Definitions that begin with a comment *Mutant:* are
plausible bugs next to the definition they change; no specification uses them.

### Saga: the abstract specification

Two variables, the `log` of undoable effects and the `phase`. While a flow runs the log
only grows at its end; from the moment it undoes, it only shrinks there; it ends
committed, abandoned, undone (with an empty log) or stuck. Both engines implement it.

### ThinDriver

`_thin_driver` is a loop on one thread: `pc` is where it is (`loop`, `retry`, `ensure`,
`goal`, `rollback`), `pos` is `envelope.position`, and `ledger`, `retriesUsed`,
`remediationsUsed` are the envelope's fields. A dispatch is one remote call and one
action, and its reply is any of `Replies`: transport ok, the action's own ok, the
intent (`next.kind`), healed, an inverse, degraded, and whether the mutation really took place, which
the driver cannot see. Mutations are numbered; `world` holds the ones in place and
`reported` those whose reply carried an inverse.

| Action | Code |
|---|---|
| `CircuitBreak` | `_thin_circuit_break` at the head of the loop; wall-clock expiry is a choice |
| `CheckStepDeps` | missing dependency: return without rollback |
| `SkipIrreversible` | the guard against degraded results |
| `OptionalStep`, `MandatoryStep` | `_thin_dispatch_step` and the folding of an inner failure, the ledger, the intent |
| `RetryOnce`, `AcquireThenRetry`, `AcquireBlocked` | `_thin_retry_once` and the acquire branch |
| `GoalMet`, `GoalFailed` | goal verification after the last step |
| `UndoLast`, `UndoFails`, `RollbackDone` | `_thin_rollback`, one dispatched inverse per action |
| `DispatchRaises`, `CallRaises`, `InverseRaises` | an exception of the transport, before or after the effect |

### FlowDocument

EXTENDS ThinDriver: `run_flow_document` once the driver returned. `VerifyFlow` is
verification, `ledger_from_execution` (`Rebuilt`, the loop over the timeline as a recursive
function, with `Carries` for the entries it takes) and `_should_compensate`; `CompensateLast`,
`ScanRaises` and `CompensationDone` are `_apply_compensation`, with the path that starts
over without a proof when the scan raises. `twice` records every inverse that is
dispatched for a mutation that is already gone.

### ReversibleProcess

`execute` and the three ways the ledger is rolled back: `stepwise` (`rollback`: re-scan
after each inverse and compare), `whole` (`rollback_flow` with the state the caller gives),
and `unproved` (`rollback_flow` as `flow.py` calls it, without a state to compare with).
A call and the re-scan after it are two actions, with `Drift` in between: the
environment as others change it is one of `0..MaxDrift`, and may go back to what it was, which
no comparison of states can see. `calm` records that nobody did so while a rollback ran. Connectors may fail before or after the effect, answer ok and do nothing, break
their declaration, or raise.

### EventStream

`Publish` is the part of `EventHub.publish` under the lock and `Deliver` one `put_nowait`
outside it. A connection's handler goes `requested`, `resolved` (cursor read), `replay`
(one frame per `ReplayOne`), `live` (after `Subscribe`), `dead` (`Fail`: a write to a
closed socket). `wire` is what the socket buffers. The client is one of two followers,
`stream_run` (cursor is the maximum seen, one run, ends at the result) or `watch_loop`
(cursor is the last id seen); `Drop` breaks its connection at any time and `Connect` resumes.
History variable `lost` names why an event will never arrive: `gap`, `full`, `evicted`,
`overtaken`.

### NodeRuns

One thread per `/run`: `Name` (reads the hub's id, takes nothing), `Enter` and `Leave`
(the registry), `Refuse`, `Spawn`, `Register`, `End`, `EndRaises` (the timer's exception,
which leaves the status untouched and publishes nothing), `Publish`. `Exit`,
`OrphanExits` and `Timeout` are the process, its child and the timer. A cancel is
`Lookup`, `SetFlag`, `Kill`, each a step of its own thread; `heard` is what had happened when it was
answered: `early` (nothing was registered to kill), `killed`, or `late` (the run had ended). Commands are told apart by how
they end: `plain`, `noisy` (fills the error pipe nobody reads) and `forking` (its child
holds the output open).

### NodeDeploy

`apply_deploy` and the two functions that persist
its result (`_persist_registry`, `_persist_allow_config`), one assignment at a time, for each deploy on its own
thread: `PushCode`, `Refuse`, `Build` (reads the registry), `SwapRegistry`, `SwapRoutes`,
`ReadGeneration`/`WriteGeneration`, `ReadAllow`/`WriteAllow`, `OpenFile` (truncates the registry
file), `WriteFile` (whatever registry was served when it was opened), `LoadConfig`, `TakeAllow`,
`OpenConfig` (truncates), `WriteConfig`, `Answer`. Opening and writing may fail each; the exception is caught, the
file stays as it was or `torn`, and the answer is 200 all the same, with what it `says` is persisted. Two
writers that have a file open at once (`shared`) may leave a mixture. `host probe` is
`Snapshot`/`SnapshotGeneration` (the `/routes` payload), for each route `Validate` (the pin)
and `Execute` (the registry it runs on), `Health`, `Verdict`. `Restart` kills whatever is
under way and starts from the files; with a torn one the node does not start. History variables
record overlap, the four `Excuses`, and in `unsaved` the files whose content nobody has reported
persisted since it was last touched.

### TwinStore

A handle opens (`Open`: the mirror becomes what the file holds, or empty when the file cannot be read or
parsed; `create` writes the namespaces it lacks, one flush each), makes one write on its mirror and
flushes the whole mirror (`Replace`, the atomic end of `_flush`), or fails to (`FlushFails`, the mirror keeps
the write), and goes away at any step (`Close`). The writes are the operations of `TwinMemory`:
`RememberFlow`, `Remember`, `DriftQuery`, `SessionStart`, `SessionAppend`, `SessionCommit`. Three history
variables say what the file ought to hold: `due` takes every write as if it were made on one store; `dirty`
are the keys a handle has still to flush; `missed` are those of which it does not know the
value that is due, because another wrote them after it read the file or because it could not read
it. Only the flush of a handle with a missed key moves `due` back to what it then puts in the file.

### ConnectorPools

A thread goes `idle`, `start` (no pool found: `Start` makes the process, `Store` puts it in
`_pools`, over another's if two threads raced), `take` (the second look-up), `lock`, `write`, `read`. `Start` may find that the
process cannot be created (the call raises), that it dies while it imports its connector, or that the import
prints: then that line is taken for the ready line, and the ready line stays in the pipe.
A line names its call only for the properties; the code matches request and answer by order.
`Serve` writes the answer, which a line of something else may precede or follow: what a handler prints
(its worker does not redirect that), or what a process started by a connector prints, which no redirection
inside Python catches. `printed` are the workers with such a line. `Die` is a worker's death at any time, `Collect` the garbage collection of
a replaced pool, which closes its pipe.

### Daemon

`serve` is a loop: `accept`, `read`, `run`, then one of `reply`, `goodbye` (acknowledges the
shutdown) or `error`, each a send that raises when the client has left; `close`, `unlink`,
`ended`. Starting is two steps, since two daemons may start at once: `Clear` removes what is at the
path, `Bind` takes it, or raises when another has. `Accept` may raise, out of the loop; `RemovePath`
removes whatever is at the path by then, `Kill` leaves the file behind. A client connects, sends, leaves (a
timeout) or sees its connection dropped. History: `met` are the daemons that ran when one bound the
path, `overtaken` those that ran when another was started, `removed` those that removed the file at their end.

### DocumentArchive

One actor per photographed frame: `Stage`, `Candidate` (it joins a series) or `Capture`, `Reject`;
`Take` pops a series for its best frame and `Finish` goes on with it. The archive under
`_DOCUMENT_INDEX_LOCK` is `Acquire` (load, complete the log, match by paper or id; an index that cannot be
read or parsed loads as empty, and is saved over), then
`Enrich`/`Discard` for a duplicate, or `Replace` for a better frame of an archived paper, `WritePdf`,
`WriteSidecar`, `SaveIndex` and `AppendLog`. `Fail` is whatever raises in between. Around it:
the pruning of the staging directory, `Reconcile`, a user who removes files, and a `Crash`. Pruning is
`PruneIndex` and `PruneSeries`, which collect what to keep (nothing, from an index or a series that cannot be
read), and then one `PruneFile` for each frame it deletes, with anything in between. `unkept` are the
frames it took although they were needed, or may be: those whose request was not over, or whose record it did
not see, at its first look. `archived` are the frames whose paper's record every load since then has seen. A crop and its
original are one frame and metadata is a set of recognised fields. Similarity is exact: the same
paper or the same id.

### DocumentSync

A sync lists the archive (`List`), uploads file by file (`Ask`, then `Acknowledged` or
`Unanswered`), reads back (`ReadBack`), and reports; the chat message of any report may raise (`EndAs`), and
so may the reading of a PDF, be it gone or unreadable (`Ask`): such a sync ends as `raised`. `Retry` is the
chat's repetition. `troubled` are the syncs with a missing route, a call that failed, or a file of their
own that another upload wrote over. An upload is
a record of its own on the node: `Name` chooses a name (`_unique_path`, or the name itself when
overwriting) and `Write` replaces what is there. An upload whose call timed out may go on at
any later time. `Supersede` is the archive changing meanwhile. `beaten` marks an upload whose
free name was taken by another before it wrote.

## 3. Runs

| Run | Instance | Shows |
|---|---|---|
| `ThinDriver` | 3 three-step plans (plain, optional, irreversible, dependent), 13 kinds of reply, 1 retry, 0 remediations, inverses that work, fail or lose their answer | ledger against world, clean rollback, the guard, refinement of Saga, termination |
| `FlowDocument` | 3 plans, 5 replies with and without retries, inverses that may also be refused under a transport that answers ok | the two ledgers, verification against compensation, what a compensation clears |
| `ReversibleProcess` | 3 flows, 6 answers, 4 kinds of inverse, 3 rollbacks, outside changes between 3 states, back and forth | what a proved return proves, with and without outside changes; refinement of Saga |
| `EventStream` | 2 publishers, 2 connections, 3 events, ring 2, queue 1, wire 1, both followers | no duplicates, order, causes of loss, return of `stream_run` |
| `NodeRuns` | a named and two unnamed runs, one of each command, one cancel at any time, hub events counted up to 1 | no control outlives its run, what an answered cancel is worth, every run ends |
| `NodeDeploy` | 2 deploys of any of 4 bodies (merge, persisted replacement with policy, persisted code with merged policy, one that does not compile), 2 routes, 1 probe, 1 restart, any open or write may fail | the probe's verdict both ways, settled surface, merges, persistence |
| `TwinStore` | 2 handles, 4 writes, 1 flow, 1 node, 1 session, 2 clean and 1 degraded run, 2 environments; symmetric handles and values | known-good records and sessions stay, but for the flush of a handle that read the file too early or not at all |
| `ConnectorPools` | 2 threads with 2 calls, a command line connector and the handlers, 3 processes, 1 line printed by something else | whose answer a call gets, why it fails, that it returns |
| `ConnectorPools_chatter` | the same | a handler that prints shifts the answers of its worker (section 6) |
| `Daemon` | 2 daemons on one path, 3 calls, one of them the shutdown | what ends a daemon, who is found at the path, every call ends |
| `DocumentArchive` | 3 frames of one paper (different fields, two ids, one poor picture), 1 series, 1 crash, 1 pruning of 1 frame | one record per paper, its PDF, merges, duplicates, staging, every request ends |
| `DocumentSync` | 2 PDFs of which one changes, 2 syncs, one overwriting and repeated, 1 late upload, 2 names per file | what ok means, what may be replaced, why a sync fails, every sync ends |

**Bounds, and why they are enough.** The driver keeps one retry and one intent per step,
so a step's history is at most two replies; three steps hold a step to undo, one to fail and one
in between, and one retry puts the breaker on both sides of its limit. Remediations
spend the same kind of counter; `FlowDocument` has one. The
engine compares a state with the one before a step, so two recorded mutations and three states of
what others change (with changes that are taken back) meet every comparison. In the stream a loss
takes one event beyond a ring or a queue, an overtaking takes two publishers, and a resumed
stream takes two connections: three events over a queue of one and a ring of two reach all
four reasons for a loss, and the mutants show that the properties see each mechanism. In
`NodeRuns` a shared id takes two runs, and a third one with a name of its own must be
unaffected by them. The properties of `NodeDeploy` about deploys alone relate the fields two deploys
write, so two reach their races; what takes three (see `StableIsHonest` below) is
covered by the theorem. Names of deploys and their order are interchangeable, so `NodeDeploy` uses
symmetry on deploys, and no liveness property.
In `TwinStore` a lost write takes a handle that opened before another's flush, one write of
each, and a flush; with four writes two of them can be on one key and the two others of
another kind. In `ConnectorPools` a shifted answer takes one call that prints and one after it, and a
replaced pool takes two threads; three processes are a race on one connector and a worker of the other
beside it, and one stray line shifts everything after it. `Daemon` needs one predecessor and one successor, a client to end the first, one to
leave, and one that waits; the two may also start, serve and end beside each other. `DocumentArchive` has a frame to archive, one that replaces it, and one that
is a duplicate of either; the same paper under two ids, and under one, go through
the same match; one pruning with one frame that is old enough meets each of them at every step, and a
second frame is deleted like the first. `DocumentSync` has two uploads that want one name, a late one, and a name
that becomes free or taken; a PDF that does not change is the control.
Bounds are constants: `MaxDrift`, `MaxEvents`, `MaxConns`, `MaxSeq`, `MaxRestarts`, `MaxWrites`,
`MaxWorkers`, `MaxCalls`, `MaxPrints`, `MaxCrashes`, `MaxPrunings`, `MaxOld`, `MaxVersion`, `MaxCopies`, `MaxLate`; the
proofs hold for all their values. `MaxRetries` and `MaxRemediations` are parameters of the
code. `TwinStore` is checked for deadlock (a handle
can always open or close); in every other run the system may really stop: a flow, a run, a sync and a probe end,
and the bounds stop the rest.

**What the preconditions mean.** `LedgerMatchesWorld` and `RollbackCleans` of the driver (and `LifoUndo`, proved) hold for
connectors that do not answer a refused inverse under a transport that says ok: the rollback reads
only the transport's `ok` (`flow_thin.py:198`), so such an inverse counts as undone.
`FlowDocument`, whose own compensation does look at the inner result, runs with refusals.
`RestoredReturn` says two things: a stepwise return that answers ok stands in the very state before the
first mutation, and, if nobody else moved the environment while it ran, nobody had since in a
way a step could see. A change that was taken back is invisible to the comparison (`reversible.py:196`).
`LedgersAgree` excludes retries (their timeline id is in no result,
`reversible.py:291`) and optional steps with an inverse (never in the driver's ledger).
`OnlyLastUnrecorded`, proved for the engine, says exactly which mutation the engine may lose.
`ReturnsUnlessLost` excuses the loss of the followed run's own result and of nothing else.
`CancelTakesEffect` names what an answered cancel is not worth: one before `register_proc` leaves the process
alive, and a run whose timer fired raises with its status `running`.
`NothingElseMissed` is the honest form of "nothing is missed": it lists the four
causes. `StableIsHonest` lists four excuses: `recount` is a
generation that overlapping deploys count twice, `refused` the code a rejected deploy leaves
behind without a new generation, `restart` the counter that starts at 1 again, `in_flight` a deploy
that has not written its generation at the verdict. The last three are reached in the run;
`recount` alone makes a verdict dishonest only from three deploys on (one holds an old number while two
others count), which is beyond the run's instance and inside the theorem's.
`PersistedSurvives` speaks of deploys that do not overlap and of what an answer reported; a later deploy that
opens the file and fails to write it ends that, with an answer 200.
`KnownGoodSurvives` and `SessionsSurvive` except keys that a handle has still to flush; a flush by a handle that
read the file before a write, or could not read it, undoes that write, which is a
property of the design (a mirror per handle) and not an error the handle could notice; the write after it is
kept again.
`OwnAnswerIfQuiet` excepts workers on whose output something else printed, of which finding 1 of section 6
is one case; `FailureHasCause` names those, workers that died, and processes that could not be started.
`EndHasCause` names the client that left before its answer (section 6) and an `accept` that raised.
`FoundAtPath` leaves out a daemon after whose own start another was started, and one that met a
daemon which has since removed the file at its end: `_cleanup` does not look whose it is. A killed
daemon, a start that fails and a stale file are no excuse.
`ReplacingKeepsFields` speaks of frames whose paper's record every later archiving has loaded: a request that could
not read the index saves a new one, and the records of the old one are gone (`document_sync.py:640`).
`FramesOfRecordsStay` leaves out the frames of `unkept`: a record saved after a pruning has read the index
does not keep it from deleting its frame, but only if the frame's request was under way at that time.
`FailsForAReason` names the reasons: a route that was missing, a call that failed, a file written over before it was
read back. A report may still get lost: the chat message is written outside every `try` (`document_sync.py:320`).
`RecordsHaveTheirPdf` leaves out what the user removed and what a replacement that broke off
destroyed: the old PDF is deleted before the new one is written (`document_sync.py:1244`).
`OkMeansCopied` leaves out paths that another upload wrote after they were verified.

## 4. Fairness

* ThinDriver: `WF_vars(Next)`. The transport has a timeout, so a call returns or raises,
  and the driver is one thread with nothing to wait for.
* EventStream: weak fairness of a publisher's puts (`put_nowait` never blocks), of each
  handler thread, of the client's reads and of its reconnect loop. Nothing forces a run to
  publish or a connection to break.
* NodeRuns: weak fairness of each run's thread, of its timer and of a cancel once it has
  found its run. A process may run for ever: `Exit` is not fair, the timer is. A child left
  behind has no bound in the code, so `RunsEnd` leaves `forking` commands out.
* ConnectorPools: weak fairness of a thread's steps in its call and of a worker that is up and has
  a request: a handler that never returns blocks its pool, and the code has no timeout there. Weak
  fairness of `Acquire` is enough since a thread makes finitely many calls.
* Daemon: weak fairness of the serving loop, of the client's send and of its noticing a closed
  connection. The client's timeout is not fair, so `CallsEnd` does not rest on it.
* DocumentArchive: weak fairness of each request's thread. Pruning, users, series that are
  finished, and crashes owe nothing.
* DocumentSync: weak fairness of each sync; `Unanswered` is the transport's timeout, so an upload
  need not be fair.
* FlowDocument, ReversibleProcess, NodeDeploy, TwinStore: none; their properties are safety.

## 5. Proofs

`tlapm` checks eight proof modules, for every value of the constants that their `ASSUME`s
allow: plans and replies of the right shape, the connector contract (only a
mutation that took place returns an inverse), positive sizes, `Run` a publisher, sets of
identifiers that do not meet, and frames with one document id showing one paper. TLC evaluates those
assumptions in every run. Every safety invariant and every action property that a run checks is stated
by a theorem; what is left to TLC is liveness.

Each inductive invariant below was an invariant of a run before it was proved.

* **Flow_proofs, the driver.** `TypeCorrect`; `DriverInvariant`, the inductive invariant
  `DriverInv`: the ledger lists distinct reported mutations in order, `undone` is its tail
  backwards, what is pending is in the world and what was passed is not, nothing was undone before
  a rollback, budgets are overrun by at most one, and steps beyond the position have no
  result. Type correctness alone is not enough for any of it: that a rollback
  leaves a prefix needs to know that `undone` mirrors the tail. From it `LedgerSafe`, `RollbackIsClean`,
  `BudgetsSafe`, `UndoIsLifo`, `IrreversibleGuarded` (with the guard's own strengthening:
  a step that waits for its retry has been dispatched already) and
  `DriverImplementsSaga`, step by step. `EveryStepCounts` is the safety half of `Terminates`: every
  step lowers `StepsLeft`, a natural number (eight for each step of the plan that is left, a rank of
  the place in the loop, and the inverses a rollback would dispatch), so that a flow of n steps
  makes at most 8n + 6 of them whatever is answered.
* **Flow_proofs, the document.** `DocumentInvariant`: `DocInv` holds `DriverInv` while the driver
  runs and adds three parts. `RecordInv` says where results and timeline entries come from: a step's entry
  precedes the loop's position, and the ok result of a mutation has an entry. `AgreeInv` is
  `LedgersAgree` at every step of the driver and not only at its end; its step needs what one more entry
  does to `ledger_from_execution`, hence an induction over the loop: `RebuiltIsLoop`, `RebuiltAppends` and
  `RebuiltCovers` do it from the well-foundedness of the naturals (`SetInduction`), since the library's
  induction theorems cannot be instantiated. `StageInv` follows the verification and the
  compensation: what has been passed of the second ledger is no longer in place. From it `DocTypeCorrect`,
  `OkRunsKeepEverything`, `BothLedgersAgree` and `CompensationIsClean`.
* **ReversibleProcess_proofs.** `TypeCorrect`; `EngineInvariant`, in three parts:
  transitions are ordered by mutation and by foreign changes, each begins in a state without its own
  mutation; everything but the last mutation is recorded; and the stepwise rollback stands in the
  state before the step it last undid. From it `OnlyLastLost`, `StepwiseProves`,
  `ReturnIsClean` and `ReturnIsRestored`. `EngineImplementsSaga`, step by step: the
  abstract log is the recorded mutations that are not undone, which a step extends by its own
  mutation and a rollback shortens from its end.
* **EventStream_proofs.** `TypeCorrect` with the bound of the queues; `StreamInvariant`: what is on its
  way to the current connection (in a publisher's hands, a queue, a replay, the wire) was
  not yielded and is on its way once only. `YieldsOnce` follows. `OrderInvariant`: the events of
  the followed run are in the order of their ids from the client back through the wire and the queue to the
  put its publisher is at, and the cursor is one of those yielded; it gives `YieldsInOrder` and
  `NeverOvertaken` (what is in flight at a drop lies above the cursor, so the next replay has it).
  `CoverInvariant`, for both clients: once a handler has its replay, every matching event since the stream began
  is yielded, in flight or lost for one of the four reasons, and up to then those below the cursor are; with
  the bounds on where ids can be (`PlaceInv`) it gives `MissesForAReason`.
* **NodeRuns_proofs.** `TypeCorrect`, `RegistryHasNoStaleControl`,
  `UnsharedRunsAreAddressable`, which needs that an id once taken is never changed, and
  `CancelsTakeEffect`, from three parts: a canceller past its `SetFlag` has set the flag of the very control
  it found, and nothing clears one (`FlagInv`); a registered process is being read or its run has ended, and no
  process of an ended run is alive (`StageInv`); and each answer stays true of what it knew (`HeardInv`).
* **NodeDeploy_proofs.** `TypeCorrect`; an invariant `Orderly` that holds until two
  deploys overlap: at most one deploy is active, its reads still match the state, the
  routes lag the registry only between its two assignments, and what was reported saved, or is about to be, is
  what the files hold, whole (`SavedHolds`). From it `RoutesSettle`, `SavedSurvives` and `MergesKeep`. `ChurnIsExplained`
  rests on `Quiet`: until a deploy or restart touches the node, the probe sees one
  surface. `StableVerdictIsHonest` rests on `Honest`: while the generation is still the
  snapshot's, either the surface is too or some deploy has changed it and not counted yet.

* **TwinStore_proofs.** `StoreTypeCorrect`; `KnownGoodIsKept` and `SessionsAreKept` for any
  handles and any number of writes. That the file holds what is due is not inductive: the next flush
  writes a mirror, so the invariant `StoreInv` adds that a mirror holds what is due wherever its handle missed
  nothing, that a handle misses what another is about to write (`MirrorCurrent`), and that closed handles have
  nothing pending (`Tidy`). The writes are one case: a lemma about any write that changes one key of one mirror
  and of what is due, to one value unless the handle missed the key.
* **Workers_proofs, the pools.** `AnswersAreOwn` and `FailuresHaveCauses` for any threads, connectors
  and calls. The invariant: a thread between its write and its read alone holds the lock of its pool
  (`LockHeld`), which needs `PoolKnown`; a worker in use ends only by dying (`InUse`), so that a failure without a worker is
  one of `Start`; and a quiet worker
  holds at most one line, the request of the thread that waits or its answer (`LinesTidy`). A worker that
  died may keep a request for ever, the one exception that the induction asks for.
* **Workers_proofs, the daemon.** `DaemonTypeCorrect`, with `ServesAClient`: a daemon past `accept`
  serves a client's connection. `DaemonsEndForACause` (`EndHasCause`) is inductive over it. `DaemonsAreFound`
  (`FoundAtPath`) is not: it needs `MetOnThePath`, that whoever runs beside a listening daemon was started after it
  or was met by it at the bind, or the ending of a forgotten predecessor could remove the path of its successor.
* **Documents_proofs, the sync.** `OkIsCopied`, `FailuresHaveReasons` and `ReplacedAsAsked` for any number of
  PDFs, syncs, names and late uploads. The invariant: the cursor is in its loop (which needs
  the least element of a set of numbers, from well-founded induction's library), what is verified is still
  there or was replaced, an awaited upload belongs to the present try and what is acknowledged lies behind the cursor
  (`TriesInOrder`), a sync without trouble has every file so far on the node as it read it
  (`UntroubledIsRight`), and a name chosen because it was free is free until it is beaten. `SyncsGetOn` is the safety half of `SyncsEnd`: every step of a sync lowers `ToDo`,
  which nothing else raises, so that with its one retry a sync of n PDFs makes at most 6n + 13 steps.
* **Documents_proofs, the archive.** `ArchiveInvariant`, in layers. `ArchiveBase`: a request in the
  section holds the lock (`LockIsHeld`), a candidate waits in one series, a frame has a
  record or a PDF only through its own request, an id has one record, and what the holder of the lock took
  from the index stays true of it until it saves (`HolderMatches`, `HolderWrites`); a frame that a pruning is about to delete has no record and can get
  none any more, or is one the pruning is known to have missed (`DoomedAreOver`). That is what two
  overlapping requests could break and what pruning, the user, reconciliation and errors must leave
  alone. Over it `RecordFilesInv` (a record's PDF and frame), `RecordsInv` (one record per paper,
  merges) and `SeenInv` (the log and the discarded frames). From it `ArchiveTypeCorrect`, `PapersAreFiledOnce`,
  `RecordsPointAtPdfs`, `RecordsKeepFrames`, `ReplacementsKeepFields` and `DuplicatesHaveAnOriginal`, for any
  frames, series, scores and crashes. `PapersAreFiledOnce`, `ReplacementsKeepFields` and
  `DuplicatesHaveAnOriginal` rest on `IdsAssumption`: the id is a digest of the text or of the
  image (`docid_for_file`, `document_sync.py:1086`), so frames with one id show one paper. If two papers
  could share an id, a frame that matches one record by its paper and another by its id would
  leave one of them behind, and TLC shows two records of one paper; the code has no defence but the digest.

**Only model-checked.** Liveness (`Terminates`, `ReturnsUnlessLost`, `RunsEnd`, `CallsReturn`, `CallsEnd`,
`RequestsEnd`, `SyncsEnd`), which is out of the prover's reach, as is `ENABLED`. Of `Terminates` and `SyncsEnd`
the measures above prove what does not need fairness: a driver or a sync never takes infinitely many steps. That a step is
always possible before the end, and taken, is TLC's. The other five wait for another actor (a
timer, a worker's answer, a lock), and have no such measure. Properties without a run of their own (section 6)
are false and have no theorem.

## 6. Where the code and its documentation disagree

One run ends in a counterexample against a sentence of the repository:

1. `ConnectorPools_chatter`: the worker of the handlers runs them without redirecting what they
   print (`worker.py:135`); the first printed line is read as the answer and fails its
   call, and from then on every call on that worker gets the answer of the call before. The
   one-shot `exec.py:92`, whose pooled twin it is, redirects for this very reason.

More such departures are stated as properties next to the modules' own. No configuration
lists them; adding one to the configuration of its module (with the change in brackets) shows a
counterexample.

* `ThinDriver!RollbackCoversReported`: `_thin_retry_once` never enters its reply in the ledger; a later
  rollback passes over the mutation and answers ok (`flow_thin.py:222` against 285).
* `FlowDocument!NoInverseTwice`: the driver has rolled back when the document compensates, and
  every inverse is dispatched again (`flow.py:667` against 665).
* `EventStream!ResultArrives` [one connection, a ring and queues that hold every event]: an event between replay and subscription reaches a client only
  after a drop, which keep-alives prevent (`server.py:751` against `client.py:543`).
* `NodeRuns!EveryRunAddressable`: two unnamed runs take one id and one of them cannot be cancelled
  (`server.py:604` against `progress.py:18`).
* `NodeRuns!CancelledIsKilled`: a cancel before `register_proc` is answered 200 and kills nothing
  (`v1.py:128` against `progress.py:81`).
* `NodeDeploy!ChurnIsReal` [a management route in `Manage`]: `/routes` computes its etag with the management
  routes, the pin check and `/health` without; every probe of such a node reports churn
  (`server.py:416` against `host/node_cli.py:810`).
* `Daemon!EndsWhenTold`: a client that left before its answer makes the send raise, and the
  handler's own error answer raises again, out of the loop (`daemon.py:108` against 107).
* `DocumentArchive!DuplicatesHaveADocument`: a frame is thrown away because of the scanned-id log alone,
  which outlives the records it tells of (`document_sync.py:1294`).

Read on the way, and part of the models, without a run of their own: the rollback reads only
the transport's ok (`flow_thin.py:198`); a circuit break, a missing dependency, a blocked acquire
and a raised exception end a flow without a rollback; the compensation's scan has
no state to compare with (`flow.py:775`) and an exception on that path
starts the whole rollback over; a run that times out keeps the status `running` and
publishes no event; generations repeat when deploys overlap and start again at 1 after a restart;
a refused deploy leaves its code loaded; the registry file is truncated before it is
written, and so is the config, so a node that dies in between does not start; a write of either that fails is
caught, and the deploy answers 200; a twin file or a document index that cannot be read counts as empty and is
written over by the next save; whatever a connector prints while it is imported is taken for the ready line of its
worker and shifts every answer after it (`worker.py:173`); a daemon that ends removes the socket file of whoever
listens there by then.

## 7. Not modelled

* Payload resolution between steps, masking of secrets, proofs and memory of flows: data
  the properties do not tell apart.
* Planners, scoring, scanning and compilation: pure functions of text and documents.
* Access control (tokens, key signatures, policies): out of the scope of this development.
  `/deploy` and `/run` requests in the models are accepted ones.
* Time: a timeout and the breaker's wall clock are choices.
* Twin store: `session_append` writes to a committed session (`twin_store.py:347`); the model has
  it, as an append that looks at no status, and no property forbids it.
* Pools: the asyncio pool, `close` at the end of the process, and a handler that never
  returns; a stray line is no JSON, and before the ready line there is at most one. Daemon: the removal of one
  file by two that start at once, where the second raises, is a start that fails like any other.
* Archive: which frame is the sharper, the fuzzy match of two texts, the naming of PDFs, and the
  page that shows the stream. Sync: `clear=False`, documents other than PDFs, and syncs without a
  read-back.
* Deploy: the adopt route, which copies the allow-list before it deploys (`server.py:659`).
* `os.environ["URI_SERVICE_MAP"]`, which two flows of one process change (`flow.py:434`).
* The rest of the components with status `not_modelled` in `PROJECT.json`, with a reason
  each; of those, the ones with state of their own are on the plan.

## 8. Plan

Done, in the order of importance: Saga, ThinDriver, FlowDocument, ReversibleProcess, EventStream, NodeRuns,
NodeDeploy, TwinStore, ConnectorPools, Daemon, DocumentArchive and DocumentSync. What is left:

1. **NodeDeploy**: the adopt route as an action, with `MergeKeeps` split over it;
   enrolment and the environment a deploy sets.
2. **TaskQueue** (`host_db.py`, `task_planner.py`): claims over SQLite by several workers.
3. A composition of NodeRuns and EventStream: a run's events reach its follower in the
   order of the run's life, and a cancelled run's follower returns.
4. **Recovery** as the source of ThinDriver's `retry`/`acquire` intents, composed with it.
5. **RunGate** (`v2.run`): order of validation, policy, dry run and execution, with the
   dispatch fallback of `v2_service`; nothing executes in a dry run.

Theorems to add: a measure for requests of the archive and for calls of the pools (their own steps are
bounded, what they wait for is not), and the correctness of whatever items 1 to 3 add.
