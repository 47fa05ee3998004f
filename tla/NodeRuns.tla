------------------------------ MODULE NodeRuns ------------------------------
(***************************************************************************)
(* The runs of a node: the thread of every /run request in                 *)
(* urirun_node/server.py with its RunControl (urirun_runtime/progress.py)  *)
(* and the streamed child process of urirun_runtime/v1.py, and the threads *)
(* of run://<id>/command/cancel.                                           *)
(*                                                                         *)
(* A run names itself, is entered in the registry under its name, starts a *)
(* process, registers it for a cancel, reads its output to the end, and    *)
(* leaves the registry.  A run without a name takes the next event id of   *)
(* the hub, which its first event uses up later.                           *)
(*                                                                         *)
(* A command is told apart by how it ends: "plain" ends by itself, "noisy" *)
(* fills its error pipe, which nobody reads before the output ends, and    *)
(* waits for ever, "forking" leaves a child behind that holds the output   *)
(* open, as a shell does.  Every command has a timer (the default policy). *)
(***************************************************************************)
EXTENDS Naturals, FiniteSets

CONSTANTS
    Requests,    \* the requests of /run
    Cancellers,  \* the requests of run://<id>/command/cancel
    Names,       \* run ids callers choose
    Anonymous,        \* "the caller chose none"
    NameOf,      \* the choice of each request
    CommandOf,   \* the command each one runs
    NoRun,       \* "no control"
    MaxSeq       \* bound: events of the hub

Commands == {"plain", "noisy", "forking"}

ASSUME NameAssumption == Anonymous \notin Names /\ NameOf \in [Requests -> Names \cup {Anonymous}]
ASSUME CommandAssumption == CommandOf \in [Requests -> Commands]
ASSUME NoRunAssumption == NoRun \notin Requests
ASSUME MaxSeqAssumption == MaxSeq \in Nat

VARIABLES
    seq,        \* the hub's last event id
    runs,       \* the registry: entries of an id and the run it stands for
    pc,         \* where each request's thread is
    id,         \* the id it runs under
    proc,       \* its process: "none", "alive" or "dead"
    timedOut,   \* its timer has fired
    orphan,     \* its child holds the output open
    registered, \* the process is known to its control
    cancel,     \* its control's cancel flag
    status,     \* its control's status
    ctrl,       \* the control each canceller looked up
    cpc,        \* where the canceller is; in the end its answer
    heard       \* history: what the run's thread had done when it was answered

runVars == <<runs, pc, id, registered, status>>
procVars == <<proc, timedOut, orphan>>
vars == <<seq, runVars, procVars, cancel, ctrl, cpc, heard>>

Ids == Names \cup Nat
\* From its entry in the registry until it leaves it.
Active(r) == pc[r] \in {"entered", "spawned", "reading", "ended", "published"}
\* Its status is settled.
Ended(r) == pc[r] \in {"ended", "published", "done"}

Init == /\ seq = 0
        /\ runs = {}
        /\ pc = [r \in Requests |-> "new"]
        /\ id = [r \in Requests |-> 0]
        /\ proc = [r \in Requests |-> "none"]
        /\ timedOut = [r \in Requests |-> FALSE]
        /\ orphan = [r \in Requests |-> FALSE]
        /\ registered = [r \in Requests |-> FALSE]
        /\ cancel = [r \in Requests |-> FALSE]
        /\ status = [r \in Requests |-> "running"]
        /\ ctrl = [k \in Cancellers |-> NoRun]
        /\ cpc = [k \in Cancellers |-> "new"]
        /\ heard = [k \in Cancellers |-> "no"]

Goto(r, from, to) == pc[r] = from /\ pc' = [pc EXCEPT ![r] = to]

-----------------------------------------------------------------------------
(* A run.                                                                  *)

\* _create_run_control reads the hub's id without taking it.
Name(r) ==
    /\ Goto(r, "new", "named")
    /\ id' = [id EXCEPT ![r] = IF NameOf[r] = Anonymous THEN seq + 1 ELSE NameOf[r]]
    /\ UNCHANGED <<seq, runs, procVars, registered, cancel, status, ctrl, cpc, heard>>

\* c.runs[run_id] = ctrl: whoever had the id before has lost it.
Enter(r) ==
    /\ Goto(r, "named", "entered")
    /\ runs' = {e \in runs : e.key # id[r]} \cup {[key |-> id[r], run |-> r]}
    /\ UNCHANGED <<seq, id, procVars, registered, cancel, status, ctrl, cpc, heard>>

\* The policy, the schema or a confirmation refuses the run.
Refuse(r) ==
    /\ Goto(r, "entered", "ended")
    /\ status' = [status EXCEPT ![r] = IF cancel[r] THEN "cancelled" ELSE "done"]
    /\ UNCHANGED <<seq, runs, id, procVars, registered, cancel, ctrl, cpc, heard>>

Spawn(r) ==
    /\ Goto(r, "entered", "spawned")
    /\ proc' = [proc EXCEPT ![r] = "alive"]
    /\ orphan' = [orphan EXCEPT ![r] = CommandOf[r] = "forking"]
    /\ UNCHANGED <<seq, runs, id, timedOut, registered, cancel, status, ctrl, cpc, heard>>

\* register_proc, and the timer with it.
Register(r) ==
    /\ Goto(r, "spawned", "reading")
    /\ registered' = [registered EXCEPT ![r] = TRUE]
    /\ UNCHANGED <<seq, runs, id, procVars, cancel, status, ctrl, cpc, heard>>

\* A line of output, streamed as an event.
Progress(r) ==
    /\ pc[r] = "reading" /\ proc[r] = "alive"
    /\ seq < MaxSeq
    /\ seq' = seq + 1
    /\ UNCHANGED <<runVars, procVars, cancel, ctrl, cpc, heard>>

\* The process ends by itself; one that fills its error pipe cannot.
Exit(r) ==
    /\ proc[r] = "alive" /\ CommandOf[r] # "noisy"
    /\ proc' = [proc EXCEPT ![r] = "dead"]
    /\ UNCHANGED <<seq, runVars, timedOut, orphan, cancel, ctrl, cpc, heard>>

OrphanExits(r) ==
    /\ orphan[r]
    /\ orphan' = [orphan EXCEPT ![r] = FALSE]
    /\ UNCHANGED <<seq, runVars, proc, timedOut, cancel, ctrl, cpc, heard>>

\* Mutant: no timer is started.
TimeoutNever(r) ==
    /\ FALSE
    /\ UNCHANGED vars

\* The timer kills the process, not its children; it also fires for a process
\* that has ended while its output is held open.
Timeout(r) ==
    /\ pc[r] = "reading" /\ ~timedOut[r]
    /\ timedOut' = [timedOut EXCEPT ![r] = TRUE]
    /\ proc' = [proc EXCEPT ![r] = "dead"]
    /\ UNCHANGED <<seq, runVars, orphan, cancel, ctrl, cpc, heard>>

\* Mutant: the cancel flag is not looked at again.
EndDone(r) ==
    /\ proc[r] = "dead" /\ ~orphan[r] /\ ~timedOut[r]
    /\ Goto(r, "reading", "ended")
    /\ status' = [status EXCEPT ![r] = "done"]
    /\ UNCHANGED <<seq, runs, id, procVars, registered, cancel, ctrl, cpc, heard>>

\* The output ends when nobody holds it open any more.
End(r) ==
    /\ proc[r] = "dead" /\ ~orphan[r] /\ ~timedOut[r]
    /\ Goto(r, "reading", "ended")
    /\ status' = [status EXCEPT ![r] = IF cancel[r] THEN "cancelled" ELSE "done"]
    /\ UNCHANGED <<seq, runs, id, procVars, registered, cancel, ctrl, cpc, heard>>

\* After the timer: TimeoutExpired passes through v2.run, so the
\* status stays "running" and no run event is published.
EndRaises(r) ==
    /\ proc[r] = "dead" /\ ~orphan[r] /\ timedOut[r]
    /\ Goto(r, "reading", "published")
    /\ UNCHANGED <<seq, runs, id, procVars, registered, cancel, status, ctrl, cpc, heard>>

\* _publish_run.
Publish(r) ==
    /\ Goto(r, "ended", "published")
    /\ seq' = IF seq < MaxSeq THEN seq + 1 ELSE seq
    /\ UNCHANGED <<runs, id, procVars, registered, cancel, status, ctrl, cpc, heard>>

\* Mutant: a run that raises, or has lost its id, leaves its entry behind.
LeaveOwn(r) ==
    /\ Goto(r, "published", "done")
    /\ runs' = IF status[r] = "running" THEN runs ELSE runs \ {[key |-> id[r], run |-> r]}
    /\ UNCHANGED <<seq, id, procVars, registered, cancel, status, ctrl, cpc, heard>>

\* c.runs.pop(run_id, None): whoever has the id now loses it.
Leave(r) ==
    /\ Goto(r, "published", "done")
    /\ runs' = {e \in runs : e.key # id[r]}
    /\ UNCHANGED <<seq, id, procVars, registered, cancel, status, ctrl, cpc, heard>>

-----------------------------------------------------------------------------
(* A cancel.                                                               *)

Lookup(k, i) ==
    /\ cpc[k] = "new"
    /\ \/ /\ \E r \in Requests : [key |-> i, run |-> r] \in runs /\ ctrl' = [ctrl EXCEPT ![k] = r]
          /\ cpc' = [cpc EXCEPT ![k] = "found"]
       \/ /\ \A r \in Requests : [key |-> i, run |-> r] \notin runs
          /\ cpc' = [cpc EXCEPT ![k] = "absent"]
          /\ UNCHANGED ctrl
    /\ UNCHANGED <<seq, runVars, procVars, cancel, heard>>

SetFlag(k) ==
    /\ cpc[k] = "found"
    /\ cpc' = [cpc EXCEPT ![k] = "set"]
    /\ cancel' = [cancel EXCEPT ![ctrl[k]] = TRUE]
    /\ UNCHANGED <<seq, runVars, procVars, ctrl, heard>>

\* The processes registered by now are killed, and the answer is 200.
Kill(k) ==
    /\ cpc[k] = "set"
    /\ cpc' = [cpc EXCEPT ![k] = "cancelled"]
    /\ proc' = IF registered[ctrl[k]] THEN [proc EXCEPT ![ctrl[k]] = "dead"] ELSE proc
    /\ heard' = [heard EXCEPT ![k] = IF Ended(ctrl[k]) THEN "late"
                                     ELSE IF registered[ctrl[k]] THEN "killed" ELSE "early"]
    /\ UNCHANGED <<seq, runVars, timedOut, orphan, cancel, ctrl>>

Thread(r) == \/ Name(r) \/ Enter(r) \/ Refuse(r) \/ Spawn(r) \/ Register(r)
             \/ End(r) \/ EndRaises(r) \/ Publish(r) \/ Leave(r)

Next == \/ \E r \in Requests : Thread(r) \/ Progress(r) \/ Exit(r) \/ OrphanExits(r) \/ Timeout(r)
        \/ \E k \in Cancellers : SetFlag(k) \/ Kill(k)
        \/ \E k \in Cancellers, r \in Requests : pc[r] # "new" /\ Lookup(k, id[r])

\* Threads run on and the timer fires; a process may run for ever, and nothing
\* makes a caller cancel.
Fairness == /\ \A r \in Requests : WF_vars(Thread(r)) /\ WF_vars(Timeout(r))
            /\ \A k \in Cancellers : WF_vars(SetFlag(k)) /\ WF_vars(Kill(k))

Spec == Init /\ [][Next]_vars
FairSpec == Spec /\ Fairness

-----------------------------------------------------------------------------
(* Properties.                                                             *)

\* Types, and a registry that is a function.
TypeOK ==
    /\ seq \in Nat
    /\ runs \subseteq [key : Ids, run : Requests]
    /\ \A e, f \in runs : e.key = f.key => e.run = f.run
    /\ pc \in [Requests -> {"new", "named", "entered", "spawned", "reading", "ended",
                            "published", "done"}]
    /\ id \in [Requests -> Ids]
    /\ proc \in [Requests -> {"none", "alive", "dead"}]
    /\ timedOut \in [Requests -> BOOLEAN]
    /\ orphan \in [Requests -> BOOLEAN]
    /\ registered \in [Requests -> BOOLEAN]
    /\ cancel \in [Requests -> BOOLEAN]
    /\ status \in [Requests -> {"running", "done", "cancelled"}]
    /\ ctrl \in [Cancellers -> Requests \cup {NoRun}]
    /\ cpc \in [Cancellers -> {"new", "found", "set", "cancelled", "absent"}]
    /\ \A k \in Cancellers : cpc[k] \in {"found", "set", "cancelled"} => ctrl[k] # NoRun
    /\ heard \in [Cancellers -> {"no", "early", "killed", "late"}]
    /\ \A k \in Cancellers : heard[k] # "no" => cpc[k] = "cancelled"

\* Whatever ids the runs have, the registry holds no run that has left it and
\* none under another run's id: it never leaks a control.
NoStaleControl ==
    \A e \in runs : Active(e.run) /\ id[e.run] = e.key

\* A run in flight can be cancelled and inspected under its id, as long as no
\* other run has ever taken the same id.
Unshared(r) == \A q \in Requests \ {r} : pc[q] # "new" => id[q] # id[r]
Addressable ==
    \A r \in Requests : Active(r) /\ Unshared(r) => [key |-> id[r], run |-> r] \in runs

\* What the answer 200 of a cancel is worth.  The process is alive after it only
\* if the cancel came before register_proc.  A run that was answered before it
\* ended, be it in that window, ends as cancelled, unless its timer has fired:
\* then the run raises and its status never leaves "running".
CancelTakesEffect ==
    \A k \in Cancellers : heard[k] # "no" =>
        /\ proc[ctrl[k]] = "alive" => heard[k] = "early"
        /\ heard[k] # "late" /\ Ended(ctrl[k]) =>
               status[ctrl[k]] = "cancelled" \/ timedOut[ctrl[k]]

\* Every run ends and leaves the registry, be it cancelled too early, killed by
\* its timer or robbed of its id, unless an orphan holds its output.
RunsEnd ==
    \A r \in Requests : CommandOf[r] # "forking" =>
        (Active(r) ~> pc[r] = "done" /\ \A e \in runs : e.run # r)

\* register_proc: "Register a child process so a cancel can kill it".
CancelledIsKilled ==
    \A k \in Cancellers : cpc[k] = "cancelled" => proc[ctrl[k]] # "alive"

\* The registry is "keyed by run id [...] so another request thread can
\* cancel/inspect it": every run in flight is in it under its id.
EveryRunAddressable ==
    \A r \in Requests : Active(r) => [key |-> id[r], run |-> r] \in runs
=============================================================================
