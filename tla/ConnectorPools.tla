--------------------------- MODULE ConnectorPools ---------------------------
(***************************************************************************)
(* The warm workers of a node (urirun_runtime/worker.py): a process per    *)
(* connector, started by the first call that needs it and then shared by   *)
(* the threads of all requests.  A call writes one line to the worker and  *)
(* reads one line back under the lock of its pool; nothing in a line says  *)
(* which call it belongs to.                                               *)
(*                                                                         *)
(* A call is named after its thread.  The stream of the answers carries    *)
(* other lines too: what a connector prints while its command line is      *)
(* imported, what a handler prints while it runs, and what a process       *)
(* started by either prints, which no redirection inside Python catches.   *)
(***************************************************************************)
EXTENDS Naturals, Sequences

CONSTANTS
    Callers,      \* threads, each with one call after another
    Connectors,   \* keys of the pools; the handlers share the key Handler
    Handler,
    MaxWorkers,   \* bound: the processes that may be started
    MaxCalls,     \* bound: the calls of a thread
    MaxPrints,    \* bound: the lines that something else prints
    NoWorker      \* there is no worker

ASSUME PoolsAssumption ==
    /\ Handler \in Connectors /\ MaxCalls \in Nat /\ MaxWorkers \in Nat /\ MaxPrints \in Nat
    /\ NoWorker \notin 1..MaxWorkers

Workers == 1..MaxWorkers

VARIABLES
    pools,        \* ConnectorPools._pools, and _handler_pool under Handler
    state,        \* each process: "unused", "up", "died" or, at the end of
                  \* its input, "finished"
    lock,         \* the threads that hold the lock of a pool: none or one
    stdin,        \* lines written to a worker and not yet read by it
    stdout,       \* lines a worker printed and nobody has read
    pc,           \* where each thread is
    wants,        \* the connector of its call
    uses,         \* the pool it took
    calls,        \* how many calls it made
    got,          \* what its last call returned, and from which worker
    printed,      \* workers on whose output something printed a line of its own
    prints        \* how many such lines there were

vars == <<pools, state, lock, stdin, stdout, pc, wants, uses, calls, got, printed, prints>>
printing == <<printed, prints>>
pipes == <<lock, stdin, stdout, printing>>
processes == <<pools, state>>

(* A line is the answer to a call, which is a thread and a number, the line  *)
(* that says that a worker is ready, which is JSON like an answer, or what   *)
(* something else printed, which is no JSON.                                 *)
Printed == <<>>
Ready == <<"ready">>
Id(c) == <<c, calls[c]>>

(* What a call returned: a line, or an exception.                            *)
Nothing == [kind |-> "nothing", line |-> Printed, from |-> NoWorker]
Answer(line, w) == [kind |-> "answer", line |-> line, from |-> w]
Failure(w) == [kind |-> "failure", line |-> Printed, from |-> w]

Init ==
    /\ pools = [r \in Connectors |-> NoWorker]
    /\ state = [w \in Workers |-> "unused"]
    /\ lock = [w \in Workers |-> {}]
    /\ stdin = [w \in Workers |-> <<>>] /\ stdout = [w \in Workers |-> <<>>]
    /\ pc = [c \in Callers |-> "idle"]
    /\ wants = [c \in Callers |-> Handler]
    /\ uses = [c \in Callers |-> NoWorker]
    /\ calls = [c \in Callers |-> 0]
    /\ got = [c \in Callers |-> Nothing]
    /\ printed = {} /\ prints = 0

Goto(c, there) == pc' = [pc EXCEPT ![c] = there]

(* Something prints a line of its own on the output of a worker.             *)
PrintsLine(w) ==
    /\ prints < MaxPrints
    /\ printed' = printed \cup {w} /\ prints' = prints + 1

-----------------------------------------------------------------------------
(* A call. *)

(* run_route looks for the pool of the connector.                            *)
Ask(c, r) ==
    /\ pc[c] = "idle" /\ calls[c] < MaxCalls
    /\ wants' = [wants EXCEPT ![c] = r]
    /\ calls' = [calls EXCEPT ![c] = @ + 1]
    /\ got' = [got EXCEPT ![c] = Nothing]
    /\ Goto(c, IF pools[r] = NoWorker THEN "start" ELSE "take")
    /\ UNCHANGED <<processes, pipes, uses>>

(* WorkerPool.__init__ starts the process and reads its first line.  That is *)
(* empty when the connector cannot be imported, and a line of the import's   *)
(* when that printed one: nobody looks, and then the ready line stays.       *)
(* When the process cannot be started the call raises: no pool is kept.      *)
Start(c) ==
    /\ pc[c] = "start"
    /\ \/ \E w \in Workers :
            /\ state[w] = "unused" /\ \A v \in 1..(w - 1) : state[v] # "unused"
            /\ uses' = [uses EXCEPT ![c] = w]
            /\ \/ /\ \E s \in {"up", "died"} : state' = [state EXCEPT ![w] = s]
                  /\ UNCHANGED <<stdout, printing>>
               \/ /\ wants[c] # Handler
                  /\ state' = [state EXCEPT ![w] = "up"]
                  /\ stdout' = [stdout EXCEPT ![w] = <<Ready>>]
                  /\ PrintsLine(w)
          /\ Goto(c, "store")
          /\ UNCHANGED got
       \/ /\ got' = [got EXCEPT ![c] = Failure(NoWorker)]
          /\ Goto(c, "idle")
          /\ UNCHANGED <<state, uses, stdout, printing>>
    /\ UNCHANGED <<pools, lock, stdin, wants, calls>>

\* Mutant: the pool that is replaced is closed, whoever uses it.
StoreClosing(c) ==
    /\ pc[c] = "store"
    /\ LET old == pools[wants[c]]
       IN  state' = IF old # NoWorker /\ state[old] = "up"
                    THEN [state EXCEPT ![old] = "finished"] ELSE state
    /\ pools' = [pools EXCEPT ![wants[c]] = uses[c]]
    /\ uses' = [uses EXCEPT ![c] = NoWorker]
    /\ Goto(c, "take")
    /\ UNCHANGED <<pipes, wants, calls, got>>

(* Two threads may both have found no pool: the later one replaces the       *)
(* other's.                                                                  *)
Store(c) ==
    /\ pc[c] = "store"
    /\ pools' = [pools EXCEPT ![wants[c]] = uses[c]]
    /\ uses' = [uses EXCEPT ![c] = NoWorker]
    /\ Goto(c, "take")
    /\ UNCHANGED <<state, pipes, wants, calls, got>>

(* The pool is looked up again.                                              *)
Take(c) ==
    /\ pc[c] = "take"
    /\ uses' = [uses EXCEPT ![c] = pools[wants[c]]]
    /\ Goto(c, "lock")
    /\ UNCHANGED <<processes, pipes, wants, calls, got>>

\* Mutant: run_argv and run_ref without the lock.
AcquireNothing(c) ==
    /\ pc[c] = "lock"
    /\ Goto(c, "write")
    /\ UNCHANGED <<processes, pipes, wants, uses, calls, got>>

Acquire(c) ==
    /\ pc[c] = "lock" /\ lock[uses[c]] = {}
    /\ lock' = [lock EXCEPT ![uses[c]] = {c}]
    /\ Goto(c, "write")
    /\ UNCHANGED <<processes, stdin, stdout, printing, wants, uses, calls, got>>

\* Mutant: an exception leaves the lock behind.
ReturnKeepingLock(c, result) ==
    /\ got' = [got EXCEPT ![c] = result]
    /\ lock' = IF result.kind = "failure" THEN lock ELSE [lock EXCEPT ![uses[c]] = @ \ {c}]
    /\ uses' = [uses EXCEPT ![c] = NoWorker]
    /\ Goto(c, "idle")
    /\ UNCHANGED <<processes, wants, calls>>

(* The end of a call, with its result or an exception: the lock is released. *)
Return(c, result) ==
    /\ got' = [got EXCEPT ![c] = result]
    /\ lock' = [lock EXCEPT ![uses[c]] = @ \ {c}]
    /\ uses' = [uses EXCEPT ![c] = NoWorker]
    /\ Goto(c, "idle")
    /\ UNCHANGED <<processes, wants, calls>>

(* The request is written; the pipe of a process that is gone breaks.        *)
Send(c) ==
    /\ pc[c] = "write"
    /\ \/ /\ state[uses[c]] = "up"
          /\ stdin' = [stdin EXCEPT ![uses[c]] = Append(@, Id(c))]
          /\ Goto(c, "read")
          /\ UNCHANGED <<processes, lock, stdout, printing, wants, uses, calls, got>>
       \/ /\ state[uses[c]] # "up"
          /\ Return(c, Failure(uses[c]))
          /\ UNCHANGED <<stdin, stdout, printing>>

(* The next line is the answer, whatever it is; at the end of the stream, or *)
(* when the line is no JSON, the call raises.                                *)
Receive(c) ==
    /\ pc[c] = "read"
    /\ LET lines == stdout[uses[c]]
       IN  \/ /\ lines # <<>>
              /\ stdout' = [stdout EXCEPT ![uses[c]] = Tail(lines)]
              /\ Return(c, IF Head(lines) = Printed THEN Failure(uses[c])
                                                  ELSE Answer(Head(lines), uses[c]))
           \/ /\ lines = <<>> /\ state[uses[c]] # "up"
              /\ Return(c, Failure(uses[c]))
              /\ UNCHANGED stdout
    /\ UNCHANGED <<stdin, printing>>

-----------------------------------------------------------------------------
(* The worker processes. *)

(* The worker runs a request and writes its answer.  What a handler prints   *)
(* meanwhile comes first; what a process started by the request prints comes *)
(* before or after it.                                                       *)
Serve(w) ==
    /\ state[w] = "up" /\ stdin[w] # <<>>
    /\ stdin' = [stdin EXCEPT ![w] = Tail(@)]
    /\ LET answer == Head(stdin[w])
       IN  \/ /\ stdout' = [stdout EXCEPT ![w] = Append(@, answer)]
              /\ UNCHANGED printing
           \/ /\ \E lines \in {<<Printed, answer>>, <<answer, Printed>>} :
                    stdout' = [stdout EXCEPT ![w] = @ \o lines]
              /\ PrintsLine(w)
    /\ UNCHANGED <<processes, lock, pc, wants, uses, calls, got>>

(* A worker ends: killed, or by a request that takes the process with it.    *)
Die(w) ==
    /\ state[w] = "up"
    /\ state' = [state EXCEPT ![w] = "died"]
    /\ UNCHANGED <<pools, pipes, pc, wants, uses, calls, got>>

(* A pool nobody refers to is collected; its pipe closes and the worker ends *)
(* at the end of its input.                                                  *)
Collect(w) ==
    /\ state[w] = "up"
    /\ \A r \in Connectors : pools[r] # w
    /\ \A c \in Callers : uses[c] # w
    /\ state' = [state EXCEPT ![w] = "finished"]
    /\ UNCHANGED <<pools, pipes, pc, wants, uses, calls, got>>

CallStep(c) == Start(c) \/ Store(c) \/ Take(c) \/ Acquire(c) \/ Send(c) \/ Receive(c)

Next ==
    \/ \E c \in Callers : CallStep(c) \/ \E r \in Connectors : Ask(c, r)
    \/ \E w \in Workers : Serve(w) \/ Die(w) \/ Collect(w)

Spec == Init /\ [][Next]_vars

(* Threads are scheduled and a worker that is up answers: a handler that     *)
(* never returns would block its pool.  A thread makes finitely many calls,  *)
(* so a lock that is always taken again is not what these rely on.           *)
Fairness == /\ \A c \in Callers : WF_vars(CallStep(c))
            /\ \A w \in Workers : WF_vars(Serve(w))

FairSpec == Spec /\ Fairness

-----------------------------------------------------------------------------
(* Properties *)

Requests == Callers \X (0..MaxCalls)
Lines == Requests \cup {Printed, Ready}
Results == [kind : {"nothing", "answer", "failure"}, line : Lines, from : Workers \cup {NoWorker}]

(* The type invariant.                                                       *)
TypeOK ==
    /\ pools \in [Connectors -> Workers \cup {NoWorker}]
    /\ state \in [Workers -> {"unused", "up", "died", "finished"}]
    /\ lock \in [Workers -> SUBSET Callers]
    /\ stdin \in [Workers -> Seq(Requests)] /\ stdout \in [Workers -> Seq(Lines)]
    /\ pc \in [Callers -> {"idle", "start", "store", "take", "lock", "write", "read"}]
    /\ wants \in [Callers -> Connectors]
    /\ uses \in [Callers -> Workers \cup {NoWorker}]
    /\ calls \in [Callers -> 0..MaxCalls]
    /\ got \in [Callers -> Results]
    /\ printed \subseteq Workers /\ prints \in 0..MaxPrints

(* A call of a handler returns the result of its own request: the handlers'  *)
(* worker is the pooled twin of urirun.exec, which keeps what a handler      *)
(* prints off the stream of the results.                                     *)
OwnAnswer ==
    \A c \in Callers : wants[c] = Handler /\ got[c].kind = "answer" => got[c].line = Id(c)

(* However the threads meet at the creation of a pool and at its lock, and   *)
(* whenever workers die, a call returns the result of its own request,       *)
(* unless the worker that served it printed more than answers: while its     *)
(* command line was imported, in a handler, or by a process of theirs.       *)
OwnAnswerIfQuiet ==
    \A c \in Callers :
        got[c].kind = "answer" => got[c].line = Id(c) \/ got[c].from \in printed

(* A call fails only when no process could be started for it, or when the    *)
(* worker that served it died or printed more than answers: the loser of a   *)
(* race to create a pool, and whoever took the pool that was replaced, are   *)
(* served to the end.                                                        *)
FailureHasCause ==
    \A c \in Callers :
        got[c].kind = "failure" =>
            \/ got[c].from = NoWorker
            \/ state[got[c].from] = "died" \/ got[c].from \in printed

(* Every call returns, though its worker may die and its line be taken.      *)
CallsReturn == \A c \in Callers : pc[c] # "idle" ~> pc[c] = "idle"
=============================================================================
