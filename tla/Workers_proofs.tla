---------------------------- MODULE Workers_proofs ----------------------------
(***************************************************************************)
(* Whatever the threads, connectors, daemons, clients and bounds: a call   *)
(* of a pool returns its own answer or fails for a cause in the worker     *)
(* that served it; a daemon ends for a cause, and one that listens is      *)
(* found at its path until another is started on it, or one it met there   *)
(* removes it.                                                             *)
(*                                                                         *)
(* The pools (ConnectorPools) and the daemon (Daemon) are two systems with *)
(* no variable in common; every theorem is about one of them.              *)
(***************************************************************************)
EXTENDS ConnectorPools, Daemon, TLAPS

(* A thread that talks to a worker is the one that holds its lock.           *)
LockHeld ==
    \A c \in Callers :
        pc[c] \in {"write", "read"} => uses[c] \in Workers /\ lock[uses[c]] = {c}

(* A pool that was found once is there when it is looked up again.           *)
PoolKnown ==
    \A c \in Callers :
        /\ pc[c] = "take" => pools[wants[c]] \in Workers
        /\ pc[c] \in {"store", "lock"} => uses[c] \in Workers

(* A worker somebody refers to was started, and ends only by dying.          *)
InUse ==
    /\ \A c \in Callers : uses[c] \in Workers => state[uses[c]] \in {"up", "died"}
    /\ \A r \in Connectors : pools[r] \in Workers => state[pools[r]] \in {"up", "died"}

(* A quiet worker holds one line at most: the request of the thread that is  *)
(* waiting, or its answer.  One that died may keep a request for ever.       *)
OneLine(w) ==
    \/ stdin[w] = <<>> /\ stdout[w] = <<>>
    \/ state[w] = "died" /\ stdout[w] = <<>>
    \/ \E c \in Callers :
        /\ pc[c] = "read" /\ uses[c] = w
        /\ \/ stdin[w] = <<Id(c)>> /\ stdout[w] = <<>>
           \/ stdin[w] = <<>> /\ stdout[w] = <<Id(c)>>

LinesTidy == \A w \in Workers : w \in printed \/ OneLine(w)

-----------------------------------------------------------------------------
LEMMA OneElement ==
    ASSUME NEW x
    PROVE  /\ Head(<<x>>) = x /\ Tail(<<x>>) = <<>> /\ <<x>> # <<>>
           /\ Append(<<>>, x) = <<x>>
  OBVIOUS

(* An answer is no line of a handler.                                        *)
LEMMA IdIsNotPrinted == \A c \in Callers : Id(c) # Printed
  BY DEF Id, Printed

(* The outcomes of a start: a worker, with a clean pipe or with its ready    *)
(* line left in it, or an exception.                                         *)
Started(c, w) ==
    /\ state[w] = "unused"
    /\ \E s \in {"up", "died"} : state' = [state EXCEPT ![w] = s]
    /\ uses' = [uses EXCEPT ![c] = w]
    /\ pc' = [pc EXCEPT ![c] = "store"]
    /\ got' = got
    /\ \/ UNCHANGED <<stdout, printing>>
       \/ stdout' = [stdout EXCEPT ![w] = <<Ready>>] /\ PrintsLine(w)

NotStarted(c) ==
    /\ got' = [got EXCEPT ![c] = Failure(NoWorker)]
    /\ pc' = [pc EXCEPT ![c] = "idle"]
    /\ UNCHANGED <<state, uses, stdout, printing>>

LEMMA StartSplit ==
    ASSUME NEW c \in Callers, Start(c)
    PROVE  /\ pc[c] = "start" /\ UNCHANGED <<pools, lock, stdin, wants, calls>>
           /\ (\E w \in Workers : Started(c, w)) \/ NotStarted(c)
<1>1. CASE got' = [got EXCEPT ![c] = Failure(NoWorker)] /\ Goto(c, "idle")
               /\ UNCHANGED <<state, uses, stdout, printing>>
  BY <1>1 DEF Start, NotStarted, Goto
<1>2. CASE \E w \in Workers :
            /\ state[w] = "unused"
            /\ uses' = [uses EXCEPT ![c] = w]
            /\ \/ /\ \E s \in {"up", "died"} : state' = [state EXCEPT ![w] = s]
                  /\ UNCHANGED <<stdout, printing>>
               \/ /\ state' = [state EXCEPT ![w] = "up"]
                  /\ stdout' = [stdout EXCEPT ![w] = <<Ready>>]
                  /\ PrintsLine(w)
            /\ Goto(c, "store") /\ UNCHANGED got
  <2>1. \E w \in Workers : Started(c, w)
    BY <1>2 DEF Started, Goto
  <2> QED
    BY <2>1 DEF Start
<1> QED
  BY <1>1, <1>2 DEF Start

Safe == TypeOK /\ LockHeld /\ PoolKnown

LEMMA InitSafe == Init => Safe
<1> SUFFICES ASSUME Init PROVE Safe
  OBVIOUS
<1>1. TypeOK
  BY PoolsAssumption DEF Init, TypeOK, Workers, Nothing, Results, Lines, Printed, Ready
<1> QED
  BY <1>1 DEF Init, Safe, LockHeld, PoolKnown

LEMMA TypeStep == ASSUME Safe, [Next]_vars PROVE TypeOK'
<1> USE PoolsAssumption DEF TypeOK, Safe, printing
<1>1. ASSUME NEW c \in Callers, NEW r \in Connectors, Ask(c, r) PROVE TypeOK'
  BY <1>1 DEF Ask, Goto, processes, pipes, Nothing, Results, Lines, Printed, Ready
<1>2. ASSUME NEW c \in Callers, Start(c) PROVE TypeOK'
  <2>1. UNCHANGED <<pools, lock, stdin, wants, calls>>
    BY <1>2, StartSplit
  <2>2. ASSUME NEW w \in Workers, Started(c, w) PROVE TypeOK'
    <3>1. /\ stdout' \in [Workers -> Seq(Lines)] /\ printed' \subseteq Workers
          /\ prints' \in 0..MaxPrints
      <4>1. <<Ready>> \in Seq(Lines)
        BY DEF Lines
      <4>2. CASE UNCHANGED <<stdout, printing>>
        BY <4>2
      <4>3. CASE stdout' = [stdout EXCEPT ![w] = <<Ready>>] /\ PrintsLine(w)
        <5>1. stdout' \in [Workers -> Seq(Lines)]
          BY <4>1, <4>3
        <5> QED
          BY <4>3, <5>1 DEF PrintsLine
      <4> QED
        BY <2>2, <4>2, <4>3 DEF Started
    <3>2. /\ pc' \in [Callers -> {"idle", "start", "store", "take", "lock", "write", "read"}]
          /\ uses' \in [Callers -> Workers \cup {NoWorker}] /\ got' \in [Callers -> Results]
      BY <2>2 DEF Started
    <3>3. state' \in [Workers -> {"unused", "up", "died", "finished"}]
      BY <2>2 DEF Started
    <3> QED
      BY <2>1, <3>1, <3>2, <3>3
  <2>3. CASE NotStarted(c)
    <3>1. Failure(NoWorker) \in Results
      BY DEF Failure, Results, Lines
    <3> QED
      BY <2>1, <2>3, <3>1 DEF NotStarted, printing
  <2> QED
    BY <1>2, StartSplit, <2>2, <2>3
<1>3. ASSUME NEW c \in Callers, Store(c) PROVE TypeOK'
  BY <1>3 DEF Store, Goto, pipes
<1>4. ASSUME NEW c \in Callers, Take(c) PROVE TypeOK'
  BY <1>4 DEF Take, Goto, processes, pipes
<1>5. ASSUME NEW c \in Callers, Acquire(c) PROVE TypeOK'
  BY <1>5 DEF Acquire, Goto, processes
<1>6. ASSUME NEW c \in Callers, NEW result \in Results, Return(c, result),
             stdin' \in [Workers -> Seq(Requests)], stdout' \in [Workers -> Seq(Lines)],
             UNCHANGED printing
      PROVE  TypeOK'
  BY <1>6 DEF Return, Goto, processes
<1>7. ASSUME NEW c \in Callers PROVE Failure(uses[c]) \in Results /\ Id(c) \in Requests
  BY DEF Failure, Results, Lines, Id, Requests
<1>8. ASSUME NEW c \in Callers, Send(c) PROVE TypeOK'
  <2>1. CASE /\ stdin' = [stdin EXCEPT ![uses[c]] = Append(@, Id(c))]
             /\ Goto(c, "read")
             /\ UNCHANGED <<processes, lock, stdout, printing, wants, uses, calls, got>>
    <3>1. stdin' \in [Workers -> Seq(Requests)]
      <4>1. uses[c] \in Workers
        BY <1>8 DEF Send, LockHeld
      <4>2. Append(stdin[uses[c]], Id(c)) \in Seq(Requests)
        BY <4>1, <1>7
      <4> QED
        BY <2>1, <4>2
    <3> QED
      BY <2>1, <3>1 DEF Goto, processes
  <2>2. CASE Return(c, Failure(uses[c])) /\ UNCHANGED <<stdin, stdout, printing>>
    BY <2>2, <1>6, <1>7
  <2> QED
    BY <1>8, <2>1, <2>2 DEF Send
<1>9. ASSUME NEW c \in Callers, Receive(c) PROVE TypeOK'
  <2>1. CASE stdout[uses[c]] = <<>>
    <3>1. Return(c, Failure(uses[c])) /\ UNCHANGED <<stdin, stdout, printing>>
      BY <1>9, <2>1 DEF Receive
    <3> QED
      BY <3>1, <1>6, <1>7
  <2>2. CASE stdout[uses[c]] # <<>>
    <3> DEFINE lines == stdout[uses[c]]
               result == IF Head(lines) = Printed THEN Failure(uses[c])
                                                  ELSE Answer(Head(lines), uses[c])
    <3>1. /\ stdout' = [stdout EXCEPT ![uses[c]] = Tail(lines)]
          /\ Return(c, result) /\ UNCHANGED <<stdin, printing>>
      BY <1>9, <2>2 DEF Receive
    <3>2. stdout' \in [Workers -> Seq(Lines)]
      <4>1. uses[c] \in Workers
        BY <1>9 DEF Receive, LockHeld
      <4>2. Tail(stdout[uses[c]]) \in Seq(Lines)
        BY <4>1, <2>2
      <4> QED
        BY <3>1, <4>2
    <3>3. uses[c] \in Workers => result \in Results
      BY <1>7, <2>2 DEF Answer, Results
    <3>4. uses[c] \in Workers
      BY <1>9 DEF Receive, LockHeld
    <3> QED
      BY <3>1, <3>2, <3>3, <3>4, <1>6
  <2> QED
    BY <2>1, <2>2
<1>10. ASSUME NEW w \in Workers, Serve(w) PROVE TypeOK'
  <2>1. Head(stdin[w]) \in Lines /\ Printed \in Lines
    BY <1>10 DEF Serve, Lines
  <2>2. stdin' \in [Workers -> Seq(Requests)]
    BY <1>10 DEF Serve
  <2>3. stdout' \in [Workers -> Seq(Lines)]
    <3>1. Append(stdout[w], Head(stdin[w])) \in Seq(Lines)
      BY <2>1
    <3>2. ASSUME NEW lines \in {<<Printed, Head(stdin[w])>>, <<Head(stdin[w]), Printed>>}
          PROVE  stdout[w] \o lines \in Seq(Lines)
      <4>1. /\ <<Printed, Head(stdin[w])>> \in Seq(Lines)
            /\ <<Head(stdin[w]), Printed>> \in Seq(Lines)
        BY <2>1
      <4>2. lines \in Seq(Lines)
        BY <4>1
      <4>3. stdout[w] \in Seq(Lines)
        OBVIOUS
      <4> QED
        BY <4>2, <4>3
    <3> QED
      BY <1>10, <3>1, <3>2 DEF Serve
  <2>4. printed' \subseteq Workers /\ prints' \in 0..MaxPrints
    BY <1>10 DEF Serve, PrintsLine, printing
  <2> QED
    BY <1>10, <2>2, <2>3, <2>4 DEF Serve, processes
<1>11. ASSUME NEW w \in Workers, Die(w) \/ Collect(w) PROVE TypeOK'
  BY <1>11 DEF Die, Collect, pipes
<1>12. CASE UNCHANGED vars
  BY <1>12 DEF vars
<1> QED
  BY <1>1, <1>2, <1>3, <1>4, <1>5, <1>8, <1>9, <1>10, <1>11, <1>12 DEF Next, CallStep

(* Every step keeps the locks exclusive and the pools known.                 *)
LEMMA LockStep == ASSUME Safe, [Next]_vars PROVE LockHeld' /\ PoolKnown'
<1> USE PoolsAssumption DEF TypeOK, Safe, LockHeld, PoolKnown, Goto, processes, pipes
<1>1. ASSUME NEW c \in Callers, NEW r \in Connectors, Ask(c, r) PROVE LockHeld' /\ PoolKnown'
  BY <1>1 DEF Ask
<1>2. ASSUME NEW c \in Callers, Start(c) PROVE LockHeld' /\ PoolKnown'
  <2>1. pc[c] = "start" /\ UNCHANGED <<pools, lock, stdin, wants, calls>>
    BY <1>2, StartSplit
  <2>2. ASSUME NEW w \in Workers, Started(c, w) PROVE LockHeld' /\ PoolKnown'
    BY <2>1, <2>2 DEF Started
  <2>3. CASE NotStarted(c)
    BY <2>1, <2>3 DEF NotStarted
  <2> QED
    BY <1>2, StartSplit, <2>2, <2>3
<1>3. ASSUME NEW c \in Callers, Store(c) PROVE LockHeld' /\ PoolKnown'
  BY <1>3 DEF Store
<1>4. ASSUME NEW c \in Callers, Take(c) PROVE LockHeld' /\ PoolKnown'
  BY <1>4 DEF Take
<1>5. ASSUME NEW c \in Callers, Acquire(c) PROVE LockHeld' /\ PoolKnown'
  BY <1>5 DEF Acquire
<1>6. ASSUME NEW c \in Callers, NEW result, pc[c] \in {"write", "read"}, Return(c, result)
      PROVE  LockHeld' /\ PoolKnown'
  BY <1>6 DEF Return
<1>7. ASSUME NEW c \in Callers, Send(c) PROVE LockHeld' /\ PoolKnown'
  <2>1. CASE state[uses[c]] = "up"
    <3>1. /\ pc[c] = "write" /\ pc' = [pc EXCEPT ![c] = "read"]
          /\ UNCHANGED <<pools, lock, wants, uses>>
      BY <1>7, <2>1 DEF Send
    <3> QED
      BY <3>1
  <2>2. CASE state[uses[c]] # "up"
    <3>1. pc[c] = "write" /\ Return(c, Failure(uses[c]))
      BY <1>7, <2>2 DEF Send
    <3> QED
      BY <3>1, <1>6
  <2> QED
    BY <2>1, <2>2
<1>8. ASSUME NEW c \in Callers, Receive(c) PROVE LockHeld' /\ PoolKnown'
  BY <1>8, <1>6 DEF Receive
<1>9. ASSUME NEW w \in Workers, Serve(w) \/ Die(w) \/ Collect(w) PROVE LockHeld' /\ PoolKnown'
  BY <1>9 DEF Serve, Die, Collect
<1>10. CASE UNCHANGED vars
  BY <1>10 DEF vars
<1> QED
  BY <1>1, <1>2, <1>3, <1>4, <1>5, <1>7, <1>8, <1>9, <1>10 DEF Next, CallStep

(* What the code keeps in its variables has the shape TypeOK gives.          *)
THEOREM TypeCorrect == Spec => []TypeOK
<1>1. Safe /\ [Next]_vars => Safe'
  BY TypeStep, LockStep DEF Safe
<1>2. Safe => TypeOK
  BY DEF Safe
<1> QED
  BY InitSafe, <1>1, <1>2, PTL DEF Spec

-----------------------------------------------------------------------------
(* A worker in use stays alive unless it dies.                               *)
LEMMA InUseStep == ASSUME Safe, InUse, [Next]_vars PROVE InUse'
<1> USE PoolsAssumption DEF TypeOK, Safe, InUse, Goto, processes, pipes, printing
<1>1. ASSUME NEW c \in Callers, NEW r \in Connectors, Ask(c, r) PROVE InUse'
  BY <1>1 DEF Ask
<1>2. ASSUME NEW c \in Callers, Start(c) PROVE InUse'
  <2>1. pc[c] = "start" /\ UNCHANGED <<pools, lock, stdin, wants, calls>>
    BY <1>2, StartSplit
  <2>2. ASSUME NEW w \in Workers, Started(c, w) PROVE InUse'
    BY <2>1, <2>2 DEF Started
  <2>3. CASE NotStarted(c)
    BY <2>1, <2>3 DEF NotStarted
  <2> QED
    BY <1>2, StartSplit, <2>2, <2>3
<1>3. ASSUME NEW c \in Callers, Store(c) PROVE InUse'
  <2>1. /\ state' = state /\ uses[c] \in Workers
        /\ uses' = [uses EXCEPT ![c] = NoWorker]
        /\ pools' = [pools EXCEPT ![wants[c]] = uses[c]]
    BY <1>3 DEF Store, PoolKnown
  <2>2. \A d \in Callers : uses'[d] \in Workers => uses'[d] = uses[d]
    BY <2>1 DEF Workers
  <2>3. \A r \in Connectors : pools'[r] \in {pools[r], uses[c]}
    BY <2>1
  <2> QED
    BY <2>1, <2>2, <2>3
<1>4. ASSUME NEW c \in Callers, Take(c) PROVE InUse'
  BY <1>4 DEF Take
<1>5. ASSUME NEW c \in Callers, Acquire(c) PROVE InUse'
  BY <1>5 DEF Acquire
<1>6. ASSUME NEW c \in Callers, Send(c) \/ Receive(c) PROVE InUse'
  <2>1. /\ state' = state /\ pools' = pools
        /\ uses' = uses \/ uses' = [uses EXCEPT ![c] = NoWorker]
    BY <1>6 DEF Send, Receive, Return
  <2>2. \A d \in Callers : uses'[d] \in Workers => uses'[d] = uses[d]
    BY <2>1 DEF Workers
  <2> QED
    BY <2>1, <2>2
<1>7. ASSUME NEW w \in Workers, Serve(w) \/ Die(w) \/ Collect(w) PROVE InUse'
  BY <1>7 DEF Serve, Die, Collect
<1>8. CASE UNCHANGED vars
  BY <1>8 DEF vars
<1> QED
  BY <1>1, <1>2, <1>3, <1>4, <1>5, <1>6, <1>7, <1>8 DEF Next, CallStep

(* A worker the step does not touch, whose waiting threads go on waiting,    *)
(* keeps its line.                                                           *)
LEMMA LineKept ==
    ASSUME Safe, NEW w \in Workers, OneLine(w),
           stdin'[w] = stdin[w], stdout'[w] = stdout[w],
           state[w] = "died" => state'[w] = "died",
           \A c \in Callers : pc[c] = "read" /\ uses[c] = w =>
                pc'[c] = "read" /\ uses'[c] = w /\ calls'[c] = calls[c]
    PROVE  OneLine(w)'
  BY DEF OneLine, Id

(* The lines of a quiet worker after each step of the threads and workers.   *)
LEMMA LinesStep == ASSUME Safe, InUse, LinesTidy, [Next]_vars PROVE LinesTidy'
<1> SUFFICES ASSUME NEW w \in Workers, w \notin printed' PROVE OneLine(w)'
  BY DEF LinesTidy
<1> USE PoolsAssumption DEF TypeOK, Safe, printing
<1>1. w \notin printed
  BY DEF Next, CallStep, vars, Ask, Start, Store, Take, Acquire, Send, Receive, Serve, Die,
         Collect, pipes, printing, PrintsLine
<1>2. OneLine(w)
  BY <1>1 DEF LinesTidy
<1>3. ASSUME NEW c \in Callers, NEW r \in Connectors, Ask(c, r) PROVE OneLine(w)'
  BY <1>2, <1>3, LineKept DEF Ask, Goto, processes, pipes
(* A worker that is started is quiet only if its import printed nothing.     *)
<1>4. ASSUME NEW c \in Callers, Start(c) PROVE OneLine(w)'
  <2>1. pc[c] = "start" /\ stdin' = stdin /\ calls' = calls
    BY <1>4, StartSplit
  <2>2. ASSUME NEW v \in Workers, Started(c, v) PROVE OneLine(w)'
    <3>1. stdout'[w] = stdout[w]
      BY <2>2 DEF Started, PrintsLine, printing
    <3>2. state[w] = "died" => state'[w] = "died"
      BY <2>2 DEF Started
    <3>3. \A d \in Callers : pc[d] = "read" => pc'[d] = "read" /\ uses'[d] = uses[d]
      BY <2>1, <2>2 DEF Started
    <3> QED
      BY <1>2, <2>1, <3>1, <3>2, <3>3, LineKept
  <2>3. CASE NotStarted(c)
    BY <1>2, <2>1, <2>3, LineKept DEF NotStarted
  <2> QED
    BY <1>4, StartSplit, <2>2, <2>3
<1>5. ASSUME NEW c \in Callers, Store(c) \/ Take(c) \/ Acquire(c) PROVE OneLine(w)'
  BY <1>2, <1>5, LineKept DEF Store, Take, Acquire, Goto, pipes, processes
<1>6. ASSUME NEW c \in Callers, Send(c) PROVE OneLine(w)'
  <2>1. /\ pc[c] = "write" /\ uses[c] \in Workers
        /\ \A d \in Callers : pc[d] = "read" /\ uses[d] = uses[c] => FALSE
    BY <1>6 DEF Send, LockHeld
  <2>2. CASE /\ state[uses[c]] = "up"
             /\ stdin' = [stdin EXCEPT ![uses[c]] = Append(@, Id(c))]
             /\ Goto(c, "read")
             /\ UNCHANGED <<processes, lock, stdout, printing, wants, uses, calls, got>>
    <3>1. CASE w = uses[c]
      <4>1. stdin[w] = <<>> /\ stdout[w] = <<>>
        BY <1>2, <2>1, <2>2, <3>1 DEF OneLine
      <4>2. stdin'[w] = <<Id(c)>>
        BY <4>1, <2>2, <3>1, OneElement
      <4>3. stdout'[w] = <<>> /\ pc'[c] = "read" /\ uses'[c] = w /\ Id(c)' = Id(c)
        BY <4>1, <2>2, <3>1 DEF Goto, Id
      <4> QED
        BY <4>2, <4>3 DEF OneLine
    <3>2. CASE w # uses[c]
      <4>1. /\ stdin'[w] = stdin[w] /\ stdout'[w] = stdout[w] /\ state' = state
            /\ uses' = uses /\ calls' = calls
            /\ \A d \in Callers : pc[d] = "read" => pc'[d] = "read"
        BY <2>2, <3>2, <2>1 DEF Goto, processes
      <4> QED
        BY <4>1, <1>2, LineKept
    <3> QED
      BY <3>1, <3>2
  <2>3. CASE Return(c, Failure(uses[c])) /\ UNCHANGED <<stdin, stdout, printing>>
    BY <1>2, <2>1, <2>3, LineKept DEF Return, Goto, processes
  <2> QED
    BY <1>6, <2>2, <2>3 DEF Send
<1>7. ASSUME NEW c \in Callers, Receive(c) PROVE OneLine(w)'
  <2>1. /\ pc[c] = "read" /\ uses[c] \in Workers
        /\ \A d \in Callers : pc[d] = "read" /\ uses[d] = uses[c] => d = c
    BY <1>7 DEF Receive, LockHeld
  <2>2. /\ stdin' = stdin /\ state' = state /\ calls' = calls
        /\ \A d \in Callers : d # c => pc'[d] = pc[d] /\ uses'[d] = uses[d]
        /\ \A v \in Workers : v # uses[c] => stdout'[v] = stdout[v]
    BY <1>7, <2>1 DEF Receive, Return, Goto, processes
  <2>3. CASE w # uses[c]
    BY <1>2, <2>1, <2>2, <2>3, LineKept
  <2>4. CASE w = uses[c]
    <3>1. CASE stdout[w] = <<>>
      <4>1. stdout' = stdout /\ state[w] # "up"
        BY <1>7, <2>4, <3>1 DEF Receive
      <4>2. state[w] = "died"
        BY <4>1, <2>1, <2>4 DEF InUse
      <4> QED
        BY <3>1, <4>1, <4>2, <2>2 DEF OneLine
    <3>2. CASE stdout[w] # <<>>
      <4>1. stdin[w] = <<>> /\ stdout[w] = <<Id(c)>>
        BY <1>2, <2>1, <2>4, <3>2 DEF OneLine
      <4>2. stdout'[w] = Tail(stdout[w])
        BY <1>7, <2>1, <2>4, <3>2 DEF Receive
      <4>3. stdout'[w] = <<>>
        BY <4>1, <4>2, OneElement
      <4> QED
        BY <4>1, <4>3, <2>2 DEF OneLine
    <3> QED
      BY <3>1, <3>2
  <2> QED
    BY <2>3, <2>4
<1>8. ASSUME NEW v \in Workers, Serve(v) PROVE OneLine(w)'
  <2>1. state' = state /\ pc' = pc /\ uses' = uses /\ calls' = calls
    BY <1>8 DEF Serve, processes
  <2>2. CASE w # v
    <3>1. stdin'[w] = stdin[w] /\ stdout'[w] = stdout[w]
      BY <1>8, <2>2 DEF Serve
    <3> QED
      BY <3>1, <2>1, <1>2, LineKept
  <2>3. CASE w = v
    <3>1. /\ state[w] = "up" /\ stdin[w] # <<>>
          /\ stdin'[w] = Tail(stdin[w]) /\ stdout'[w] = Append(stdout[w], Head(stdin[w]))
      BY <1>8, <2>3 DEF Serve, PrintsLine
    <3>2. PICK c \in Callers : /\ pc[c] = "read" /\ uses[c] = w
                               /\ stdin[w] = <<Id(c)>> /\ stdout[w] = <<>>
      BY <1>2, <3>1 DEF OneLine
    <3>3. stdin'[w] = <<>> /\ stdout'[w] = <<Id(c)>>
      BY <3>1, <3>2, OneElement
    <3>4. Id(c)' = Id(c)
      BY <2>1 DEF Id
    <3> QED
      BY <3>2, <3>3, <3>4, <2>1 DEF OneLine
  <2> QED
    BY <2>2, <2>3
<1>9. ASSUME NEW v \in Workers, Die(v) \/ Collect(v) PROVE OneLine(w)'
  BY <1>2, <1>9, LineKept DEF Die, Collect, pipes
<1>10. CASE UNCHANGED vars
  BY <1>2, <1>10, LineKept DEF vars
<1> QED
  BY <1>3, <1>4, <1>5, <1>6, <1>7, <1>8, <1>9, <1>10 DEF Next, CallStep

(* A result nobody replaces keeps its cause: deaths and printed lines are    *)
(* not taken back.                                                           *)
Justified(c) ==
    /\ got[c].kind = "answer" => got[c].line = Id(c) \/ got[c].from \in printed
    /\ got[c].kind = "failure" =>
         \/ got[c].from = NoWorker
         \/ got[c].from \in Workers /\ (state[got[c].from] = "died" \/ got[c].from \in printed)

LEMMA CauseKept ==
    ASSUME Safe, NEW c \in Callers, Justified(c), got'[c] = got[c], calls'[c] = calls[c],
           printed \subseteq printed',
           \A w \in Workers : state[w] = "died" => state'[w] = "died"
    PROVE  Justified(c)'
  BY DEF Justified, Id

(* Every step leaves every result with its cause.                            *)
LEMMA ResultsStep ==
    ASSUME Safe, InUse, LinesTidy, [Next]_vars, \A c \in Callers : Justified(c)
    PROVE  \A c \in Callers : Justified(c)'
<1> SUFFICES ASSUME NEW d \in Callers PROVE Justified(d)'
  OBVIOUS
<1> USE PoolsAssumption DEF TypeOK, Safe, printing
<1>1. ASSUME NEW c \in Callers, NEW r \in Connectors, Ask(c, r) PROVE Justified(d)'
  <2>1. CASE d = c
    BY <1>1, <2>1 DEF Ask, Nothing, Justified
  <2>2. CASE d # c
    BY <1>1, <2>2, CauseKept DEF Ask, processes, pipes
  <2> QED
    BY <2>1, <2>2
<1>2. ASSUME NEW c \in Callers, Start(c) PROVE Justified(d)'
  <2>1. calls' = calls
    BY <1>2, StartSplit
  <2>2. ASSUME NEW w \in Workers, Started(c, w) PROVE Justified(d)'
    <3>1. got' = got /\ printed \subseteq printed'
      BY <2>2 DEF Started, PrintsLine, printing
    <3>2. \A v \in Workers : state[v] = "died" => state'[v] = "died"
      BY <2>2 DEF Started
    <3> QED
      BY <2>1, <3>1, <3>2, CauseKept
  <2>3. CASE NotStarted(c)
    <3>1. CASE d = c
      BY <2>3, <3>1 DEF NotStarted, Failure, Justified
    <3>2. CASE d # c
      BY <2>1, <2>3, <3>2, CauseKept DEF NotStarted, printing
    <3> QED
      BY <3>1, <3>2
  <2> QED
    BY <1>2, StartSplit, <2>2, <2>3
<1>3. ASSUME NEW c \in Callers, Store(c) \/ Take(c) \/ Acquire(c) PROVE Justified(d)'
  BY <1>3, CauseKept DEF Store, Take, Acquire, processes, pipes
<1>4. ASSUME NEW c \in Callers, NEW result \in Results, Return(c, result), UNCHANGED printing,
             d # c
      PROVE  Justified(d)'
  BY <1>4, CauseKept DEF Return, processes
<1>5. ASSUME NEW c \in Callers, uses[c] \in Workers, Return(c, Failure(uses[c])),
             UNCHANGED printing, state[uses[c]] = "died" \/ uses[c] \in printed
      PROVE  Justified(c)'
  BY <1>5 DEF Return, Failure, Justified, processes
<1>6. ASSUME NEW c \in Callers PROVE Failure(uses[c]) \in Results
  BY DEF Failure, Results, Lines
<1>7. ASSUME NEW c \in Callers, Send(c) PROVE Justified(d)'
  <2>1. uses[c] \in Workers
    BY <1>7 DEF Send, LockHeld
  <2>2. CASE state[uses[c]] = "up"
    BY <1>7, <2>2, CauseKept DEF Send, processes
  <2>3. CASE state[uses[c]] # "up"
    <3>1. Return(c, Failure(uses[c])) /\ UNCHANGED printing
      BY <1>7, <2>3 DEF Send
    <3>2. state[uses[c]] = "died"
      BY <2>1, <2>3 DEF InUse
    <3> QED
      BY <3>1, <3>2, <2>1, <1>4, <1>5, <1>6
  <2> QED
    BY <2>2, <2>3
<1>8. ASSUME NEW c \in Callers, Receive(c) PROVE Justified(d)'
  <2>1. /\ pc[c] = "read" /\ uses[c] \in Workers /\ UNCHANGED printing
        /\ \A e \in Callers : pc[e] = "read" /\ uses[e] = uses[c] => e = c
    BY <1>8 DEF Receive, LockHeld
  <2>2. PICK w \in Workers : w = uses[c]
    BY <2>1
  <2>3. CASE stdout[w] = <<>>
    <3>1. Return(c, Failure(w)) /\ state[w] # "up"
      BY <1>8, <2>2, <2>3 DEF Receive
    <3>2. state[w] = "died"
      BY <2>2, <3>1 DEF InUse
    <3> QED
      BY <3>1, <3>2, <2>1, <2>2, <1>4, <1>5, <1>6
  <2>4. CASE stdout[w] # <<>> /\ Head(stdout[w]) = Printed
    <3>1. Return(c, Failure(w))
      BY <1>8, <2>2, <2>4 DEF Receive
    <3>2. w \in printed
      <4>1. SUFFICES ASSUME w \notin printed PROVE FALSE
        OBVIOUS
      <4>2. stdout[w] = <<Id(c)>>
        BY <4>1, <2>1, <2>2, <2>4 DEF LinesTidy, OneLine
      <4> QED
        BY <4>2, <2>4, OneElement, IdIsNotPrinted
    <3> QED
      BY <3>1, <3>2, <2>1, <2>2, <1>4, <1>5, <1>6
  <2>5. CASE stdout[w] # <<>> /\ Head(stdout[w]) # Printed
    <3>1. Return(c, Answer(Head(stdout[w]), w))
      BY <1>8, <2>2, <2>5 DEF Receive
    <3>2. Answer(Head(stdout[w]), w) \in Results
      BY <2>5 DEF Answer, Results
    <3>3. w \in printed \/ Head(stdout[w]) = Id(c)
      <4>1. w \notin printed => stdout[w] = <<Id(c)>>
        BY <2>1, <2>2, <2>5 DEF LinesTidy, OneLine
      <4> QED
        BY <4>1, OneElement
    <3>4. Justified(c)'
      <4>1. got'[c] = Answer(Head(stdout[w]), w) /\ Id(c)' = Id(c)
        BY <3>1 DEF Return, Id
      <4> QED
        BY <4>1, <3>3, <2>1 DEF Answer, Justified
    <3> QED
      BY <3>1, <3>2, <3>4, <2>1, <1>4
  <2> QED
    BY <2>3, <2>4, <2>5
<1>9. ASSUME NEW w \in Workers, Serve(w) PROVE Justified(d)'
  BY <1>9, CauseKept DEF Serve, processes, PrintsLine
<1>10. ASSUME NEW w \in Workers, Die(w) \/ Collect(w) PROVE Justified(d)'
  BY <1>10, CauseKept DEF Die, Collect, pipes
<1>11. CASE UNCHANGED vars
  BY <1>11, CauseKept DEF vars
<1> QED
  BY <1>1, <1>2, <1>3, <1>7, <1>8, <1>9, <1>10, <1>11 DEF Next, CallStep

Inv == Safe /\ InUse /\ LinesTidy /\ \A c \in Callers : Justified(c)

(* The invariant holds in every state.                                       *)
THEOREM InvHolds == Spec => []Inv
<1>1. Init => Inv
  <2> SUFFICES ASSUME Init PROVE Inv
    OBVIOUS
  <2>1. Safe
    BY InitSafe
  <2>2. InUse /\ LinesTidy
    BY PoolsAssumption DEF Init, InUse, LinesTidy, OneLine, Workers
  <2>3. \A c \in Callers : Justified(c)
    BY DEF Init, Justified, Nothing
  <2> QED
    BY <2>1, <2>2, <2>3 DEF Inv
<1>2. Inv /\ [Next]_vars => Inv'
  <2> SUFFICES ASSUME Inv, [Next]_vars PROVE Inv'
    OBVIOUS
  <2>1. Safe /\ InUse /\ LinesTidy /\ \A c \in Callers : Justified(c)
    BY DEF Inv
  <2>2. TypeOK' /\ LockHeld' /\ PoolKnown'
    BY <2>1, TypeStep, LockStep
  <2>3. InUse' /\ LinesTidy' /\ \A c \in Callers : Justified(c)'
    BY <2>1, InUseStep, LinesStep, ResultsStep
  <2> QED
    BY <2>2, <2>3 DEF Inv, Safe
<1> QED
  BY <1>1, <1>2, PTL DEF Spec

(* A call returns the result of its own request, unless something else than  *)
(* an answer was printed on its worker (OwnAnswerIfQuiet).                  *)
THEOREM AnswersAreOwn == Spec => []OwnAnswerIfQuiet
<1>1. Inv => OwnAnswerIfQuiet
  BY DEF Inv, Justified, OwnAnswerIfQuiet
<1> QED
  BY <1>1, InvHolds, PTL

(* A call fails only if no worker could be started for it, or its worker     *)
(* died or printed more than answers: never because threads started the pool *)
(* twice (FailureHasCause).                                                  *)
THEOREM FailuresHaveCauses == Spec => []FailureHasCause
<1>1. Inv => FailureHasCause
  BY DEF Inv, Justified, FailureHasCause
<1> QED
  BY <1>1, InvHolds, PTL

-----------------------------------------------------------------------------
(* The daemon. *)

(* A daemon that serves a connection serves that of a client.                *)
ServesAClient ==
    \A d \in Daemons :
        loop[d] \in {"read", "run", "reply", "goodbye", "error"} => conn[d] \in Clients

(* Whoever runs beside a daemon that listens was started after it, or ran    *)
(* when it bound the path.                                                   *)
MetOnThePath ==
    \A d, e \in Daemons :
        d # e /\ Listening(d) /\ Running(e) => d \in overtaken \/ e \in met[d]

DaemonTyped == DaemonTypeOK /\ ServesAClient

LEMMA DaemonInitTyped == DaemonInit => DaemonTyped
  BY DEF DaemonInit, DaemonTyped, DaemonTypeOK, Loops, ServesAClient

(* A connection that is done with is closed, and not served any more.        *)
LEMMA FinishTyped ==
    ASSUME DaemonTyped, NEW d \in Daemons, conn[d] \in Clients \cup {Nobody},
           NEW next \in {"accept", "error", "close", "ended"}, Finish(d, next),
           next = "error" => conn[d] \in Clients
    PROVE  /\ loop' \in [Daemons -> Loops]
           /\ conn' \in [Daemons -> Clients \cup {Nobody}]
           /\ ServesAClient'
<1> USE DEF DaemonTyped, DaemonTypeOK
<1>1. loop' = [loop EXCEPT ![d] = next]
  BY DEF Finish, Proceed
<1>2. loop' \in [Daemons -> Loops]
  BY <1>1 DEF Loops
<1>3. CASE next = "error"
  <2>1. conn' = conn
    BY <1>3 DEF Finish
  <2> QED
    BY <1>1, <1>2, <1>3, <2>1 DEF ServesAClient
<1>4. CASE next # "error"
  <2>1. conn' = [conn EXCEPT ![d] = Nobody]
    BY <1>4 DEF Finish
  <2> QED
    BY <1>1, <1>2, <1>4, <2>1 DEF ServesAClient
<1> QED
  BY <1>3, <1>4

LEMMA AnswerTyped ==
    ASSUME DaemonTyped, NEW d \in Daemons, NEW here, NEW there \in {"accept", "close"},
           NEW gone \in {"error", "close"}, AnswerClient(d, here, there, gone), conn[d] \in Clients
    PROVE  DaemonTyped'
<1> USE DEF DaemonTyped, DaemonTypeOK
<1>1. PICK next \in {"accept", "error", "close", "ended"} : Finish(d, next)
  BY DEF AnswerClient
<1>2. /\ loop' \in [Daemons -> Loops] /\ conn' \in [Daemons -> Clients \cup {Nobody}]
      /\ ServesAClient'
  BY <1>1, FinishTyped
<1>3. /\ \/ client' = client \/ client' = [client EXCEPT ![conn[d]] = "done"]
      /\ \/ peer' = peer \/ peer' = [peer EXCEPT ![conn[d]] = Nobody]
  BY DEF AnswerClient, End, Now
<1>4. /\ client' \in [Clients -> {"new", "connected", "sent", "done", "gone"}]
      /\ peer' \in [Clients -> Daemons \cup {Nobody}]
  BY <1>3
<1>5. told' \subseteq Daemons /\ left' \subseteq Daemons
  BY DEF AnswerClient
<1>6. UNCHANGED <<backlog, path, sent, denied, met, overtaken, removed>>
  BY DEF AnswerClient, history
<1> QED
  BY <1>2, <1>4, <1>5, <1>6

LEMMA DaemonTypeStep == ASSUME DaemonTyped, [DaemonNext]_daemonVars PROVE DaemonTyped'
<1> USE DaemonAssumption DEF DaemonTyped, DaemonTypeOK, Loops, ServesAClient, clientVars,
                         causes, history, End, Now
<1>1. ASSUME NEW c \in Clients, NEW d \in Daemons, Connect(c, d) PROVE DaemonTyped'
  <2>1. Append(backlog[d], c) \in Seq(Clients)
    OBVIOUS
  <2> QED
    BY <1>1, <2>1 DEF Connect
<1>2. ASSUME NEW c \in Clients, Refused(c) PROVE DaemonTyped'
  BY <1>2 DEF Refused
<1>3. ASSUME NEW c \in Clients, SendRequest(c) PROVE DaemonTyped'
  BY <1>3 DEF SendRequest
<1>4. ASSUME NEW c \in Clients, Leave(c) PROVE DaemonTyped'
  BY <1>4 DEF Leave
<1>5. ASSUME NEW c \in Clients, Dropped(c) PROVE DaemonTyped'
  BY <1>5 DEF Dropped
<1>6. ASSUME NEW d \in Daemons, Clear(d) PROVE DaemonTyped'
  BY <1>6 DEF Clear, Proceed
<1>17. ASSUME NEW d \in Daemons, Bind(d) PROVE DaemonTyped'
  BY <1>17 DEF Bind, Proceed
<1>7. ASSUME NEW d \in Daemons, Accept(d) PROVE DaemonTyped'
  <2>1. Head(backlog[d]) \in Clients /\ Tail(backlog[d]) \in Seq(Clients)
    BY <1>7 DEF Accept
  <2>2. CASE Proceed(d, "close") /\ denied' = denied \cup {d} /\ UNCHANGED <<conn, backlog>>
    BY <1>7, <2>2 DEF Accept, Proceed
  <2>3. CASE Proceed(d, "read") /\ denied' = denied
             /\ conn' = [conn EXCEPT ![d] = Head(backlog[d])]
             /\ backlog' = [backlog EXCEPT ![d] = Tail(@)]
    BY <1>7, <2>1, <2>3 DEF Accept, Proceed
  <2> QED
    BY <1>7, <2>2, <2>3 DEF Accept
<1>8. ASSUME NEW d \in Daemons, Read(d) PROVE DaemonTyped'
  <2>1. conn[d] \in Clients /\ UNCHANGED <<backlog, path, clientVars, causes, history>>
    BY <1>8 DEF Read
  <2>2. ASSUME NEW next \in {"accept", "error"}, Finish(d, next) PROVE DaemonTyped'
    <3>1. /\ loop' \in [Daemons -> Loops] /\ conn' \in [Daemons -> Clients \cup {Nobody}]
          /\ ServesAClient'
      BY <2>1, <2>2, FinishTyped
    <3> QED
      BY <2>1, <3>1
  <2>3. CASE (\E there \in {"goodbye", "run"} : Proceed(d, there)) /\ UNCHANGED conn
    BY <2>1, <2>3 DEF Proceed
  <2> QED
    BY <1>8, <2>2, <2>3 DEF Read
<1>9. ASSUME NEW d \in Daemons, Run(d) PROVE DaemonTyped'
  BY <1>9 DEF Run, Proceed
<1>10. ASSUME NEW d \in Daemons, Reply(d) PROVE DaemonTyped'
  <2>1. conn[d] \in Clients
    BY <1>10 DEF Reply, AnswerClient
  <2> QED
    BY <1>10, <2>1, AnswerTyped DEF Reply
<1>11. ASSUME NEW d \in Daemons, Goodbye(d) PROVE DaemonTyped'
  <2>1. conn[d] \in Clients
    BY <1>11 DEF Goodbye, AnswerClient
  <2> QED
    BY <1>11, <2>1, AnswerTyped DEF Goodbye
<1>12. ASSUME NEW d \in Daemons, SendError(d) PROVE DaemonTyped'
  <2>1. conn[d] \in Clients
    BY <1>12 DEF SendError, AnswerClient
  <2> QED
    BY <1>12, <2>1, AnswerTyped DEF SendError
<1>13. ASSUME NEW d \in Daemons, CloseServer(d) PROVE DaemonTyped'
  BY <1>13 DEF CloseServer, Proceed
<1>14. ASSUME NEW d \in Daemons, RemovePath(d) PROVE DaemonTyped'
  BY <1>14 DEF RemovePath, Proceed
<1>15. ASSUME NEW d \in Daemons, Kill(d) PROVE DaemonTyped'
  <2>1. /\ loop' \in [Daemons -> Loops] /\ conn' \in [Daemons -> Clients \cup {Nobody}]
        /\ ServesAClient'
    BY <1>15, FinishTyped DEF Kill
  <2>2. backlog' \in [Daemons -> Seq(Clients)] /\ told' \subseteq Daemons
    <3>1. <<>> \in Seq(Clients)
      OBVIOUS
    <3> QED
      BY <1>15, <3>1 DEF Kill
  <2> QED
    BY <1>15, <2>1, <2>2 DEF Kill
<1>16. CASE UNCHANGED daemonVars
  BY <1>16 DEF daemonVars
<1> QED
  BY <1>1, <1>2, <1>3, <1>4, <1>5, <1>6, <1>7, <1>8, <1>9, <1>10, <1>11, <1>12, <1>13,
     <1>14, <1>15, <1>16, <1>17 DEF DaemonNext, ServeStep

(* A daemon closes when it was told to or could not answer a client, and is  *)
(* killed by being told.                                                     *)
LEMMA EndStep ==
    ASSUME DaemonTyped, EndHasCause, [DaemonNext]_daemonVars PROVE EndHasCause'
<1> USE DEF DaemonTyped, DaemonTypeOK, EndHasCause, clientVars, causes, Finish
<1>1. ASSUME NEW c \in Clients, NEW d \in Daemons, Connect(c, d) PROVE EndHasCause'
  BY <1>1 DEF Connect
<1>2. ASSUME NEW c \in Clients, Refused(c) \/ SendRequest(c) \/ Leave(c) \/ Dropped(c)
      PROVE  EndHasCause'
  BY <1>2 DEF Refused, SendRequest, Leave, Dropped
<1>3. ASSUME NEW d \in Daemons, Clear(d) \/ Bind(d) \/ Read(d) \/ Run(d) PROVE EndHasCause'
  BY <1>3 DEF Clear, Bind, Read, Run, Proceed
<1>8. ASSUME NEW d \in Daemons, Accept(d) PROVE EndHasCause'
  BY <1>8 DEF Accept, Proceed
<1>4. ASSUME NEW d \in Daemons, Reply(d) \/ Goodbye(d) PROVE EndHasCause'
  BY <1>4 DEF Reply, Goodbye, AnswerClient, Proceed
<1>5. ASSUME NEW d \in Daemons, SendError(d) PROVE EndHasCause'
  BY <1>5 DEF SendError, AnswerClient, Proceed
<1>6. ASSUME NEW d \in Daemons, CloseServer(d) \/ RemovePath(d) \/ Kill(d) PROVE EndHasCause'
  BY <1>6 DEF CloseServer, RemovePath, Kill, Proceed
<1>7. CASE UNCHANGED daemonVars
  BY <1>7 DEF daemonVars
<1> QED
  BY <1>1, <1>2, <1>3, <1>4, <1>5, <1>6, <1>7, <1>8 DEF DaemonNext, ServeStep

PathInv == DaemonTyped /\ MetOnThePath /\ FoundAtPath

(* A step that starts no daemon, leaves the path alone and does not bring an *)
(* ending daemon back.                                                       *)
LEMMA PathKept ==
    ASSUME PathInv, path' = path, UNCHANGED <<met, overtaken, removed>>,
           \A d \in Daemons : Listening(d)' => Listening(d),
           \A d \in Daemons : Running(d)' => Running(d)
    PROVE  MetOnThePath' /\ FoundAtPath'
  BY DEF PathInv, MetOnThePath, FoundAtPath

LEMMA PathStep == ASSUME PathInv, [DaemonNext]_daemonVars PROVE PathInv'
<1> USE DEF clientVars, history, Finish
<1>0. DaemonTyped'
  BY DaemonTypeStep DEF PathInv
<1> USE DEF DaemonTyped, DaemonTypeOK
<1>1. ASSUME NEW c \in Clients, NEW d \in Daemons, Connect(c, d)
      PROVE  MetOnThePath' /\ FoundAtPath'
  BY <1>1, PathKept DEF Connect, Listening, Running
<1>2. ASSUME NEW c \in Clients, Refused(c) \/ SendRequest(c) \/ Leave(c) \/ Dropped(c)
      PROVE  MetOnThePath' /\ FoundAtPath'
  BY <1>2, PathKept DEF Refused, SendRequest, Leave, Dropped, Listening, Running
(* Whoever runs when a daemon is started is overtaken by it.                 *)
<1>3. ASSUME NEW d \in Daemons, Clear(d) PROVE MetOnThePath' /\ FoundAtPath'
  <2>1. /\ loop' = [loop EXCEPT ![d] = "bind"] /\ loop[d] = "off"
        /\ overtaken' = overtaken \cup {e \in Daemons : Running(e)}
        /\ met' = met /\ removed' = removed
    BY <1>3 DEF Clear, Proceed
  <2>2. \A e \in Daemons : Listening(e)' => Listening(e) /\ Running(e) /\ e \in overtaken'
    BY <2>1 DEF Listening, Running, PathInv
  <2> QED
    BY <2>2 DEF MetOnThePath, FoundAtPath
(* A daemon that binds the path knows who runs beside it; who listened       *)
(* before had lost the path already.                                         *)
<1>8. ASSUME NEW d \in Daemons, Bind(d) PROVE MetOnThePath' /\ FoundAtPath'
  <2>1. /\ loop[d] = "bind" /\ UNCHANGED <<overtaken, removed>>
        /\ met' = [met EXCEPT ![d] = {e \in Daemons \ {d} : Running(e)}]
        /\ ~ Listening(d) /\ Running(d)
    BY <1>8 DEF Bind, Listening, Running
  <2>2. PICK there \in {"accept", "failed"} : loop' = [loop EXCEPT ![d] = there]
    BY <1>8 DEF Bind, Proceed
  <2>3. \A e \in Daemons : e # d => /\ Running(e)' = Running(e) /\ Listening(e)' = Listening(e)
                                   /\ met'[e] = met[e]
    BY <2>1, <2>2 DEF Running, Listening, PathInv
  <2>4. ASSUME NEW e \in Daemons, NEW f \in Daemons, e # f, Listening(e)', Running(f)'
        PROVE  e \in overtaken' \/ f \in met'[e]
    <3>1. Running(f)
      BY <2>1, <2>3, <2>4
    <3>2. CASE e = d
      BY <2>1, <2>4, <3>1, <3>2 DEF PathInv
    <3>3. CASE e # d
      BY <2>1, <2>3, <2>4, <3>1, <3>3 DEF PathInv, MetOnThePath
    <3> QED
      BY <3>2, <3>3
  <2>5. ASSUME NEW e \in Daemons, Listening(e)', path' # e
        PROVE  e \in overtaken' \/ met'[e] \cap removed' # {}
    <3>1. CASE e = d
      BY <1>8, <2>1, <2>2, <2>5, <3>1 DEF Bind, Proceed, Listening, PathInv
    <3>2. CASE e # d
      <4>1. Listening(e) /\ path # e
        BY <1>8, <2>3, <2>5, <3>2, DaemonAssumption DEF Bind
      <4> QED
        BY <2>1, <2>3, <3>2, <4>1 DEF PathInv, FoundAtPath
    <3> QED
      BY <3>1, <3>2
  <2> QED
    BY <2>4, <2>5 DEF MetOnThePath, FoundAtPath
<1>4. ASSUME NEW d \in Daemons,
             Accept(d) \/ Read(d) \/ Run(d) \/ CloseServer(d) \/ Kill(d)
      PROVE  MetOnThePath' /\ FoundAtPath'
  <2>1. \A e \in Daemons : (Listening(e)' => Listening(e)) /\ (Running(e)' => Running(e))
    BY <1>4 DEF Accept, Read, Run, CloseServer, Kill, Proceed, Listening, Running, PathInv
  <2>2. path' = path /\ UNCHANGED <<met, overtaken, removed>>
    BY <1>4 DEF Accept, Read, Run, CloseServer, Kill
  <2> QED
    BY <2>1, <2>2, PathKept
<1>5. ASSUME NEW d \in Daemons, Reply(d) \/ Goodbye(d) \/ SendError(d)
      PROVE  MetOnThePath' /\ FoundAtPath'
  <2>1. \A e \in Daemons : (Listening(e)' => Listening(e)) /\ (Running(e)' => Running(e))
    BY <1>5 DEF Reply, Goodbye, SendError, AnswerClient, Proceed, Listening, Running, PathInv
  <2>2. path' = path /\ UNCHANGED <<met, overtaken, removed>>
    BY <1>5 DEF Reply, Goodbye, SendError, AnswerClient
  <2> QED
    BY <2>1, <2>2, PathKept
(* The last act of a daemon removes whatever is at the path: a daemon that   *)
(* listens beside it was overtaken or has met it.                            *)
<1>6. ASSUME NEW d \in Daemons, RemovePath(d) PROVE MetOnThePath' /\ FoundAtPath'
  <2>1. /\ loop[d] = "unlink" /\ loop' = [loop EXCEPT ![d] = "ended"]
        /\ UNCHANGED <<met, overtaken>> /\ removed' = removed \cup {d}
    BY <1>6 DEF RemovePath, Proceed
  <2>2. /\ Running(d) /\ ~ Listening(d)' /\ ~ Running(d)'
        /\ \A e \in Daemons : e # d => Running(e)' = Running(e) /\ Listening(e)' = Listening(e)
    BY <2>1 DEF Running, Listening, PathInv
  <2>3. MetOnThePath'
    BY <2>1, <2>2 DEF MetOnThePath, PathInv
  <2>4. \A e \in Daemons : Listening(e)' => e \in overtaken \/ d \in met[e]
    BY <2>2 DEF MetOnThePath, PathInv
  <2>5. FoundAtPath'
    BY <2>1, <2>4 DEF FoundAtPath
  <2> QED
    BY <2>3, <2>5
<1>7. ASSUME UNCHANGED daemonVars PROVE MetOnThePath' /\ FoundAtPath'
  BY <1>7, PathKept DEF daemonVars, Listening, Running
<1> QED
  BY <1>0, <1>1, <1>2, <1>3, <1>4, <1>5, <1>6, <1>7, <1>8 DEF DaemonNext, ServeStep, PathInv

-----------------------------------------------------------------------------
(* Theorem: the variables of the daemons and their clients keep their types, *)
(* and a daemon that reads, runs or answers has the connection of a client.  *)
THEOREM DaemonTypeCorrect == DaemonSpec => []DaemonTyped
  BY DaemonInitTyped, DaemonTypeStep, PTL DEF DaemonSpec

(* Theorem: no request that raises and no client that left before it sent    *)
(* anything ends serve(): a daemon ends told to, killed, by accept itself,   *)
(* or by an answer to a client that had left.                                *)
THEOREM DaemonsEndForACause == DaemonSpec => []EndHasCause
<1>1. DaemonInit => EndHasCause
  BY DEF DaemonInit, EndHasCause
<1> QED
  BY <1>1, DaemonTypeCorrect, EndStep, PTL DEF DaemonSpec

(* Theorem: whatever sockets earlier daemons left or were killed over, and   *)
(* however starts and ends overlap, one that listens is found at the path    *)
(* until another is started, or one that ran when it bound ends and removes  *)
(* the file.                                                                 *)
THEOREM DaemonsAreFound == DaemonSpec => []FoundAtPath
<1>1. DaemonInit => PathInv
  BY DaemonInitTyped DEF DaemonInit, PathInv, MetOnThePath, FoundAtPath, Running, Listening
<1>2. PathInv => FoundAtPath
  BY DEF PathInv
<1> QED
  BY <1>1, <1>2, PathStep, PTL DEF DaemonSpec
=============================================================================
