--------------------------- MODULE EventStream_proofs ---------------------------
(***************************************************************************)
(* Proofs about EventStream, for every number of publishers, events and    *)
(* connections and every size of the ring, the queues and the wire.        *)
(***************************************************************************)
EXTENDS EventStream, TLAPS

\* What the assumptions say of each constant.
LEMMA SizesType ==
  /\ Buffer \in Nat \ {0} /\ QueueSize \in Nat \ {0} /\ WireSize \in Nat \ {0}
  /\ MaxEvents \in Nat \ {0} /\ MaxConns \in Nat \ {0}
  BY SizesAssumption

LEMMA TailLength ==
  ASSUME NEW S, NEW s \in Seq(S), s # << >>
  PROVE  /\ Head(s) \in S /\ Tail(s) \in Seq(S) /\ Len(Tail(s)) = Len(s) - 1
  OBVIOUS

LEMMA AppendElements ==
  ASSUME NEW s \in Seq(Nat), NEW x \in Nat, NEW t, t = s \/ t = Append(s, x)
  PROVE  \A i \in DOMAIN t : \/ i \in DOMAIN s /\ t[i] = s[i]
                             \/ i = Len(s) + 1 /\ i \notin DOMAIN s /\ t[i] = x
  <1>1. CASE t = s
    BY <1>1
  <1>2. CASE t = Append(s, x)
    <2>1. /\ DOMAIN t = 1..Len(s) + 1 /\ DOMAIN s = 1..Len(s) /\ Len(s) \in Nat
          /\ t[Len(s) + 1] = x /\ \A i \in 1..Len(s) : t[i] = s[i]
      BY <1>2
    <2> QED  BY <2>1
  <1> QED  BY <1>1, <1>2

LEMMA TailElements ==
  ASSUME NEW s \in Seq(Nat), s # << >>
  PROVE  /\ 1 \in DOMAIN s /\ Head(s) = s[1] /\ Head(s) \in Nat
         /\ \A i \in DOMAIN Tail(s) : /\ i \in Nat /\ i + 1 \in DOMAIN s /\ i + 1 # 1
                                      /\ Tail(s)[i] = s[i + 1]
  <1>1. /\ Len(s) \in Nat /\ Len(s) # 0 /\ DOMAIN s = 1..Len(s)
        /\ Tail(s) \in Seq(Nat) /\ Len(Tail(s)) = Len(s) - 1
    OBVIOUS
  <1>2. DOMAIN Tail(s) = 1..(Len(s) - 1)
    BY <1>1
  <1>3. \A i \in 1..(Len(s) - 1) : Tail(s)[i] = s[i + 1]
    BY <1>1
  <1> QED  BY <1>1, <1>2, <1>3

-----------------------------------------------------------------------------
(* Type correctness.                                                       *)

LEMMA PublishType ==
  ASSUME TypeOK, NEW p \in Publishers, NEW kind \in Kinds, Publish(p, kind)
  PROVE  TypeOK'
  <1>1. /\ log' \in Seq([by : Publishers, kind : Kinds])
        /\ Len(log) + 1 \in Nat
    BY DEF TypeOK, Publish
  <1>2. lost' \in [Reasons -> SUBSET Nat]
    BY <1>1 DEF TypeOK, Publish, Lose, Reasons
  <1> QED  BY <1>1, <1>2 DEF TypeOK, Publish, handlerVars, clientVars, Conns

LEMMA DeliverType ==
  ASSUME TypeOK, NEW p \in Publishers, NEW c \in Conns, Deliver(p, c)
  PROVE  TypeOK'
  <1>1. event[p] \in Nat /\ Len(queue[c]) \in Nat
    BY DEF TypeOK
  <1>2. lost' \in [Reasons -> SUBSET Nat]
    BY <1>1 DEF TypeOK, Deliver, Lose, Reasons
  <1>3. CASE Len(queue[c]) < QueueSize
    <2>1. queue' = [queue EXCEPT ![c] = Append(@, event[p])]
      BY <1>1, <1>3, SizesType DEF Deliver
    <2>2. Append(queue[c], event[p]) \in Seq(Nat) /\ Len(Append(queue[c], event[p])) = Len(queue[c]) + 1
      BY <1>1 DEF TypeOK
    <2>3. queue' \in [Conns -> Seq(Nat)] /\ \A k \in Conns : Len(queue'[k]) <= QueueSize
      BY <2>1, <2>2, <1>1, <1>3, SizesType DEF TypeOK
    <2> QED  BY <1>2, <2>3 DEF TypeOK, Deliver, clientVars
  <1>4. CASE Len(queue[c]) >= QueueSize
    <2>1. queue' = queue
      BY <1>1, <1>4, SizesType DEF Deliver
    <2> QED  BY <1>2, <2>1 DEF TypeOK, Deliver, clientVars
  <1> QED  BY <1>1, <1>3, <1>4, SizesType

LEMMA ServeType ==
  ASSUME TypeOK, NEW c \in Conns, Serve(c)
  PROVE  TypeOK'
  <1> USE SizesType
  <1>0. Len(log) \in Nat /\ todo[c] \in Nat /\ upto[c] \in Nat
    BY DEF TypeOK
  <1>1. CASE Resolve(c)
    <2>1. todo' \in [Conns -> Nat] /\ since' \in Nat
      BY <1>0, <1>1 DEF TypeOK, Resolve
    <2> QED  BY <1>1, <2>1 DEF TypeOK, Resolve, hubVars, clientVars
  <1>2. CASE Snapshot(c)
    <2>1. todo' \in [Conns -> Nat]
      BY <1>0, <1>2 DEF TypeOK, Snapshot
    <2>2. lost' \in [Reasons -> SUBSET Nat]
      BY <1>0, <1>2 DEF TypeOK, Snapshot, Lose, Reasons, Ids
    <2> QED  BY <1>0, <1>2, <2>1, <2>2 DEF TypeOK, Snapshot, hubVars, clientVars
  <1>3. CASE ReplayOne(c)
    <2>0. wire[c] \in Seq(Nat) /\ Append(wire[c], todo[c]) \in Seq(Nat)
      BY <1>0 DEF TypeOK
    <2>1. wire' \in [Conns -> Seq(Nat)]
      <3>1. CASE Matches(todo[c])
        BY <3>1, <1>3, <2>0 DEF TypeOK, ReplayOne
      <3>2. CASE ~Matches(todo[c])
        BY <3>2, <1>3 DEF TypeOK, ReplayOne
      <3> QED  BY <3>1, <3>2
    <2>2. todo' \in [Conns -> Nat]
      BY <1>0, <1>3 DEF TypeOK, ReplayOne
    <2> QED  BY <1>3, <2>1, <2>2 DEF TypeOK, ReplayOne, hubVars, clientVars
  <1>4. CASE Subscribe(c)
    BY <1>4 DEF TypeOK, Subscribe, clientVars
  <1>5. CASE Pump(c)
    <2>1. queue[c] \in Seq(Nat) /\ queue[c] # << >> /\ Len(queue[c]) <= QueueSize /\ wire[c] \in Seq(Nat)
      BY <1>5 DEF TypeOK, Pump
    <2>2. /\ Head(queue[c]) \in Nat /\ Tail(queue[c]) \in Seq(Nat)
          /\ Len(Tail(queue[c])) = Len(queue[c]) - 1 /\ Len(queue[c]) \in Nat
      BY <2>1, TailLength
    <2>3. wire' \in [Conns -> Seq(Nat)]
      <3>0. Append(wire[c], Head(queue[c])) \in Seq(Nat)
        BY <2>1, <2>2
      <3>1. CASE Matches(Head(queue[c]))
        BY <3>0, <3>1, <1>5 DEF TypeOK, Pump
      <3>2. CASE ~Matches(Head(queue[c]))
        BY <3>2, <1>5 DEF TypeOK, Pump
      <3> QED  BY <3>1, <3>2
    <2>4. queue' \in [Conns -> Seq(Nat)] /\ \A k \in Conns : Len(queue'[k]) <= QueueSize
      BY <1>5, <2>1, <2>2 DEF TypeOK, Pump
    <2> QED  BY <1>5, <2>3, <2>4 DEF TypeOK, Pump, hubVars, clientVars
  <1>6. CASE Fail(c)
    BY <1>6 DEF TypeOK, Fail, clientVars
  <1> QED  BY <1>1, <1>2, <1>3, <1>4, <1>5, <1>6 DEF Serve

LEMMA ClientType ==
  ASSUME TypeOK, Connect \/ Receive \/ Drop
  PROVE  TypeOK'
  <1> USE SizesType
  <1>1. CASE Connect
    <2>1. conn' \in 0..MaxConns /\ conn' # 0
      BY <1>1 DEF TypeOK, Connect
    <2>2. handler' \in [Conns -> {"off", "requested", "resolved", "replay", "live", "dead"}]
      BY <1>1 DEF TypeOK, Connect
    <2> QED  BY <1>1, <2>1, <2>2 DEF TypeOK, Connect, hubVars
  <1>2. CASE Receive
    <2>1. conn \in Conns /\ wire[conn] \in Seq(Nat) /\ wire[conn] # << >>
      BY <1>2 DEF TypeOK, Receive, Conns
    <2>2. Head(wire[conn]) \in Nat /\ Tail(wire[conn]) \in Seq(Nat)
      BY <2>1, TailLength
    <2>3. wire' \in [Conns -> Seq(Nat)] /\ received' \in Seq(Nat) /\ last' \in Nat
      BY <1>2, <2>1, <2>2 DEF TypeOK, Receive
    <2>4. client' \in {"open", "done"} /\ conn' = conn /\ conn # 0
      BY <1>2, <2>1 DEF TypeOK, Receive, Conns
    <2> QED  BY <1>2, <2>3, <2>4 DEF TypeOK, Receive, hubVars
  <1>3. CASE Drop
    <2>1. conn \in Conns
      BY <1>3 DEF TypeOK, Drop, Conns
    <2>2. /\ Elements(wire[conn]) \subseteq Nat /\ Elements(queue[conn]) \subseteq Nat
          /\ Pending(conn) \subseteq Nat /\ todo[conn]..upto[conn] \subseteq Nat
      BY <2>1 DEF TypeOK, Elements, Pending
    <2>3. InFlight(conn) \subseteq Nat
      BY <2>2 DEF InFlight
    <2>4. lost' \in [Reasons -> SUBSET Nat]
      BY <1>3, <2>3 DEF TypeOK, Drop, Lose, Reasons
    <2> QED  BY <1>3, <2>4 DEF TypeOK, Drop, hubVars, handlerVars
  <1> QED  BY <1>1, <1>2, <1>3

LEMMA NextType ==
  ASSUME TypeOK, [Next]_vars
  PROVE  TypeOK'
  <1>1. CASE \E p \in Publishers, kind \in Kinds : Publish(p, kind)
    BY <1>1, PublishType
  <1>2. CASE \E p \in Publishers, c \in Conns : Deliver(p, c)
    BY <1>2, DeliverType
  <1>3. CASE \E c \in Conns : Serve(c)
    BY <1>3, ServeType
  <1>4. CASE Connect \/ Receive \/ Drop
    BY <1>4, ClientType
  <1>5. CASE UNCHANGED vars
    BY <1>5 DEF TypeOK, vars, hubVars, handlerVars, clientVars
  <1> QED  BY <1>1, <1>2, <1>3, <1>4, <1>5 DEF Next

\* Every variable keeps its type, and no queue outgrows its bound.
THEOREM TypeCorrect == Spec => []TypeOK
  <1>1. Init => TypeOK
    BY SizesType DEF Init, TypeOK, Conns, Reasons, Kinds
  <1> QED  BY <1>1, NextType, PTL DEF Spec

-----------------------------------------------------------------------------
(* stream_run yields no event twice.                                       *)

\* Everything the invariant reads of the hub stays as it is but for a queue.
LEMMA PublishStep ==
  ASSUME TypeOK, RunStreamInv, NEW p \in Publishers, NEW kind \in Kinds, Publish(p, kind)
  PROVE  RunStreamInv'
  <1>1. /\ Len(log') = Len(log) + 1 /\ Len(log) \in Nat
        /\ Ids \subseteq Ids' /\ Len(log) + 1 \in Ids' /\ \A i \in Ids : i # Len(log) + 1
    BY DEF Publish, TypeOK, Ids
  <1>2. /\ UNCHANGED <<subs, handler, todo, upto, queue, wire, client, conn, last, received>>
        /\ event' = [event EXCEPT ![p] = Len(log) + 1]
        /\ to' = [to EXCEPT ![p] = subs]
    BY DEF Publish, handlerVars, clientVars
  <1>3. \A k \in Conns : conn < k => Later(k)'
    BY <1>2 DEF RunStreamInv, Later, TypeOK
  <1>4. last' <= Len(log') /\ (\A i \in DOMAIN received' : received'[i] <= last') /\ Distinct(received)'
    BY <1>1, <1>2 DEF RunStreamInv, Distinct, TypeOK
  <1>5. ASSUME client = "open"
        PROVE  /\ conn \in Conns /\ WireInv(conn)' /\ QueueInv(conn)'
               /\ PendingInv(conn)' /\ ReplayInv(conn)'
    <2>1. /\ conn \in Conns /\ WireInv(conn) /\ QueueInv(conn)
          /\ PendingInv(conn) /\ ReplayInv(conn)
      BY <1>5 DEF RunStreamInv
    <2>2. WireInv(conn)' /\ QueueInv(conn)'
      BY <1>1, <1>2, <2>1 DEF WireInv, QueueInv, Distinct
    <2>3. /\ \A j \in DOMAIN received : received[j] # Len(log) + 1
          /\ \A j \in DOMAIN wire[conn] : wire[conn][j] # Len(log) + 1
          /\ \A j \in DOMAIN queue[conn] : queue[conn][j] # Len(log) + 1
      <3>1. \A j \in DOMAIN received : received[j] \in Nat /\ received[j] <= last /\ last <= Len(log)
        BY DEF RunStreamInv, TypeOK
      <3> QED  BY <3>1, <1>1, <2>1 DEF WireInv, QueueInv, TypeOK
    <2>4. PendingInv(conn)'
      <3> SUFFICES ASSUME NEW r \in Publishers, conn \in to'[r]
                   PROVE  /\ event'[r] \in Ids'
                          /\ \A j \in DOMAIN received : event'[r] # received[j]
                          /\ \A j \in DOMAIN wire[conn] : event'[r] # wire[conn][j]
                          /\ \A j \in DOMAIN queue[conn] : event'[r] # queue[conn][j]
                          /\ \A q \in Publishers :
                                conn \in to'[q] /\ event'[r] = event'[q] => r = q
        BY <1>2 DEF PendingInv
      <3>1. \A q \in Publishers : q # p => event'[q] = event[q] /\ to'[q] = to[q]
        BY <1>2 DEF TypeOK
      <3>2. event'[p] = Len(log) + 1
        BY <1>2 DEF TypeOK
      <3>3. CASE r = p
        <4>1. \A q \in Publishers : q # p /\ conn \in to'[q] => event'[q] # event'[p]
          BY <1>1, <2>1, <3>1, <3>2 DEF PendingInv
        <4> QED  BY <1>1, <2>3, <3>2, <3>3, <4>1
      <3>4. CASE r # p
        BY <1>1, <2>1, <3>1, <3>2, <3>4 DEF PendingInv
      <3> QED  BY <3>3, <3>4
    <2>5. ReplayInv(conn)'
      BY <1>1, <1>2, <2>1 DEF ReplayInv, TypeOK
    <2> QED  BY <2>1, <2>2, <2>4, <2>5
  <1> QED  BY <1>2, <1>3, <1>4, <1>5 DEF RunStreamInv

LEMMA DeliverStep ==
  ASSUME TypeOK, RunStreamInv, NEW p \in Publishers, NEW c \in Conns, Deliver(p, c)
  PROVE  RunStreamInv'
  <1>1. /\ UNCHANGED <<log, subs, event, handler, todo, upto, wire, client, conn, last, received>>
        /\ c \in to[p]
        /\ to' = [to EXCEPT ![p] = @ \ {c}]
        /\ \/ queue' = [queue EXCEPT ![c] = Append(@, event[p])]
           \/ queue' = queue
    BY DEF Deliver, clientVars
  <1>2. \A q \in Publishers : to'[q] \subseteq to[q]
    BY <1>1 DEF TypeOK
  <1>3. \A k \in Conns : conn < k => Later(k)'
    <2> SUFFICES ASSUME NEW k \in Conns, conn < k PROVE Later(k)'
      OBVIOUS
    <2>1. Later(k)
      BY DEF RunStreamInv
    <2>2. queue'[k] = queue[k]
      BY <1>1, <2>1 DEF Later, TypeOK
    <2> QED  BY <1>1, <1>2, <2>1, <2>2 DEF Later
  <1>4. last' <= Len(log') /\ (\A i \in DOMAIN received' : received'[i] <= last') /\ Distinct(received)'
    BY <1>1 DEF RunStreamInv, Distinct
  <1>5. ASSUME client = "open"
        PROVE  /\ conn \in Conns /\ WireInv(conn)' /\ QueueInv(conn)'
               /\ PendingInv(conn)' /\ ReplayInv(conn)'
    <2>1. /\ conn \in Conns /\ WireInv(conn) /\ QueueInv(conn)
          /\ PendingInv(conn) /\ ReplayInv(conn)
      BY <1>5 DEF RunStreamInv
    <2>2. WireInv(conn)'
      BY <1>1, <2>1 DEF WireInv, Ids, Distinct
    <2>3. CASE queue'[conn] = queue[conn]
      <3>1. QueueInv(conn)'
        BY <1>1, <2>1, <2>3 DEF QueueInv, Ids, Distinct
      <3>2. PendingInv(conn)'
        BY <1>1, <1>2, <2>1, <2>3 DEF PendingInv, Ids
      <3>3. ReplayInv(conn)'
        BY <1>1, <1>2, <2>1, <2>3 DEF ReplayInv
      <3> QED  BY <2>1, <2>2, <3>1, <3>2, <3>3
    <2>4. CASE queue'[conn] # queue[conn]
      <3>1. c = conn /\ queue'[conn] = Append(queue[conn], event[p])
        BY <1>1, <2>1, <2>4 DEF TypeOK
      <3>2. handler[conn] = "live"
        BY <1>1, <2>1, <3>1 DEF ReplayInv
      <3>3. /\ queue[conn] \in Seq(Nat) /\ event[p] \in Nat
            /\ Len(queue'[conn]) = Len(queue[conn]) + 1
            /\ \A i \in 1..Len(queue[conn]) : queue'[conn][i] = queue[conn][i]
            /\ queue'[conn][Len(queue[conn]) + 1] = event[p]
            /\ DOMAIN queue[conn] = 1..Len(queue[conn])
            /\ DOMAIN queue'[conn] = 1..(Len(queue[conn]) + 1)
        BY <2>1, <3>1 DEF TypeOK
      <3>4. \A i \in DOMAIN queue'[conn] : \/ i \in DOMAIN queue[conn] /\ queue'[conn][i] = queue[conn][i]
                                           \/ i = Len(queue[conn]) + 1 /\ queue'[conn][i] = event[p]
        BY <3>3
      <3>5. QueueInv(conn)'
        <4>1. Distinct(queue'[conn])
          BY <1>1, <2>1, <3>1, <3>3, <3>4 DEF QueueInv, PendingInv, Distinct
        <4> QED  BY <1>1, <2>1, <3>1, <3>4, <4>1 DEF QueueInv, PendingInv, Ids
      <3>6. \A q \in Publishers : conn \in to'[q] => q # p /\ conn \in to[q]
        BY <1>1, <3>1 DEF TypeOK
      <3>7. PendingInv(conn)'
        BY <1>1, <2>1, <3>1, <3>4, <3>6 DEF PendingInv, Ids
      <3>8. ReplayInv(conn)'
        BY <1>1, <2>1, <3>2 DEF ReplayInv
      <3> QED  BY <2>1, <2>2, <3>5, <3>7, <3>8
    <2> QED  BY <2>3, <2>4
  <1> QED  BY <1>1, <1>3, <1>4, <1>5 DEF RunStreamInv

\* What a handler's step leaves alone, but for the replay of connection c.
LEMMA OthersStep ==
  ASSUME TypeOK, RunStreamInv, NEW c \in Conns, handler[c] # "off",
         UNCHANGED <<log, event, to, client, conn, last, received>>,
         subs' \subseteq subs \cup {c},
         \A k \in Conns : k # c => /\ handler'[k] = handler[k] /\ todo'[k] = todo[k] /\ upto'[k] = upto[k]
                                   /\ wire'[k] = wire[k] /\ queue'[k] = queue[k],
         client = "open" /\ c = conn =>
             WireInv(conn)' /\ QueueInv(conn)' /\ PendingInv(conn)' /\ ReplayInv(conn)'
  PROVE  RunStreamInv'
  <1>1. \A k \in Conns : conn < k => Later(k)'
    <2> SUFFICES ASSUME NEW k \in Conns, conn < k PROVE Later(k)'
      OBVIOUS
    <2>1. Later(k) /\ k # c
      BY DEF RunStreamInv, Later
    <2> QED  BY <2>1 DEF Later
  <1>2. last' <= Len(log') /\ (\A i \in DOMAIN received' : received'[i] <= last') /\ Distinct(received)'
    BY DEF RunStreamInv, Distinct
  <1>3. ASSUME client = "open", c # conn
        PROVE  WireInv(conn)' /\ QueueInv(conn)' /\ PendingInv(conn)' /\ ReplayInv(conn)'
    <2>1. /\ conn \in Conns /\ WireInv(conn) /\ QueueInv(conn)
          /\ PendingInv(conn) /\ ReplayInv(conn)
      BY <1>3 DEF RunStreamInv
    <2>2. WireInv(conn)' /\ QueueInv(conn)' /\ PendingInv(conn)'
      BY <1>3, <2>1 DEF WireInv, QueueInv, PendingInv, Ids, Distinct
    <2>3. ReplayInv(conn)'
      BY <1>3, <2>1 DEF ReplayInv
    <2> QED  BY <2>2, <2>3
  <1>4. client' = "open" => conn' \in Conns
    BY DEF RunStreamInv
  <1>5. ASSUME client = "open"
        PROVE  WireInv(conn)' /\ QueueInv(conn)' /\ PendingInv(conn)' /\ ReplayInv(conn)'
    BY <1>3, <1>5
  <1> QED  BY <1>1, <1>2, <1>4, <1>5 DEF RunStreamInv

LEMMA ServeStep ==
  ASSUME TypeOK, RunStreamInv, follower = "stream_run", NEW c \in Conns, Serve(c)
  PROVE  RunStreamInv'
  <1> DEFINE Current == WireInv(conn)' /\ QueueInv(conn)' /\ PendingInv(conn)' /\ ReplayInv(conn)'
  <1>0. ASSUME client = "open", c = conn
        PROVE  /\ conn \in Conns /\ WireInv(conn) /\ QueueInv(conn)
               /\ PendingInv(conn) /\ ReplayInv(conn)
    BY <1>0 DEF RunStreamInv
  <1>t. last \in Nat /\ Len(log) \in Nat /\ todo[c] \in Nat /\ upto[c] \in Nat
    BY DEF TypeOK
  <1>1. CASE Resolve(c)
    <2>1. /\ UNCHANGED <<log, subs, event, to, upto, queue, wire, client, conn, last, received>>
          /\ handler' = [handler EXCEPT ![c] = "resolved"]
          /\ todo' = [todo EXCEPT ![c] = 1 + last]
          /\ handler[c] = "requested"
      BY <1>1 DEF Resolve, NoCursor, hubVars, clientVars
    <2>2. ASSUME client = "open", c = conn PROVE Current
      <3>1. handler'[c] = "resolved" /\ last < todo'[c]
        BY <1>t, <2>1 DEF TypeOK
      <3>2. WireInv(conn)' /\ QueueInv(conn)' /\ PendingInv(conn)'
        BY <1>0, <2>1, <2>2 DEF WireInv, QueueInv, PendingInv, Ids, Distinct
      <3>3. ReplayInv(conn)'
        BY <1>0, <2>1, <2>2, <3>1 DEF ReplayInv
      <3> QED  BY <3>2, <3>3
    <2>3. \A k \in Conns : k # c => handler'[k] = handler[k] /\ todo'[k] = todo[k]
      BY <2>1 DEF TypeOK
    <2> QED  BY <2>1, <2>2, <2>3, OthersStep
  <1>2. CASE Snapshot(c)
    <2>1. /\ UNCHANGED <<log, subs, event, to, queue, wire, client, conn, last, received>>
          /\ handler' = [handler EXCEPT ![c] = "replay"]
          /\ upto' = [upto EXCEPT ![c] = Len(log)]
          /\ todo' = [todo EXCEPT ![c] = IF @ + Buffer <= Len(log) THEN Len(log) + 1 - Buffer ELSE @]
          /\ handler[c] = "resolved"
      BY <1>2 DEF Snapshot, hubVars, clientVars
    <2>2. ASSUME client = "open", c = conn PROVE Current
      <3>1. handler'[c] = "replay" /\ upto'[c] = Len(log) /\ last < todo'[c] /\ wire[c] = << >>
        <4>1. last < todo[c] /\ wire[c] = << >>
          BY <1>0, <2>1, <2>2 DEF ReplayInv
        <4>2. todo'[c] = IF todo[c] + Buffer <= Len(log) THEN Len(log) + 1 - Buffer ELSE todo[c]
          BY <2>1 DEF TypeOK
        <4>3. handler'[c] = "replay" /\ upto'[c] = Len(log)
          BY <2>1 DEF TypeOK
        <4> QED  BY <1>t, <4>1, <4>2, <4>3, SizesType
      <3>2. WireInv(conn)' /\ QueueInv(conn)' /\ PendingInv(conn)'
        BY <1>0, <2>1, <2>2 DEF WireInv, QueueInv, PendingInv, Ids, Distinct
      <3>3. ReplayInv(conn)'
        BY <1>0, <1>t, <2>1, <2>2, <3>1 DEF ReplayInv
      <3> QED  BY <3>2, <3>3
    <2>3. \A k \in Conns : k # c => handler'[k] = handler[k] /\ todo'[k] = todo[k] /\ upto'[k] = upto[k]
      BY <2>1 DEF TypeOK
    <2> QED  BY <2>1, <2>2, <2>3, OthersStep
  <1>3. CASE ReplayOne(c)
    <2>1. /\ UNCHANGED <<log, subs, event, to, handler, upto, queue, client, conn, last, received>>
          /\ handler[c] = "replay" /\ client = "open" /\ c = conn /\ todo[c] <= upto[c]
          /\ todo' = [todo EXCEPT ![c] = @ + 1]
          /\ wire' = wire \/ wire' = [wire EXCEPT ![c] = Append(@, todo[c])]
      BY <1>3 DEF ReplayOne, Open, hubVars, clientVars
    <2>2. /\ todo'[c] = todo[c] + 1
          /\ wire'[c] = wire[c] \/ wire'[c] = Append(wire[c], todo[c])
      BY <2>1 DEF TypeOK
    <2>3. /\ last < todo[c] /\ todo[c] <= upto[c] /\ upto[c] <= Len(log)
          /\ queue[c] = << >> /\ c \notin subs /\ \A p \in Publishers : c \notin to[p]
          /\ \A i \in DOMAIN wire[c] : wire[c][i] < todo[c]
      BY <1>0, <2>1 DEF ReplayInv
    <2>4. todo[c] \in Ids /\ \A j \in DOMAIN received : received[j] # todo[c]
      <3>1. todo[c] \in 1..Len(log)
        BY <1>t, <2>3
      <3>2. \A j \in DOMAIN received : received[j] \in Nat /\ received[j] <= last
        BY DEF RunStreamInv, TypeOK
      <3>3. \A j \in DOMAIN received : received[j] # todo[c]
        BY <1>t, <2>3, <3>2
      <3> QED  BY <3>1, <3>3 DEF Ids
    <2>5. \A i \in DOMAIN wire'[c] : \/ i \in DOMAIN wire[c] /\ wire'[c][i] = wire[c][i]
                                     \/ i = Len(wire[c]) + 1 /\ i \notin DOMAIN wire[c] /\ wire'[c][i] = todo[c]
      <3>1. wire[c] \in Seq(Nat) /\ todo[c] \in Nat
            /\ (wire'[c] = wire[c] \/ wire'[c] = Append(wire[c], todo[c]))
        BY <2>2 DEF TypeOK
      <3>2. CASE wire'[c] = wire[c]
        BY <3>2
      <3>3. CASE wire'[c] = Append(wire[c], todo[c])
        <4>1. /\ DOMAIN wire[c] = 1..Len(wire[c]) /\ Len(wire[c]) \in Nat
              /\ DOMAIN wire'[c] = 1..(Len(wire[c]) + 1)
              /\ wire'[c][Len(wire[c]) + 1] = todo[c]
              /\ \A i \in 1..Len(wire[c]) : wire'[c][i] = wire[c][i]
          BY <3>1, <3>3
        <4> QED  BY <4>1
      <3> QED  BY <3>1, <3>2, <3>3
    <2>6. \A i \in DOMAIN wire[c] : wire[c][i] \in Nat
      BY DEF TypeOK
    <2>7. WireInv(conn)'
      <3>1. Distinct(wire'[c])
        BY <1>0, <1>t, <2>1, <2>3, <2>5, <2>6 DEF WireInv, Distinct
      <3> QED  BY <1>0, <2>1, <2>4, <2>5, <3>1 DEF WireInv, Ids
    <2>8. QueueInv(conn)' /\ PendingInv(conn)'
      BY <2>1, <2>3 DEF QueueInv, PendingInv, Distinct
    <2>9. ReplayInv(conn)'
      BY <1>t, <2>1, <2>2, <2>3, <2>5, <2>6 DEF ReplayInv
    <2>10. \A k \in Conns : k # c => todo'[k] = todo[k] /\ wire'[k] = wire[k]
      BY <2>1 DEF TypeOK
    <2> QED  BY <2>1, <2>7, <2>8, <2>9, <2>10, OthersStep
  <1>4. CASE Subscribe(c)
    <2>1. /\ UNCHANGED <<log, event, to, todo, upto, queue, wire, client, conn, last, received>>
          /\ handler' = [handler EXCEPT ![c] = "live"]
          /\ subs' = subs \cup {c}
          /\ handler[c] = "replay"
      BY <1>4 DEF Subscribe, clientVars
    <2>2. ASSUME client = "open", c = conn PROVE Current
      <3>1. handler'[c] = "live"
        BY <2>1 DEF TypeOK
      <3>2. WireInv(conn)' /\ QueueInv(conn)' /\ PendingInv(conn)'
        BY <1>0, <2>1, <2>2 DEF WireInv, QueueInv, PendingInv, Ids, Distinct
      <3>3. ReplayInv(conn)'
        BY <2>1, <2>2, <3>1 DEF ReplayInv
      <3> QED  BY <3>2, <3>3
    <2>3. \A k \in Conns : k # c => handler'[k] = handler[k]
      BY <2>1 DEF TypeOK
    <2> QED  BY <2>1, <2>2, <2>3, OthersStep
  <1>5. CASE Pump(c)
    <2>1. /\ UNCHANGED <<log, subs, event, to, handler, todo, upto, client, conn, last, received>>
          /\ handler[c] = "live" /\ queue[c] # << >>
          /\ queue' = [queue EXCEPT ![c] = Tail(@)]
          /\ wire' = wire \/ wire' = [wire EXCEPT ![c] = Append(@, Head(queue[c]))]
      BY <1>5 DEF Pump, hubVars, clientVars
    <2>2. /\ queue[c] \in Seq(Nat) /\ wire[c] \in Seq(Nat)
          /\ queue'[c] = Tail(queue[c])
          /\ wire'[c] = wire[c] \/ wire'[c] = Append(wire[c], Head(queue[c]))
      BY <2>1 DEF TypeOK
    <2>3. \A k \in Conns : k # c => queue'[k] = queue[k] /\ wire'[k] = wire[k]
      BY <2>1 DEF TypeOK
    <2>4. /\ 1 \in DOMAIN queue[c] /\ Head(queue[c]) = queue[c][1] /\ Head(queue[c]) \in Nat
          /\ \A i \in DOMAIN queue'[c] : /\ i + 1 \in DOMAIN queue[c] /\ i + 1 # 1 /\ i \in Nat
                                         /\ queue'[c][i] = queue[c][i + 1]
      <3>1. queue[c] \in Seq(Nat) /\ queue[c] # << >>
        BY <2>1, <2>2
      <3>2. /\ 1 \in DOMAIN queue[c] /\ Head(queue[c]) = queue[c][1] /\ Head(queue[c]) \in Nat
            /\ \A i \in DOMAIN Tail(queue[c]) : /\ i \in Nat /\ i + 1 \in DOMAIN queue[c] /\ i + 1 # 1
                                              /\ Tail(queue[c])[i] = queue[c][i + 1]
        BY <3>1, TailElements
      <3> QED  BY <2>2, <3>2
    <2>5. \A i \in DOMAIN wire'[c] : \/ i \in DOMAIN wire[c] /\ wire'[c][i] = wire[c][i]
                                     \/ i = Len(wire[c]) + 1 /\ i \notin DOMAIN wire[c] /\ wire'[c][i] = queue[c][1]
      <3>1. wire[c] \in Seq(Nat) /\ queue[c][1] \in Nat
            /\ (wire'[c] = wire[c] \/ wire'[c] = Append(wire[c], queue[c][1]))
        BY <2>2, <2>4
      <3> QED  BY <3>1, AppendElements
    <2>6. ASSUME client = "open", c = conn PROVE Current
      <3>1. WireInv(conn) /\ QueueInv(conn) /\ PendingInv(conn) /\ ReplayInv(conn)
        BY <1>0, <2>6
      <3>2. Distinct(wire'[c])
        BY <2>4, <2>5, <2>6, <3>1 DEF WireInv, QueueInv, Distinct
      <3>3. WireInv(conn)'
        BY <2>1, <2>4, <2>5, <2>6, <3>1, <3>2 DEF WireInv, QueueInv, Ids
      <3>4. Distinct(queue'[c])
        BY <2>4, <2>6, <3>1 DEF QueueInv, Distinct
      <3>5. QueueInv(conn)'
        BY <2>1, <2>4, <2>5, <2>6, <3>1, <3>4 DEF QueueInv, Ids, Distinct
      <3>6. PendingInv(conn)'
        BY <2>1, <2>4, <2>5, <2>6, <3>1 DEF PendingInv, Ids
      <3>7. ReplayInv(conn)'
        BY <2>1, <2>6, <3>1 DEF ReplayInv
      <3> QED  BY <3>3, <3>5, <3>6, <3>7
    <2> QED  BY <2>1, <2>3, <2>6, OthersStep
  <1>6. CASE Fail(c)
    <2>1. /\ UNCHANGED <<log, event, to, todo, upto, queue, wire, client, conn, last, received>>
          /\ handler' = [handler EXCEPT ![c] = "dead"]
          /\ subs' = subs \ {c}
          /\ handler[c] # "off" /\ ~(client = "open" /\ c = conn)
      BY <1>6 DEF Fail, Open, clientVars
    <2>2. \A k \in Conns : k # c => handler'[k] = handler[k]
      BY <2>1 DEF TypeOK
    <2>3. subs' \subseteq subs \cup {c}
      BY <2>1
    <2>4. ASSUME client = "open"
          PROVE  conn \in Conns /\ c # conn /\ WireInv(conn) /\ QueueInv(conn)
                 /\ PendingInv(conn) /\ ReplayInv(conn)
      BY <2>1, <2>4 DEF RunStreamInv
    <2> QED  BY <2>1, <2>2, <2>3, OthersStep
  <1> QED  BY <1>1, <1>2, <1>3, <1>4, <1>5, <1>6 DEF Serve

LEMMA ClientStep ==
  ASSUME TypeOK, RunStreamInv, follower = "stream_run", Connect \/ Receive \/ Drop
  PROVE  RunStreamInv'
  <1>1. CASE Connect
    <2>1. /\ UNCHANGED <<log, subs, event, to, todo, upto, queue, wire, last, received>>
          /\ conn' = conn + 1 /\ conn \in Nat /\ conn' \in Conns
          /\ handler' = [handler EXCEPT ![conn + 1] = "requested"]
      BY <1>1, SizesType DEF Connect, hubVars, TypeOK, Conns
    <2>2. \A k \in Conns : k # conn' => handler'[k] = handler[k]
      BY <2>1 DEF TypeOK
    <2>3. \A k \in Conns : k \in Nat
      BY DEF Conns
    <2>4. \A k \in Conns : conn' < k => Later(k)'
      <3> SUFFICES ASSUME NEW k \in Conns, conn' < k PROVE Later(k)'
        OBVIOUS
      <3>1. Later(k) /\ k # conn'
        BY <2>1, <2>3 DEF RunStreamInv
      <3> QED  BY <2>1, <2>2, <3>1 DEF Later
    <2>5. Later(conn')
      BY <2>1 DEF RunStreamInv
    <2>6. handler'[conn'] = "requested"
      BY <2>1 DEF TypeOK
    <2>7. WireInv(conn)' /\ QueueInv(conn)' /\ PendingInv(conn)' /\ ReplayInv(conn)'
      <3>1. WireInv(conn)' /\ QueueInv(conn)' /\ PendingInv(conn)'
        BY <2>1, <2>5 DEF Later, WireInv, QueueInv, PendingInv, Distinct
      <3>2. ReplayInv(conn)'
        BY <2>1, <2>5, <2>6 DEF Later, ReplayInv
      <3> QED  BY <3>1, <3>2
    <2>8. last' <= Len(log') /\ (\A i \in DOMAIN received' : received'[i] <= last') /\ Distinct(received)'
      BY <2>1 DEF RunStreamInv, Distinct
    <2> QED  BY <2>1, <2>4, <2>7, <2>8 DEF RunStreamInv
  <1>2. CASE Receive
    <2> DEFINE id == Head(wire[conn])
    <2>1. /\ UNCHANGED <<log, subs, event, to, handler, todo, upto, queue, conn>>
          /\ wire[conn] # << >> /\ client = "open"
          /\ wire' = [wire EXCEPT ![conn] = Tail(@)]
          /\ received' = Append(received, id)
          /\ last' = IF last > id THEN last ELSE id
      BY <1>2 DEF Receive, hubVars
    <2>2. /\ conn \in Conns /\ WireInv(conn) /\ QueueInv(conn)
          /\ PendingInv(conn) /\ ReplayInv(conn)
      BY <2>1 DEF RunStreamInv
    <2>3. /\ wire[conn] \in Seq(Nat) /\ received \in Seq(Nat) /\ last \in Nat /\ Len(log) \in Nat
          /\ wire'[conn] = Tail(wire[conn])
          /\ \A k \in Conns : k # conn => wire'[k] = wire[k]
      BY <2>1, <2>2 DEF TypeOK
    <2>4. /\ 1 \in DOMAIN wire[conn] /\ id = wire[conn][1] /\ id \in Nat
          /\ \A i \in DOMAIN wire'[conn] : /\ i \in Nat /\ i + 1 \in DOMAIN wire[conn] /\ i + 1 # 1
                                           /\ wire'[conn][i] = wire[conn][i + 1]
      <3>1. wire[conn] \in Seq(Nat) /\ wire[conn] # << >>
        BY <2>1, <2>3
      <3>2. /\ 1 \in DOMAIN wire[conn] /\ Head(wire[conn]) = wire[conn][1] /\ Head(wire[conn]) \in Nat
            /\ \A i \in DOMAIN Tail(wire[conn]) : /\ i \in Nat /\ i + 1 \in DOMAIN wire[conn] /\ i + 1 # 1
                                                /\ Tail(wire[conn])[i] = wire[conn][i + 1]
        BY <3>1, TailElements
      <3> QED  BY <2>3, <3>2
    <2>5. \A i \in DOMAIN received' :
             \/ i \in DOMAIN received /\ received'[i] = received[i]
             \/ i = Len(received) + 1 /\ i \notin DOMAIN received /\ received'[i] = id
      BY <2>1, <2>3, <2>4, AppendElements
    <2>6. id \in Ids /\ id <= Len(log) /\ \A j \in DOMAIN received : received[j] # id
      BY <2>2, <2>3, <2>4 DEF WireInv, Ids
    <2>7. last <= last' /\ id <= last' /\ last' \in Nat /\ last' <= Len(log')
      BY <2>1, <2>3, <2>4, <2>6 DEF RunStreamInv
    <2>8. \A i \in DOMAIN received' : received'[i] <= last'
      <3>1. \A i \in DOMAIN received : received[i] \in Nat /\ received[i] <= last
        BY <2>3 DEF RunStreamInv
      <3> QED  BY <2>3, <2>4, <2>5, <2>7, <3>1
    <2>9. Distinct(received)'
      BY <2>5, <2>6 DEF RunStreamInv, Distinct
    <2>10. \A k \in Conns : conn' < k => Later(k)'
      <3>1. \A k \in Conns : conn < k => k # conn
        BY <2>2 DEF Conns
      <3> QED  BY <2>1, <2>3, <3>1 DEF RunStreamInv, Later
    <2>11. Distinct(wire'[conn])
      BY <2>2, <2>4 DEF WireInv, Distinct
    <2>12. WireInv(conn)'
      <3>1. \A i \in DOMAIN wire'[conn] : wire'[conn][i] \in Ids /\ wire'[conn][i] # id
        BY <2>2, <2>4 DEF WireInv, Distinct
      <3>2. \A i \in DOMAIN wire'[conn], j \in DOMAIN received : wire'[conn][i] # received[j]
        BY <2>2, <2>4 DEF WireInv
      <3> QED  BY <2>1, <2>5, <2>11, <3>1, <3>2 DEF WireInv, Ids
    <2>13. QueueInv(conn)'
      BY <2>1, <2>2, <2>4, <2>5 DEF QueueInv, Ids, Distinct
    <2>14. PendingInv(conn)'
      BY <2>1, <2>2, <2>4, <2>5 DEF PendingInv, Ids
    <2>15. ReplayInv(conn)'
      <3>1. /\ handler[conn] \in {"requested", "resolved", "replay", "live"}
            /\ handler[conn] # "live" => /\ queue[conn] = << >>
                                        /\ conn \notin subs
                                        /\ \A p \in Publishers : conn \notin to[p]
            /\ handler[conn] \notin {"requested", "resolved"}
        BY <2>1, <2>2 DEF ReplayInv
      <3>2. ASSUME handler[conn] = "replay"
            PROVE  /\ last' < todo[conn] /\ upto[conn] <= Len(log)
                   /\ \A i \in DOMAIN wire'[conn] : wire'[conn][i] < todo[conn]
        BY <2>1, <2>2, <2>3, <2>4, <3>2 DEF ReplayInv
      <3> QED  BY <2>1, <3>1, <3>2 DEF ReplayInv
    <2> QED  BY <2>1, <2>2, <2>7, <2>8, <2>9, <2>10, <2>12, <2>13, <2>14, <2>15 DEF RunStreamInv
  <1>3. CASE Drop
    <2>1. UNCHANGED <<log, subs, event, to, handler, wire, queue, conn, last, received>> /\ client' = "idle"
      BY <1>3 DEF Drop, hubVars, handlerVars
    <2> QED  BY <2>1 DEF RunStreamInv, Later, Distinct
  <1> QED  BY <1>1, <1>2, <1>3

LEMMA StreamStep ==
  ASSUME TypeOK, RunStreamInv, follower = "stream_run", [Next]_vars
  PROVE  RunStreamInv'
  <1>1. CASE \E p \in Publishers, kind \in Kinds : Publish(p, kind)
    BY <1>1, PublishStep
  <1>2. CASE \E p \in Publishers, c \in Conns : Deliver(p, c)
    BY <1>2, DeliverStep
  <1>3. CASE \E c \in Conns : Serve(c)
    BY <1>3, ServeStep
  <1>4. CASE Connect \/ Receive \/ Drop
    BY <1>4, ClientStep
  <1>5. CASE UNCHANGED vars
    BY <1>5 DEF vars, hubVars, handlerVars, clientVars, RunStreamInv, Later, Distinct,
                WireInv, QueueInv, PendingInv, ReplayInv, Ids
  <1> QED  BY <1>1, <1>2, <1>3, <1>4, <1>5 DEF Next

LEMMA FollowerStays ==
  ASSUME [Next]_vars
  PROVE  follower' = follower
  <1>1. CASE \E p \in Publishers, kind \in Kinds : Publish(p, kind)
    BY <1>1 DEF Publish, clientVars
  <1>2. CASE \E p \in Publishers, c \in Conns : Deliver(p, c)
    BY <1>2 DEF Deliver, clientVars
  <1>3. ASSUME NEW c \in Conns, Serve(c) PROVE follower' = follower
    <2>1. CASE Resolve(c)
      BY <2>1 DEF Resolve, clientVars
    <2>2. CASE Snapshot(c)
      BY <2>2 DEF Snapshot, clientVars
    <2>3. CASE ReplayOne(c)
      BY <2>3 DEF ReplayOne, clientVars
    <2>4. CASE Subscribe(c)
      BY <2>4 DEF Subscribe, clientVars
    <2>5. CASE Pump(c)
      BY <2>5 DEF Pump, clientVars
    <2>6. CASE Fail(c)
      BY <2>6 DEF Fail, clientVars
    <2> QED  BY <1>3, <2>1, <2>2, <2>3, <2>4, <2>5, <2>6 DEF Serve
  <1>4. CASE Connect
    BY <1>4 DEF Connect
  <1>5. CASE Receive
    BY <1>5 DEF Receive
  <1>6. CASE Drop
    BY <1>6 DEF Drop
  <1>7. CASE UNCHANGED vars
    BY <1>7 DEF vars, clientVars
  <1> QED  BY <1>1, <1>2, <1>3, <1>4, <1>5, <1>6, <1>7 DEF Next

\* Nothing on its way to stream_run's current connection has been yielded, is
\* on its way twice, or lies below a replay's cursor.
THEOREM StreamInvariant == Spec => []StreamInv
  <1>1. Init => StreamInv
    <2> SUFFICES ASSUME Init PROVE RunStreamInv
      BY DEF StreamInv
    <2>1. \A k \in Conns : Later(k)
      BY DEF Init, Later
    <2>2. last <= Len(log) /\ Distinct(received) /\ DOMAIN received = {} /\ client # "open"
      BY DEF Init, Distinct
    <2> QED  BY <2>1, <2>2 DEF RunStreamInv
  <1>2. TypeOK /\ StreamInv /\ [Next]_vars => StreamInv'
    BY StreamStep, FollowerStays DEF StreamInv
  <1> QED  BY <1>1, <1>2, TypeCorrect, PTL DEF Spec

\* Whatever the connection does, stream_run yields no event twice.
THEOREM YieldsOnce == Spec => []AtMostOnce
  <1>1. StreamInv => AtMostOnce
    BY DEF StreamInv, RunStreamInv, AtMostOnce
  <1> QED  BY <1>1, StreamInvariant, PTL

-----------------------------------------------------------------------------
(* stream_run yields the events of its run in their order.                 *)

LEMMA PublishOrder ==
  ASSUME TypeOK, RunStreamInv, RunOrderInv, follower = "stream_run",
         NEW p \in Publishers, NEW kind \in Kinds, Publish(p, kind)
  PROVE  RunOrderInv'
  <1>1. /\ UNCHANGED <<handler, queue, wire, client, conn, last, received>>
        /\ event' = [event EXCEPT ![p] = Len(log) + 1]
        /\ to' = [to EXCEPT ![p] = subs]
        /\ log' = Append(log, [by |-> p, kind |-> kind])
        /\ lost'["overtaken"] = lost["overtaken"]
    BY DEF Publish, handlerVars, clientVars, Lose, TypeOK, Reasons
  <1>2. /\ Len(log) \in Nat /\ Len(log') = Len(log) + 1
        /\ log'[Len(log) + 1].by = p
        /\ \A id \in Ids : id \in Ids' /\ log'[id] = log[id] /\ id < Len(log) + 1
        /\ Len(log) + 1 \in Ids' /\ Len(log) + 1 # 0
    BY <1>1 DEF TypeOK, Ids
  <1>3. \A q \in Publishers : event'[q] # 0 => event'[q] \in Ids' /\ log'[event'[q]].by = q
    <2> SUFFICES ASSUME NEW q \in Publishers, event'[q] # 0
                 PROVE  event'[q] \in Ids' /\ log'[event'[q]].by = q
      OBVIOUS
    <2>1. CASE q = p
      BY <1>1, <1>2, <2>1 DEF TypeOK
    <2>2. CASE q # p
      <3>1. event'[q] = event[q]
        BY <1>1, <2>2 DEF TypeOK
      <3> QED  BY <1>2, <3>1 DEF RunOrderInv
    <2> QED  BY <2>1, <2>2
  <1>4. \A i \in DOMAIN received : received[i] \in Ids' /\ log'[received[i]].by = Run
    BY <1>2 DEF RunOrderInv
  <1>5. ASSUME client = "open"
        PROVE  WireOrder(conn)' /\ QueueOrder(conn)' /\ PendingOrder(conn)'
    <2>1. /\ conn \in Conns /\ WireInv(conn) /\ QueueInv(conn)
          /\ WireOrder(conn) /\ QueueOrder(conn) /\ PendingOrder(conn)
      BY <1>5 DEF RunStreamInv, RunOrderInv
    <2>2. /\ \A i \in DOMAIN wire[conn] : wire[conn][i] \in Ids
          /\ \A i \in DOMAIN queue[conn] : queue[conn][i] \in Ids
      BY <2>1 DEF WireInv, QueueInv
    <2>3. WireOrder(conn)'
      BY <1>1, <1>2, <2>1, <2>2 DEF WireOrder
    <2>4. QueueOrder(conn)'
      <3>1. \A i \in DOMAIN queue[conn] : log'[queue[conn][i]] = log[queue[conn][i]]
        BY <1>2, <2>2
      <3>2. \A i \in DOMAIN queue[conn] : log'[queue[conn][i]].by = Run =>
               /\ \A j \in DOMAIN received : received[j] < queue[conn][i]
               /\ \A j \in DOMAIN wire[conn] : wire[conn][j] < queue[conn][i]
               /\ \A k \in DOMAIN queue[conn] :
                     i < k /\ log'[queue[conn][k]].by = Run => queue[conn][i] < queue[conn][k]
        BY <2>1, <3>1 DEF QueueOrder
      <3> QED  BY <1>1, <3>2 DEF QueueOrder
    <2>5. PendingOrder(conn)'
      <3>1. CASE p = Run
        <4>1. event'[Run] = Len(log) + 1
          BY <1>1, <3>1 DEF TypeOK
        <4> QED  BY <1>1, <1>2, <2>2, <4>1 DEF PendingOrder, RunOrderInv
      <3>2. CASE p # Run
        <4>1. event'[Run] = event[Run] /\ to'[Run] = to[Run]
          BY <1>1, <3>2, RunAssumption DEF TypeOK
        <4>2. \A i \in DOMAIN queue[conn] : log'[queue[conn][i]] = log[queue[conn][i]]
          BY <1>2, <2>2
        <4> QED  BY <1>1, <2>1, <4>1, <4>2 DEF PendingOrder
      <3> QED  BY <3>1, <3>2
    <2> QED  BY <2>3, <2>4, <2>5
  <1>6. \A i, j \in DOMAIN received' : i < j => received'[i] < received'[j]
    BY <1>1 DEF RunOrderInv
  <1>7. /\ last' = 0 \/ \E j \in DOMAIN received' : received'[j] = last'
        /\ lost'["overtaken"] = {}
    BY <1>1 DEF RunOrderInv
  <1> QED  BY <1>1, <1>3, <1>4, <1>5, <1>6, <1>7 DEF RunOrderInv

\* A step that leaves the log, the client and its current connection alone.
LEMMA ElsewhereOrder ==
  ASSUME RunOrderInv,
         UNCHANGED <<log, event, client, conn, last, received>>,
         lost'["overtaken"] = lost["overtaken"],
         client = "open" => /\ wire'[conn] = wire[conn] /\ queue'[conn] = queue[conn]
                            /\ conn \in to'[Run] => conn \in to[Run]
  PROVE  RunOrderInv'
  <1>1. ASSUME client = "open"
        PROVE  WireOrder(conn)' /\ QueueOrder(conn)' /\ PendingOrder(conn)'
    <2>1. WireOrder(conn) /\ QueueOrder(conn) /\ PendingOrder(conn)
      BY <1>1 DEF RunOrderInv
    <2> QED  BY <1>1, <2>1 DEF WireOrder, QueueOrder, PendingOrder
  <1>2. \A q \in Publishers : event'[q] # 0 => event'[q] \in Ids' /\ log'[event'[q]].by = q
    BY DEF RunOrderInv, Ids
  <1>3. \A i \in DOMAIN received' : received'[i] \in Ids' /\ log'[received'[i]].by = Run
    BY DEF RunOrderInv, Ids
  <1> QED  BY <1>1, <1>2, <1>3 DEF RunOrderInv

LEMMA DeliverOrder ==
  ASSUME TypeOK, RunStreamInv, RunOrderInv, NEW p \in Publishers, NEW c \in Conns, Deliver(p, c)
  PROVE  RunOrderInv'
  <1>1. /\ UNCHANGED <<log, event, wire, client, conn, last, received>>
        /\ c \in to[p]
        /\ to' = [to EXCEPT ![p] = @ \ {c}]
        /\ \/ queue' = [queue EXCEPT ![c] = Append(@, event[p])]
           \/ queue' = queue
    BY DEF Deliver, clientVars
  <1>2. lost'["overtaken"] = lost["overtaken"]
    BY DEF Deliver, Lose, TypeOK, Reasons
  <1>3. \A q \in Publishers : to'[q] \subseteq to[q]
    BY <1>1 DEF TypeOK
  <1>4. CASE client = "open" => queue'[conn] = queue[conn]
    BY <1>1, <1>2, <1>3, <1>4, RunAssumption, ElsewhereOrder
  <1>5. CASE client = "open" /\ queue'[conn] # queue[conn]
    <2>1. /\ conn \in Conns /\ QueueInv(conn) /\ WireOrder(conn)
          /\ QueueOrder(conn) /\ PendingOrder(conn) /\ PendingInv(conn)
      BY <1>5 DEF RunStreamInv, RunOrderInv
    <2>2. c = conn /\ queue'[conn] = Append(queue[conn], event[p])
      BY <1>1, <1>5, <2>1 DEF TypeOK
    <2>3. queue[conn] \in Seq(Nat) /\ event[p] \in Nat /\ Len(queue[conn]) \in Nat
      BY <2>1 DEF TypeOK
    <2>4. \A i \in DOMAIN queue'[conn] :
             \/ i \in DOMAIN queue[conn] /\ queue'[conn][i] = queue[conn][i]
             \/ i = Len(queue[conn]) + 1 /\ i \notin DOMAIN queue[conn] /\ queue'[conn][i] = event[p]
      BY <2>2, <2>3, AppendElements
    <2>5. \A i \in DOMAIN queue[conn] : i \in Nat /\ i < Len(queue[conn]) + 1
      BY <2>3
    <2>6. event[p] \in Ids /\ event[p] # 0 /\ log[event[p]].by = p
      <3>1. event[p] \in Ids
        BY <1>1, <2>1, <2>2 DEF PendingInv
      <3>2. event[p] # 0
        BY <3>1 DEF Ids
      <3> QED  BY <3>1, <3>2 DEF RunOrderInv
    <2>7. WireOrder(conn)'
      BY <1>1, <2>1 DEF WireOrder
    <2>8. QueueOrder(conn)'
      <3>1. CASE p = Run
        <4>1. /\ \A j \in DOMAIN received : received[j] < event[p]
              /\ \A j \in DOMAIN wire[conn] : wire[conn][j] < event[p]
              /\ \A j \in DOMAIN queue[conn] : log[queue[conn][j]].by = Run => queue[conn][j] < event[p]
          BY <1>1, <2>1, <2>2, <3>1 DEF PendingOrder
        <4>2. \A i \in DOMAIN queue'[conn] : log[queue'[conn][i]].by = Run =>
                 /\ \A j \in DOMAIN received : received[j] < queue'[conn][i]
                 /\ \A j \in DOMAIN wire[conn] : wire[conn][j] < queue'[conn][i]
          BY <2>1, <2>4, <4>1 DEF QueueOrder
        <4>3. \A i, k \in DOMAIN queue'[conn] :
                 i < k /\ log[queue'[conn][i]].by = Run /\ log[queue'[conn][k]].by = Run
                    => queue'[conn][i] < queue'[conn][k]
          <5> SUFFICES ASSUME NEW i \in DOMAIN queue'[conn], NEW k \in DOMAIN queue'[conn], i < k,
                              log[queue'[conn][i]].by = Run, log[queue'[conn][k]].by = Run
                       PROVE  queue'[conn][i] < queue'[conn][k]
            OBVIOUS
          <5>1. i \in DOMAIN queue[conn] /\ queue'[conn][i] = queue[conn][i]
            BY <2>3, <2>4, <2>5
          <5>2. CASE k \in DOMAIN queue[conn]
            BY <2>1, <2>4, <5>1, <5>2 DEF QueueOrder
          <5>3. CASE k \notin DOMAIN queue[conn]
            BY <2>4, <4>1, <5>1, <5>3
          <5> QED  BY <5>2, <5>3
        <4> QED  BY <1>1, <4>2, <4>3 DEF QueueOrder
      <3>2. CASE p # Run
        <4>1. \A i \in DOMAIN queue'[conn] : log[queue'[conn][i]].by = Run =>
                 i \in DOMAIN queue[conn] /\ queue'[conn][i] = queue[conn][i]
          BY <2>4, <2>6, <3>2
        <4> QED  BY <1>1, <2>1, <4>1 DEF QueueOrder
      <3> QED  BY <3>1, <3>2
    <2>9. PendingOrder(conn)'
      <3>1. CASE p = Run
        <4>1. conn \notin to'[Run]
          BY <1>1, <2>2, <3>1 DEF TypeOK
        <4> QED  BY <1>1, <4>1 DEF PendingOrder
      <3>2. CASE p # Run
        <4>1. \A i \in DOMAIN queue'[conn] : log[queue'[conn][i]].by = Run =>
                 i \in DOMAIN queue[conn] /\ queue'[conn][i] = queue[conn][i]
          BY <2>4, <2>6, <3>2
        <4>2. to'[Run] = to[Run]
          BY <1>1, <3>2, RunAssumption DEF TypeOK
        <4> QED  BY <1>1, <2>1, <4>1, <4>2 DEF PendingOrder
      <3> QED  BY <3>1, <3>2
    <2>10. \A q \in Publishers : event'[q] # 0 => event'[q] \in Ids' /\ log'[event'[q]].by = q
      BY <1>1 DEF RunOrderInv, Ids
    <2>11. \A i \in DOMAIN received' : received'[i] \in Ids' /\ log'[received'[i]].by = Run
      BY <1>1 DEF RunOrderInv, Ids
    <2>12. /\ \A i, j \in DOMAIN received' : i < j => received'[i] < received'[j]
           /\ last' = 0 \/ \E j \in DOMAIN received' : received'[j] = last'
           /\ lost'["overtaken"] = {}
      BY <1>1, <1>2 DEF RunOrderInv
    <2>13. WireOrder(conn)' /\ QueueOrder(conn)' /\ PendingOrder(conn)'
      BY <2>7, <2>8, <2>9
    <2> QED  BY <1>1, <2>10, <2>11, <2>12, <2>13 DEF RunOrderInv
  <1> QED  BY <1>4, <1>5

LEMMA ServeOrder ==
  ASSUME TypeOK, RunStreamInv, RunOrderInv, follower = "stream_run", NEW c \in Conns, Serve(c)
  PROVE  RunOrderInv'
  <1>t. last \in Nat /\ todo[c] \in Nat
    BY DEF TypeOK
  <1>1. CASE Resolve(c)
    <2>1. UNCHANGED <<log, event, to, lost, queue, wire, client, conn, last, received>>
      BY <1>1 DEF Resolve, hubVars, clientVars
    <2> QED  BY <2>1, ElsewhereOrder
  <1>2. CASE Snapshot(c)
    <2>1. UNCHANGED <<log, event, to, queue, wire, client, conn, last, received>>
      BY <1>2 DEF Snapshot, hubVars, clientVars
    <2>2. lost'["overtaken"] = lost["overtaken"]
      BY <1>2 DEF Snapshot, Lose, TypeOK, Reasons
    <2> QED  BY <2>1, <2>2, ElsewhereOrder
  <1>3. CASE ReplayOne(c)
    <2>1. /\ UNCHANGED <<log, event, to, lost, queue, client, conn, last, received>>
          /\ handler[c] = "replay" /\ client = "open" /\ c = conn
          /\ \/ wire' = [wire EXCEPT ![c] = Append(@, todo[c])] /\ log[todo[c]].by = Run
             \/ wire' = wire
      BY <1>3 DEF ReplayOne, Open, Matches, hubVars, clientVars
    <2>2. CASE wire' = wire
      BY <2>1, <2>2, ElsewhereOrder
    <2>3. CASE wire' # wire
      <3>1. /\ wire'[conn] = Append(wire[conn], todo[c]) /\ log[todo[c]].by = Run
            /\ wire[conn] \in Seq(Nat) /\ Len(wire[conn]) \in Nat
        BY <2>1, <2>3 DEF TypeOK
      <3>2. \A i \in DOMAIN wire'[conn] :
               \/ i \in DOMAIN wire[conn] /\ wire'[conn][i] = wire[conn][i]
               \/ i = Len(wire[conn]) + 1 /\ i \notin DOMAIN wire[conn] /\ wire'[conn][i] = todo[c]
        BY <1>t, <3>1, AppendElements
      <3>3. \A i \in DOMAIN wire[conn] : i \in Nat /\ i < Len(wire[conn]) + 1
        BY <3>1
      <3>4. /\ conn \in Conns /\ WireOrder(conn) /\ ReplayInv(conn)
            /\ \A j \in DOMAIN received : received[j] \in Nat /\ received[j] <= last
        BY <2>1 DEF RunStreamInv, RunOrderInv, TypeOK
      <3>5. /\ queue[conn] = << >> /\ conn \notin to[Run] /\ last < todo[c]
            /\ \A i \in DOMAIN wire[conn] : wire[conn][i] < todo[c]
        BY <2>1, <3>4, RunAssumption DEF ReplayInv
      <3>6. WireOrder(conn)'
        <4>1. \A i \in DOMAIN wire'[conn] : /\ log[wire'[conn][i]].by = Run
                                           /\ \A j \in DOMAIN received : received[j] < wire'[conn][i]
          BY <1>t, <3>1, <3>2, <3>4, <3>5 DEF WireOrder
        <4>2. \A i, k \in DOMAIN wire'[conn] : i < k => wire'[conn][i] < wire'[conn][k]
          <5> SUFFICES ASSUME NEW i \in DOMAIN wire'[conn], NEW k \in DOMAIN wire'[conn], i < k
                       PROVE  wire'[conn][i] < wire'[conn][k]
            OBVIOUS
          <5>1. i \in DOMAIN wire[conn] /\ wire'[conn][i] = wire[conn][i]
            BY <3>1, <3>2, <3>3
          <5>2. CASE k \in DOMAIN wire[conn]
            BY <3>2, <3>4, <5>1, <5>2 DEF WireOrder
          <5>3. CASE k \notin DOMAIN wire[conn]
            BY <3>2, <3>5, <5>1, <5>3
          <5> QED  BY <5>2, <5>3
        <4> QED  BY <2>1, <4>1, <4>2 DEF WireOrder
      <3>7. QueueOrder(conn)' /\ PendingOrder(conn)'
        BY <2>1, <3>5 DEF QueueOrder, PendingOrder
      <3> QED  BY <2>1, <3>6, <3>7 DEF RunOrderInv, Ids
    <2> QED  BY <2>2, <2>3
  <1>4. CASE Subscribe(c)
    <2>1. UNCHANGED <<log, event, to, lost, queue, wire, client, conn, last, received>>
      BY <1>4 DEF Subscribe, clientVars
    <2> QED  BY <2>1, ElsewhereOrder
  <1>5. CASE Pump(c)
    <2>1. /\ UNCHANGED <<log, event, to, lost, client, conn, last, received>>
          /\ queue[c] # << >>
          /\ queue' = [queue EXCEPT ![c] = Tail(@)]
          /\ \/ /\ wire' = [wire EXCEPT ![c] = Append(@, Head(queue[c]))]
                /\ log[Head(queue[c])].by = Run
             \/ wire' = wire
      BY <1>5 DEF Pump, Matches, hubVars, clientVars
    <2>2. CASE ~(client = "open" /\ c = conn)
      <3>1. client = "open" => wire'[conn] = wire[conn] /\ queue'[conn] = queue[conn]
        BY <2>1, <2>2 DEF TypeOK, RunStreamInv
      <3> QED  BY <2>1, <3>1, ElsewhereOrder
    <2>3. CASE client = "open" /\ c = conn
      <3>1. /\ queue[conn] \in Seq(Nat) /\ wire[conn] \in Seq(Nat) /\ Len(wire[conn]) \in Nat
            /\ queue[conn] # << >> /\ queue'[conn] = Tail(queue[conn])
        BY <2>1, <2>3 DEF TypeOK
      <3>2. /\ 1 \in DOMAIN queue[conn] /\ Head(queue[conn]) = queue[conn][1] /\ Head(queue[conn]) \in Nat
            /\ \A i \in DOMAIN queue'[conn] : /\ i \in Nat /\ i + 1 \in DOMAIN queue[conn] /\ i + 1 # 1
                                              /\ queue'[conn][i] = queue[conn][i + 1]
        BY <3>1, TailElements
      <3>3. /\ conn \in Conns /\ WireOrder(conn) /\ QueueOrder(conn) /\ PendingOrder(conn)
        BY <2>3 DEF RunStreamInv, RunOrderInv
      <3>4. \A i \in DOMAIN queue'[conn] : 1 < i + 1
        <4>1. \A i \in DOMAIN queue'[conn] : i \in Nat /\ i >= 1
          BY <3>1
        <4> QED  BY <4>1
      <3>5. \A i \in DOMAIN queue'[conn] : log[queue'[conn][i]].by = Run =>
               /\ \A j \in DOMAIN received : received[j] < queue'[conn][i]
               /\ \A j \in DOMAIN wire[conn] : wire[conn][j] < queue'[conn][i]
               /\ log[Head(queue[conn])].by = Run => Head(queue[conn]) < queue'[conn][i]
        BY <3>2, <3>3, <3>4 DEF QueueOrder
      <3>6. \A i, k \in DOMAIN queue'[conn] :
               i < k /\ log[queue'[conn][i]].by = Run /\ log[queue'[conn][k]].by = Run
                  => queue'[conn][i] < queue'[conn][k]
        BY <3>2, <3>3 DEF QueueOrder
      <3>7. \A i \in DOMAIN wire'[conn] :
               \/ i \in DOMAIN wire[conn] /\ wire'[conn][i] = wire[conn][i]
               \/ /\ i = Len(wire[conn]) + 1 /\ i \notin DOMAIN wire[conn]
                  /\ wire'[conn][i] = Head(queue[conn]) /\ log[Head(queue[conn])].by = Run
        <4>1. CASE wire' = wire
          BY <4>1
        <4>2. CASE wire' # wire
          <5>1. /\ wire'[conn] = Append(wire[conn], Head(queue[conn]))
                /\ log[Head(queue[conn])].by = Run
            BY <2>1, <2>3, <3>3, <4>2 DEF TypeOK
          <5>2. \A i \in DOMAIN wire'[conn] :
                   \/ i \in DOMAIN wire[conn] /\ wire'[conn][i] = wire[conn][i]
                   \/ /\ i = Len(wire[conn]) + 1 /\ i \notin DOMAIN wire[conn]
                      /\ wire'[conn][i] = Head(queue[conn])
            BY <3>1, <3>2, <5>1, AppendElements
          <5> QED  BY <5>1, <5>2
        <4> QED  BY <4>1, <4>2
      <3>8. WireOrder(conn)'
        <4>1. \A i \in DOMAIN wire'[conn] : /\ log[wire'[conn][i]].by = Run
                                           /\ \A j \in DOMAIN received : received[j] < wire'[conn][i]
          BY <3>2, <3>3, <3>7 DEF WireOrder, QueueOrder
        <4>2. \A i, k \in DOMAIN wire'[conn] : i < k => wire'[conn][i] < wire'[conn][k]
          <5> SUFFICES ASSUME NEW i \in DOMAIN wire'[conn], NEW k \in DOMAIN wire'[conn], i < k
                       PROVE  wire'[conn][i] < wire'[conn][k]
            OBVIOUS
          <5>0. \A n \in DOMAIN wire[conn] : n \in Nat /\ n < Len(wire[conn]) + 1
            BY <3>1
          <5>1. i \in DOMAIN wire[conn] /\ wire'[conn][i] = wire[conn][i]
            BY <3>1, <3>7, <5>0
          <5>2. CASE k \in DOMAIN wire[conn]
            BY <3>3, <3>7, <5>1, <5>2 DEF WireOrder
          <5>3. CASE k \notin DOMAIN wire[conn]
            BY <3>2, <3>3, <3>7, <5>1, <5>3 DEF QueueOrder
          <5> QED  BY <5>2, <5>3
        <4> QED  BY <2>1, <4>1, <4>2 DEF WireOrder
      <3>9. QueueOrder(conn)'
        <4>1. \A i \in DOMAIN queue'[conn] : log[queue'[conn][i]].by = Run =>
                 \A j \in DOMAIN wire'[conn] : wire'[conn][j] < queue'[conn][i]
          BY <3>5, <3>7
        <4> QED  BY <2>1, <3>5, <3>6, <4>1 DEF QueueOrder
      <3>10. PendingOrder(conn)'
        <4>1. ASSUME conn \in to[Run]
              PROVE  /\ \A j \in DOMAIN received : received[j] < event[Run]
                     /\ \A j \in DOMAIN wire'[conn] : wire'[conn][j] < event[Run]
                     /\ \A j \in DOMAIN queue'[conn] :
                           log[queue'[conn][j]].by = Run => queue'[conn][j] < event[Run]
          BY <3>2, <3>3, <3>7, <4>1 DEF PendingOrder
        <4> QED  BY <2>1, <4>1 DEF PendingOrder
      <3> QED  BY <2>1, <3>8, <3>9, <3>10 DEF RunOrderInv, Ids
    <2> QED  BY <2>2, <2>3
  <1>6. CASE Fail(c)
    <2>1. UNCHANGED <<log, event, to, lost, queue, wire, client, conn, last, received>>
      BY <1>6 DEF Fail, clientVars
    <2> QED  BY <2>1, ElsewhereOrder
  <1> QED  BY <1>1, <1>2, <1>3, <1>4, <1>5, <1>6 DEF Serve

\* Nothing of the run in flight is at or below the cursor, so a drop loses none.
LEMMA NothingOvertaken ==
  ASSUME TypeOK, RunStreamInv, RunOrderInv, follower = "stream_run", client = "open",
         NEW id \in InFlight(conn), Matches(id)
  PROVE  ~(id <= last)
  <1>1. conn \in Conns /\ WireOrder(conn) /\ QueueOrder(conn) /\ PendingOrder(conn)
        /\ WireInv(conn) /\ QueueInv(conn) /\ PendingInv(conn) /\ ReplayInv(conn)
    BY DEF RunStreamInv, RunOrderInv
  <1>2. log[id].by = Run /\ last \in Nat
    BY DEF Matches, TypeOK
  <1>3. ASSUME id \in Ids, \A j \in DOMAIN received : received[j] < id
        PROVE  ~(id <= last)
    <2>1. id \in Nat /\ id # 0 /\ \A j \in DOMAIN received : received[j] \in Nat
      BY <1>3 DEF Ids, TypeOK
    <2> QED  BY <1>2, <1>3, <2>1 DEF RunOrderInv
  <1>4. CASE id \in Elements(wire[conn])
    BY <1>1, <1>3, <1>4 DEF Elements, WireOrder, WireInv
  <1>5. CASE id \in Elements(queue[conn])
    BY <1>1, <1>2, <1>3, <1>5 DEF Elements, QueueOrder, QueueInv
  <1>6. CASE id \in Pending(conn)
    <2>1. PICK q \in Publishers : conn \in to[q] /\ id = event[q]
      BY <1>6 DEF Pending
    <2>2. id \in Ids /\ id # 0
      BY <1>1, <2>1 DEF PendingInv, Ids
    <2>3. q = Run
      BY <1>2, <2>1, <2>2 DEF RunOrderInv
    <2> QED  BY <1>1, <1>3, <2>1, <2>2, <2>3 DEF PendingOrder
  <1>7. CASE handler[conn] = "replay" /\ id \in todo[conn]..upto[conn]
    <2>1. last < todo[conn] /\ todo[conn] \in Nat /\ upto[conn] \in Nat
      BY <1>1, <1>7 DEF ReplayInv, TypeOK
    <2> QED  BY <1>2, <1>7, <2>1
  <1> QED  BY <1>4, <1>5, <1>6, <1>7 DEF InFlight

LEMMA ClientOrder ==
  ASSUME TypeOK, RunStreamInv, RunOrderInv, follower = "stream_run", Connect \/ Receive \/ Drop
  PROVE  RunOrderInv'
  <1>1. CASE Connect
    <2>1. /\ UNCHANGED <<log, event, to, lost, queue, wire, last, received>>
          /\ conn' = conn + 1 /\ conn \in Nat /\ conn' \in Conns /\ conn < conn'
      BY <1>1, SizesType DEF Connect, hubVars, TypeOK, Conns
    <2>2. Later(conn')
      BY <2>1 DEF RunStreamInv
    <2>3. WireOrder(conn)' /\ QueueOrder(conn)' /\ PendingOrder(conn)'
      BY <2>1, <2>2, RunAssumption DEF Later, WireOrder, QueueOrder, PendingOrder
    <2> QED  BY <2>1, <2>3 DEF RunOrderInv, Ids
  <1>2. CASE Receive
    <2> DEFINE id == Head(wire[conn])
    <2>1. /\ UNCHANGED <<log, event, to, lost, queue, conn>>
          /\ wire[conn] # << >> /\ client = "open"
          /\ wire' = [wire EXCEPT ![conn] = Tail(@)]
          /\ received' = Append(received, id)
          /\ last' = IF last > id THEN last ELSE id
      BY <1>2 DEF Receive, hubVars
    <2>2. /\ conn \in Conns /\ WireInv(conn) /\ WireOrder(conn) /\ QueueOrder(conn) /\ PendingOrder(conn)
      BY <2>1 DEF RunStreamInv, RunOrderInv
    <2>3. /\ wire[conn] \in Seq(Nat) /\ received \in Seq(Nat) /\ Len(received) \in Nat
          /\ wire'[conn] = Tail(wire[conn]) /\ last \in Nat
      BY <2>1, <2>2 DEF TypeOK
    <2>4. /\ 1 \in DOMAIN wire[conn] /\ id = wire[conn][1] /\ id \in Nat
          /\ \A i \in DOMAIN wire'[conn] : /\ i \in Nat /\ i + 1 \in DOMAIN wire[conn] /\ i + 1 # 1
                                           /\ wire'[conn][i] = wire[conn][i + 1]
      BY <2>1, <2>3, TailElements
    <2>5. \A i \in DOMAIN received' :
             \/ i \in DOMAIN received /\ received'[i] = received[i]
             \/ i = Len(received) + 1 /\ i \notin DOMAIN received /\ received'[i] = id
      BY <2>1, <2>3, <2>4, AppendElements
    <2>6. \A i \in DOMAIN received : i \in Nat /\ i < Len(received) + 1 /\ received[i] \in Nat
      BY <2>3
    <2>7. id \in Ids /\ log[id].by = Run /\ \A j \in DOMAIN received : received[j] < id
      BY <2>2, <2>4 DEF WireOrder, WireInv
    <2>8. \A i \in DOMAIN wire'[conn] : id < wire'[conn][i]
      <3>1. \A i \in DOMAIN wire'[conn] : 1 < i + 1
        <4>1. \A i \in DOMAIN wire'[conn] : i \in Nat /\ i >= 1
          BY <2>3
        <4> QED  BY <4>1
      <3> QED  BY <2>2, <2>4, <3>1 DEF WireOrder
    <2>9. WireOrder(conn)'
      <3>1. \A i \in DOMAIN wire'[conn] : /\ log[wire'[conn][i]].by = Run
                                         /\ \A j \in DOMAIN received' : received'[j] < wire'[conn][i]
        BY <2>2, <2>4, <2>5, <2>8 DEF WireOrder
      <3>2. \A i, k \in DOMAIN wire'[conn] : i < k => wire'[conn][i] < wire'[conn][k]
        BY <2>2, <2>4 DEF WireOrder
      <3> QED  BY <2>1, <3>1, <3>2 DEF WireOrder
    <2>10. QueueOrder(conn)'
      <3>1. \A i \in DOMAIN queue[conn] : log[queue[conn][i]].by = Run =>
               /\ \A j \in DOMAIN received' : received'[j] < queue[conn][i]
               /\ \A j \in DOMAIN wire'[conn] : wire'[conn][j] < queue[conn][i]
        BY <2>2, <2>4, <2>5 DEF QueueOrder
      <3>2. \A i, k \in DOMAIN queue[conn] :
               i < k /\ log[queue[conn][i]].by = Run /\ log[queue[conn][k]].by = Run
                  => queue[conn][i] < queue[conn][k]
        BY <2>2 DEF QueueOrder
      <3> QED  BY <2>1, <3>1, <3>2 DEF QueueOrder
    <2>11. PendingOrder(conn)'
      <3>1. ASSUME conn \in to[Run]
            PROVE  /\ \A j \in DOMAIN received' : received'[j] < event[Run]
                   /\ \A j \in DOMAIN wire'[conn] : wire'[conn][j] < event[Run]
                   /\ \A j \in DOMAIN queue[conn] :
                         log[queue[conn][j]].by = Run => queue[conn][j] < event[Run]
        BY <2>2, <2>4, <2>5, <3>1 DEF PendingOrder
      <3> QED  BY <2>1, <3>1 DEF PendingOrder
    <2>12. \A i \in DOMAIN received' : received'[i] \in Ids' /\ log'[received'[i]].by = Run
      BY <2>1, <2>5, <2>7 DEF RunOrderInv, Ids
    <2>13. \A i, k \in DOMAIN received' : i < k => received'[i] < received'[k]
      <3> SUFFICES ASSUME NEW i \in DOMAIN received', NEW k \in DOMAIN received', i < k
                   PROVE  received'[i] < received'[k]
        OBVIOUS
      <3>1. i \in DOMAIN received /\ received'[i] = received[i]
        BY <2>3, <2>5, <2>6
      <3>2. CASE k \in DOMAIN received
        BY <2>5, <3>1, <3>2 DEF RunOrderInv
      <3>3. CASE k \notin DOMAIN received
        BY <2>5, <2>7, <3>1, <3>3
      <3> QED  BY <3>2, <3>3
    <2>14. \E j \in DOMAIN received' : received'[j] = last'
      <3>1. /\ Len(received) + 1 \in DOMAIN received' /\ received'[Len(received) + 1] = id
            /\ \A j \in DOMAIN received : j \in DOMAIN received' /\ received'[j] = received[j]
        BY <2>1, <2>3, <2>4
      <3>2. CASE last > id
        <4>1. PICK j \in DOMAIN received : received[j] = last
          BY <2>3, <2>4, <3>2 DEF RunOrderInv
        <4> QED  BY <2>1, <3>1, <3>2, <4>1
      <3>3. CASE ~(last > id)
        BY <2>1, <3>1, <3>3
      <3> QED  BY <3>2, <3>3
    <2>15. /\ \A p \in Publishers : event'[p] # 0 => event'[p] \in Ids' /\ log'[event'[p]].by = p
           /\ lost'["overtaken"] = {}
      BY <2>1 DEF RunOrderInv, Ids
    <2> QED  BY <2>9, <2>10, <2>11, <2>12, <2>13, <2>14, <2>15 DEF RunOrderInv
  <1>3. CASE Drop
    <2>1. /\ UNCHANGED <<log, event, conn, last, received>>
          /\ client = "open" /\ client' = "idle"
          /\ lost' = Lose("overtaken", {id \in InFlight(conn) : id <= last /\ Matches(id)})
      BY <1>3 DEF Drop, hubVars
    <2>2. {id \in InFlight(conn) : id <= last /\ Matches(id)} = {}
      BY <2>1, NothingOvertaken
    <2>3. lost'["overtaken"] = {}
      BY <2>1, <2>2 DEF Lose, RunOrderInv, TypeOK, Reasons
    <2> QED  BY <2>1, <2>3 DEF RunOrderInv, Ids
  <1> QED  BY <1>1, <1>2, <1>3

LEMMA OrderStep ==
  ASSUME TypeOK, RunStreamInv, RunOrderInv, follower = "stream_run", [Next]_vars
  PROVE  RunOrderInv'
  <1>1. CASE \E p \in Publishers, kind \in Kinds : Publish(p, kind)
    BY <1>1, PublishOrder
  <1>2. CASE \E p \in Publishers, c \in Conns : Deliver(p, c)
    BY <1>2, DeliverOrder
  <1>3. CASE \E c \in Conns : Serve(c)
    BY <1>3, ServeOrder
  <1>4. CASE Connect \/ Receive \/ Drop
    BY <1>4, ClientOrder
  <1>5. CASE UNCHANGED vars
    BY <1>5, ElsewhereOrder DEF vars, hubVars, handlerVars, clientVars
  <1> QED  BY <1>1, <1>2, <1>3, <1>4, <1>5 DEF Next

\* The run's events are in the order of their ids all along the way, from the
\* publisher's loop through the queue and the wire to the client.
THEOREM OrderInvariant == Spec => []OrderInv
  <1>1. Init => OrderInv
    BY DEF Init, OrderInv, RunOrderInv, Reasons
  <1>2. TypeOK /\ StreamInv /\ OrderInv /\ [Next]_vars => OrderInv'
    BY OrderStep, FollowerStays DEF StreamInv, OrderInv
  <1> QED  BY <1>1, <1>2, TypeCorrect, StreamInvariant, PTL DEF Spec

\* stream_run yields the events of its run in the order they were published.
THEOREM YieldsInOrder == Spec => []RunInOrder
  <1>1. OrderInv => RunInOrder
    BY DEF OrderInv, RunOrderInv, RunInOrder
  <1> QED  BY <1>1, OrderInvariant, PTL

\* No drop makes stream_run skip an event of its run that another overtook.
THEOREM NeverOvertaken == Spec => []OneRunIsNeverOvertaken
  <1>1. OrderInv => OneRunIsNeverOvertaken
    BY DEF OrderInv, RunOrderInv, OneRunIsNeverOvertaken
  <1> QED  BY <1>1, OrderInvariant, PTL

-----------------------------------------------------------------------------
(* What either client misses is accounted for.                             *)

LEMMA ElementsOfAppend ==
  ASSUME NEW s \in Seq(Nat), NEW x \in Nat
  PROVE  Elements(s) \cup {x} \subseteq Elements(Append(s, x))
  <1>1. /\ DOMAIN s = 1..Len(s) /\ Len(s) \in Nat /\ DOMAIN Append(s, x) = 1..(Len(s) + 1)
        /\ Append(s, x)[Len(s) + 1] = x /\ \A i \in 1..Len(s) : Append(s, x)[i] = s[i]
    OBVIOUS
  <1>2. x \in Elements(Append(s, x))
    BY <1>1 DEF Elements
  <1>3. \A i \in DOMAIN s : s[i] \in Elements(Append(s, x))
    BY <1>1 DEF Elements
  <1> QED  BY <1>2, <1>3 DEF Elements

LEMMA ElementsOfTail ==
  ASSUME NEW s \in Seq(Nat), s # << >>
  PROVE  Elements(s) \subseteq {Head(s)} \cup Elements(Tail(s))
  <1>1. /\ DOMAIN s = 1..Len(s) /\ Len(s) \in Nat \ {0} /\ Head(s) = s[1]
        /\ DOMAIN Tail(s) = 1..(Len(s) - 1) /\ \A i \in 1..(Len(s) - 1) : Tail(s)[i] = s[i + 1]
    OBVIOUS
  <1>2. ASSUME NEW i \in DOMAIN s, i # 1
        PROVE  s[i] \in Elements(Tail(s))
    <2>1. i - 1 \in DOMAIN Tail(s) /\ Tail(s)[i - 1] = s[i]
      BY <1>1, <1>2
    <2> QED  BY <2>1 DEF Elements
  <1> QED  BY <1>1, <1>2 DEF Elements

LEMMA AppendBound ==
  ASSUME NEW s \in Seq(Nat), NEW x \in Nat, NEW n \in Nat, NEW t, t = s \/ t = Append(s, x),
         x <= n, \A i \in DOMAIN s : s[i] <= n
  PROVE  \A i \in DOMAIN t : t[i] <= n
  <1>1. \A i \in DOMAIN t : \/ i \in DOMAIN s /\ t[i] = s[i]
                            \/ i = Len(s) + 1 /\ i \notin DOMAIN s /\ t[i] = x
    BY AppendElements
  <1> QED  BY <1>1

LEMMA LoseGrows ==
  ASSUME TypeOK, NEW reason \in Reasons, NEW ids
  PROVE  /\ ids \subseteq Lose(reason, ids)[reason]
         /\ \A r \in Reasons : lost[r] \subseteq Lose(reason, ids)[r]
  BY DEF TypeOK, Lose

\* Where an event of the log can be, and how far a replay goes.
LEMMA PlaceStep ==
  ASSUME TypeOK, PlaceInv, [Next]_vars
  PROVE  PlaceInv'
  <1> USE SizesType
  <1>0. Len(log) \in Nat /\ last \in Nat
    BY DEF TypeOK
  <1>1. ASSUME NEW p \in Publishers, NEW kind \in Kinds, Publish(p, kind)
        PROVE  PlaceInv'
    <2>1. /\ UNCHANGED <<subs, handler, todo, upto, queue, wire, client, conn, last>>
          /\ event' = [event EXCEPT ![p] = Len(log) + 1] /\ Len(log') = Len(log) + 1
      BY <1>1 DEF Publish, handlerVars, clientVars, TypeOK
    <2>2. \A q \in Publishers : event'[q] <= Len(log')
      BY <1>0, <2>1 DEF PlaceInv, TypeOK
    <2>3. \A c \in Conns : /\ upto[c] <= Len(log')
                           /\ \A i \in DOMAIN queue[c] : queue[c][i] <= Len(log')
                           /\ \A i \in DOMAIN wire[c] : wire[c][i] <= Len(log')
      BY <1>0, <2>1 DEF PlaceInv, TypeOK
    <2>4. last' <= Len(log')
      BY <1>0, <2>1 DEF PlaceInv
    <2>5. client' = "open" => /\ conn' \in Conns
                              /\ handler'[conn'] \in {"requested", "resolved", "replay", "live"}
                              /\ handler'[conn'] = "resolved" =>
                                    last' < todo'[conn'] /\ todo'[conn'] <= Len(log') + 1
      BY <1>0, <2>1 DEF PlaceInv, TypeOK
    <2>6. \A c \in Conns : /\ conn' < c => handler'[c] = "off"
                           /\ handler'[c] \in {"off", "requested", "resolved"} => wire'[c] = << >>
                           /\ handler'[c] = "live" => c \in subs'
      BY <2>1 DEF PlaceInv
    <2> QED  BY <2>1, <2>2, <2>3, <2>4, <2>5, <2>6 DEF PlaceInv
  <1>2. ASSUME NEW p \in Publishers, NEW c \in Conns, Deliver(p, c)
        PROVE  PlaceInv'
    <2>1. /\ UNCHANGED <<log, subs, event, handler, todo, upto, wire, client, conn, last>>
          /\ queue' = [queue EXCEPT ![c] = Append(@, event[p])] \/ queue' = queue
      BY <1>2 DEF Deliver, clientVars
    <2>2. \A k \in Conns : \A i \in DOMAIN queue'[k] : queue'[k][i] <= Len(log)
      <3> SUFFICES ASSUME NEW k \in Conns PROVE \A i \in DOMAIN queue'[k] : queue'[k][i] <= Len(log)
        OBVIOUS
      <3>1. queue'[k] = queue[k] \/ queue'[k] = Append(queue[k], event[p])
        BY <2>1 DEF TypeOK
      <3>2. queue[k] \in Seq(Nat) /\ event[p] \in Nat
        BY DEF TypeOK
      <3>3. event[p] <= Len(log) /\ \A i \in DOMAIN queue[k] : queue[k][i] <= Len(log)
        BY DEF PlaceInv
      <3> QED  BY <1>0, <3>1, <3>2, <3>3, AppendBound
    <2> QED  BY <2>1, <2>2 DEF PlaceInv
  <1>3. ASSUME NEW c \in Conns, Serve(c)
        PROVE  PlaceInv'
    <2>0. todo[c] \in Nat /\ upto[c] \in Nat
      BY DEF TypeOK
    <2>1. CASE Resolve(c)
      <3>1. /\ UNCHANGED <<log, subs, event, upto, queue, wire, client, conn, last>>
            /\ handler[c] = "requested" /\ client = "open" /\ c = conn
            /\ handler' = [handler EXCEPT ![c] = "resolved"]
            /\ todo' = [todo EXCEPT ![c] = 1 + IF NoCursor THEN Len(log) ELSE last]
        BY <2>1 DEF Resolve, Open, hubVars, clientVars
      <3>2. handler'[c] = "resolved" /\ \A k \in Conns : k # c => handler'[k] = handler[k]
        BY <3>1 DEF TypeOK
      <3>3. last < todo'[c] /\ todo'[c] <= Len(log) + 1
        <4>1. todo'[c] = 1 + IF NoCursor THEN Len(log) ELSE last
          BY <3>1 DEF TypeOK
        <4>2. last <= Len(log)
          BY DEF PlaceInv
        <4>3. CASE NoCursor
          BY <1>0, <4>1, <4>2, <4>3
        <4>4. CASE ~NoCursor
          BY <1>0, <4>1, <4>2, <4>4
        <4> QED  BY <4>3, <4>4
      <3>4. \A k \in Conns : conn < k => k # c
        BY <3>1 DEF PlaceInv
      <3> QED  BY <3>1, <3>2, <3>3, <3>4 DEF PlaceInv
    <2>2. CASE Snapshot(c)
      <3>1. /\ UNCHANGED <<log, subs, event, queue, wire, client, conn, last>>
            /\ handler[c] = "resolved"
            /\ handler' = [handler EXCEPT ![c] = "replay"]
            /\ upto' = [upto EXCEPT ![c] = Len(log)]
            /\ \A k \in Conns : k # c => todo'[k] = todo[k]
        BY <2>2 DEF Snapshot, hubVars, clientVars, TypeOK
      <3>2. handler'[c] = "replay" /\ \A k \in Conns : k # c => handler'[k] = handler[k]
        BY <3>1 DEF TypeOK
      <3>3. \A k \in Conns : upto'[k] <= Len(log)
        BY <1>0, <3>1 DEF TypeOK, PlaceInv
      <3> QED  BY <3>1, <3>2, <3>3 DEF PlaceInv
    <2>3. CASE ReplayOne(c)
      <3>1. /\ UNCHANGED <<log, subs, event, handler, upto, queue, client, conn, last>>
            /\ handler[c] = "replay" /\ todo[c] <= upto[c]
            /\ todo' = [todo EXCEPT ![c] = @ + 1]
            /\ wire' = [wire EXCEPT ![c] = Append(@, todo[c])] \/ wire' = wire
        BY <2>3 DEF ReplayOne, hubVars, clientVars
      <3>2. /\ \A k \in Conns : k # c => todo'[k] = todo[k] /\ wire'[k] = wire[k]
            /\ wire'[c] = wire[c] \/ wire'[c] = Append(wire[c], todo[c])
        BY <3>1 DEF TypeOK
      <3>3. \A i \in DOMAIN wire'[c] : wire'[c][i] <= Len(log)
        <4>1. wire[c] \in Seq(Nat)
          BY DEF TypeOK
        <4>2. todo[c] <= Len(log) /\ \A i \in DOMAIN wire[c] : wire[c][i] <= Len(log)
          BY <1>0, <2>0, <3>1 DEF PlaceInv
        <4> QED  BY <1>0, <2>0, <3>2, <4>1, <4>2, AppendBound
      <3> QED  BY <3>1, <3>2, <3>3 DEF PlaceInv
    <2>4. CASE Subscribe(c)
      <3>1. /\ UNCHANGED <<log, event, todo, upto, queue, wire, client, conn, last>>
            /\ handler[c] = "replay" /\ subs' = subs \cup {c}
            /\ handler' = [handler EXCEPT ![c] = "live"]
        BY <2>4 DEF Subscribe, clientVars
      <3>2. handler'[c] = "live" /\ \A k \in Conns : k # c => handler'[k] = handler[k]
        BY <3>1 DEF TypeOK
      <3> QED  BY <3>1, <3>2 DEF PlaceInv
    <2>5. CASE Pump(c)
      <3>1. /\ UNCHANGED <<log, subs, event, handler, todo, upto, client, conn, last>>
            /\ handler[c] = "live" /\ queue[c] # << >>
            /\ queue' = [queue EXCEPT ![c] = Tail(@)]
            /\ wire' = [wire EXCEPT ![c] = Append(@, Head(queue[c]))] \/ wire' = wire
        BY <2>5 DEF Pump, hubVars, clientVars
      <3>2. /\ \A k \in Conns : k # c => queue'[k] = queue[k] /\ wire'[k] = wire[k]
            /\ queue'[c] = Tail(queue[c])
            /\ wire'[c] = wire[c] \/ wire'[c] = Append(wire[c], Head(queue[c]))
            /\ queue[c] \in Seq(Nat) /\ wire[c] \in Seq(Nat)
        BY <3>1 DEF TypeOK
      <3>3. /\ 1 \in DOMAIN queue[c] /\ Head(queue[c]) = queue[c][1] /\ Head(queue[c]) \in Nat
            /\ \A i \in DOMAIN Tail(queue[c]) : /\ i + 1 \in DOMAIN queue[c]
                                                /\ Tail(queue[c])[i] = queue[c][i + 1]
        BY <3>1, <3>2, TailElements
      <3>4. \A i \in DOMAIN queue'[c] : queue'[c][i] <= Len(log)
        BY <3>2, <3>3 DEF PlaceInv
      <3>5. Head(queue[c]) <= Len(log) /\ \A i \in DOMAIN wire[c] : wire[c][i] <= Len(log)
        BY <3>3 DEF PlaceInv
      <3>6. \A i \in DOMAIN wire'[c] : wire'[c][i] <= Len(log)
        BY <1>0, <3>2, <3>3, <3>5, AppendBound
      <3> QED  BY <3>1, <3>2, <3>4, <3>6 DEF PlaceInv
    <2>6. CASE Fail(c)
      <3>1. /\ UNCHANGED <<log, event, todo, upto, queue, wire, client, conn, last>>
            /\ handler[c] # "off" /\ ~(client = "open" /\ c = conn) /\ subs' = subs \ {c}
            /\ handler' = [handler EXCEPT ![c] = "dead"]
        BY <2>6 DEF Fail, Open, clientVars
      <3>2. handler'[c] = "dead" /\ \A k \in Conns : k # c => handler'[k] = handler[k]
        BY <3>1 DEF TypeOK
      <3> QED  BY <3>1, <3>2 DEF PlaceInv
    <2> QED  BY <1>3, <2>1, <2>2, <2>3, <2>4, <2>5, <2>6 DEF Serve
  <1>4. CASE Connect
    <2>1. /\ UNCHANGED <<log, subs, event, todo, upto, queue, wire, last>>
          /\ conn \in Nat /\ conn' = conn + 1 /\ conn' \in Conns
          /\ handler' = [handler EXCEPT ![conn + 1] = "requested"]
      BY <1>4 DEF Connect, hubVars, TypeOK, Conns
    <2>2. handler'[conn'] = "requested" /\ \A k \in Conns : k # conn' => handler'[k] = handler[k]
      BY <2>1 DEF TypeOK
    <2>3. \A k \in Conns : conn' < k => k # conn' /\ conn < k
      BY <2>1 DEF Conns
    <2>4. handler[conn'] = "off"
      BY <2>1 DEF PlaceInv
    <2> QED  BY <2>1, <2>2, <2>3, <2>4 DEF PlaceInv
  <1>5. CASE Receive
    <2> DEFINE id == Head(wire[conn])
    <2>1. /\ UNCHANGED <<log, subs, event, handler, todo, upto, queue, conn>>
          /\ wire[conn] # << >> /\ client = "open" /\ conn \in Conns
          /\ wire' = [wire EXCEPT ![conn] = Tail(@)]
          /\ last' = last \/ last' = id
      BY <1>5 DEF Receive, hubVars, PlaceInv
    <2>2. /\ wire[conn] \in Seq(Nat) /\ wire'[conn] = Tail(wire[conn])
          /\ \A k \in Conns : k # conn => wire'[k] = wire[k]
      BY <2>1 DEF TypeOK
    <2>3. /\ 1 \in DOMAIN wire[conn] /\ id = wire[conn][1]
          /\ \A i \in DOMAIN Tail(wire[conn]) : /\ i + 1 \in DOMAIN wire[conn]
                                                /\ Tail(wire[conn])[i] = wire[conn][i + 1]
      BY <2>1, <2>2, TailElements
    <2>4. last' <= Len(log) /\ \A i \in DOMAIN wire'[conn] : wire'[conn][i] <= Len(log)
      BY <2>1, <2>2, <2>3 DEF PlaceInv
    <2>5. handler[conn] \in {"replay", "live"}
      BY <2>1 DEF PlaceInv
    <2> QED  BY <2>1, <2>2, <2>4, <2>5 DEF PlaceInv
  <1>6. CASE Drop
    <2>1. UNCHANGED <<log, subs, event, handler, todo, upto, queue, wire, conn, last>> /\ client' = "idle"
      BY <1>6 DEF Drop, hubVars, handlerVars
    <2> QED  BY <2>1 DEF PlaceInv
  <1>7. CASE UNCHANGED vars
    BY <1>7 DEF vars, hubVars, handlerVars, clientVars, PlaceInv
  <1> QED  BY <1>1, <1>2, <1>3, <1>4, <1>5, <1>6, <1>7 DEF Next

\* A step that leaves the log, the client and its current connection alone.
LEMMA ElsewhereCover ==
  ASSUME CoverInv,
         UNCHANGED <<log, event, follower, client, conn, last, received, since>>,
         \A r \in Reasons : lost[r] \subseteq lost'[r],
         client = "open" =>
            /\ wire'[conn] = wire[conn] /\ queue'[conn] = queue[conn]
            /\ handler'[conn] = handler[conn] /\ todo'[conn] = todo[conn] /\ upto'[conn] = upto[conn]
            /\ \A p \in Publishers : conn \in to[p] => conn \in to'[p]
  PROVE  CoverInv'
  <1> SUFFICES ASSUME client # "done", NEW id \in Ids, since < id, Matches(id), Accounted(id)'
               PROVE  Got(id)'
    BY DEF CoverInv, Ids, Matches
  <1>1. Accounted(id)
    BY DEF Accounted
  <1>2. Got(id)
    BY <1>1 DEF CoverInv
  <1>3. CASE client = "open" /\ id \in InFlight(conn)
    <2>1. id \in Pending(conn) => id \in Pending(conn)'
      BY <1>3 DEF Pending
    <2>2. id \in InFlight(conn)'
      BY <1>3, <2>1 DEF InFlight
    <2> QED  BY <1>3, <2>2 DEF Got
  <1> QED  BY <1>2, <1>3 DEF Got

LEMMA PublishCover ==
  ASSUME TypeOK, PlaceInv, CoverInv, NEW p \in Publishers, NEW kind \in Kinds, Publish(p, kind)
  PROVE  CoverInv'
  <1>1. /\ UNCHANGED <<subs, handler, todo, upto, queue, wire, follower, client, conn, last, received, since>>
        /\ to[p] = {}
        /\ event' = [event EXCEPT ![p] = Len(log) + 1]
        /\ to' = [to EXCEPT ![p] = subs]
        /\ log' = Append(log, [by |-> p, kind |-> kind])
        /\ lost' = IF client = "open" /\ handler[conn] = "replay"
                      /\ (follower = "watch_loop" \/ p = Run)
                   THEN Lose("gap", {Len(log) + 1}) ELSE lost
    BY DEF Publish, handlerVars, clientVars
  <1>2. /\ Len(log) \in Nat /\ Ids = 1..Len(log) /\ Ids' = 1..(Len(log) + 1)
        /\ log'[Len(log) + 1].by = p /\ \A id \in Ids : log'[id] = log[id]
    BY <1>1 DEF TypeOK, Ids
  <1>3. \A r \in Reasons : lost[r] \subseteq lost'[r]
    <2>1. CASE lost' = lost
      BY <2>1
    <2>2. CASE lost' = Lose("gap", {Len(log) + 1})
      BY <2>2, LoseGrows DEF Reasons
    <2> QED  BY <1>1, <2>1, <2>2
  <1>4. ASSUME client = "open"
        PROVE  InFlight(conn) \subseteq InFlight(conn)'
    <2>1. Pending(conn) \subseteq Pending(conn)'
      <3> SUFFICES ASSUME NEW q \in Publishers, conn \in to[q]
                   PROVE  conn \in to'[q] /\ event'[q] = event[q]
        <4>1. conn' = conn
          BY <1>1
        <4> QED  BY <4>1 DEF Pending
      <3>1. q # p
        BY <1>1
      <3> QED  BY <1>1, <3>1 DEF TypeOK
    <2> QED  BY <1>1, <2>1 DEF InFlight
  <1> SUFFICES ASSUME client # "done", NEW id \in Ids', since < id, Matches(id)', Accounted(id)'
               PROVE  Got(id)'
    BY <1>1 DEF CoverInv
  <1>5. CASE id \in Ids
    <2>1. Matches(id) /\ Accounted(id)
      BY <1>1, <1>2, <1>5 DEF Matches, Accounted
    <2>2. Got(id)
      BY <1>5, <2>1 DEF CoverInv
    <2> QED  BY <1>1, <1>3, <1>4, <2>2 DEF Got
  <1>6. CASE id \notin Ids
    <2>1. id = Len(log) + 1
      BY <1>2, <1>6
    <2>2. client = "open" /\ handler[conn] \in {"replay", "live"}
      <3>1. last \in Nat /\ last <= Len(log)
        BY DEF TypeOK, PlaceInv
      <3>2. client = "open" => todo[conn] \in Nat
        BY DEF TypeOK, PlaceInv
      <3> QED  BY <1>1, <1>2, <2>1, <3>1, <3>2 DEF Accounted, PlaceInv
    <2>3. CASE handler[conn] = "replay"
      <3>1. follower = "watch_loop" \/ p = Run
        BY <1>1, <1>2, <2>1 DEF Matches
      <3>2. lost' = Lose("gap", {Len(log) + 1})
        BY <1>1, <2>2, <2>3, <3>1
      <3>3. id \in lost'["gap"]
        BY <2>1, <3>2, LoseGrows DEF Reasons
      <3> QED  BY <3>3 DEF Got, Reasons
    <2>4. CASE handler[conn] = "live"
      <3>1. conn \in subs
        BY <2>2, <2>4 DEF PlaceInv
      <3>2. conn \in to'[p] /\ event'[p] = id
        BY <1>1, <2>1, <3>1 DEF TypeOK
      <3>3. id \in Pending(conn)'
        BY <1>1, <3>2 DEF Pending
      <3> QED  BY <1>1, <2>2, <3>3 DEF Got, InFlight
    <2> QED  BY <2>2, <2>3, <2>4
  <1> QED  BY <1>5, <1>6

LEMMA DeliverCover ==
  ASSUME TypeOK, PlaceInv, CoverInv, NEW p \in Publishers, NEW c \in Conns, Deliver(p, c)
  PROVE  CoverInv'
  <1>1. /\ UNCHANGED <<log, event, handler, todo, upto, wire, follower, client, conn, last, received, since>>
        /\ to' = [to EXCEPT ![p] = @ \ {c}]
        /\ \/ queue' = [queue EXCEPT ![c] = Append(@, event[p])] /\ lost' = lost
           \/ queue' = queue /\ lost' = IF Open(c) THEN Lose("full", {event[p]}) ELSE lost
    BY DEF Deliver, clientVars
  <1>2. \A r \in Reasons : lost[r] \subseteq lost'[r]
    BY <1>1, LoseGrows DEF Reasons
  <1>3. CASE ~(client = "open" /\ c = conn)
    <2>1. \A k \in Conns : k # c => /\ queue'[k] = queue[k]
                                    /\ \A q \in Publishers : k \in to[q] => k \in to'[q]
      BY <1>1 DEF TypeOK
    <2>2. client = "open" => conn \in Conns
      BY DEF PlaceInv
    <2> QED  BY <1>1, <1>2, <1>3, <2>1, <2>2, ElsewhereCover
  <1>4. CASE client = "open" /\ c = conn
    <2> SUFFICES ASSUME NEW id \in Ids, since < id, Matches(id), Accounted(id)'
                 PROVE  Got(id)'
      BY <1>1 DEF CoverInv, Ids, Matches
    <2>1. Got(id)
      <3>1. Accounted(id)
        BY <1>1 DEF Accounted
      <3> QED  BY <1>4, <3>1 DEF CoverInv
    <2>2. queue[c] \in Seq(Nat) /\ event[p] \in Nat
      BY DEF TypeOK
    <2>3. Elements(queue[c]) \subseteq Elements(queue'[c])
      <3>1. queue'[c] = Append(queue[c], event[p]) \/ queue'[c] = queue[c]
        BY <1>1 DEF TypeOK
      <3> QED  BY <2>2, <3>1, ElementsOfAppend
    <2>4. CASE id \in Pending(conn)
      <3>1. PICK q \in Publishers : conn \in to[q] /\ id = event[q]
        BY <2>4 DEF Pending
      <3>2. CASE q # p
        <4>1. conn \in to'[q]
          BY <1>1, <3>1, <3>2 DEF TypeOK
        <4>2. id \in Pending(conn)'
          BY <1>1, <3>1, <4>1 DEF Pending
        <4> QED  BY <1>1, <1>4, <4>2 DEF Got, InFlight
      <3>3. CASE q = p /\ lost' = lost /\ queue' = [queue EXCEPT ![c] = Append(@, event[p])]
        <4>1. id \in Elements(queue'[c])
          BY <2>2, <3>1, <3>3, ElementsOfAppend DEF TypeOK
        <4> QED  BY <1>1, <1>4, <4>1 DEF Got, InFlight
      <3>4. CASE q = p /\ lost' = IF Open(c) THEN Lose("full", {event[p]}) ELSE lost
        <4>1. lost' = Lose("full", {event[p]})
          BY <1>4, <3>4 DEF Open
        <4>2. id \in lost'["full"]
          BY <3>1, <3>4, <4>1, LoseGrows DEF Reasons
        <4> QED  BY <4>2 DEF Got, Reasons
      <3> QED  BY <1>1, <3>2, <3>3, <3>4
    <2>5. CASE id \in InFlight(conn) /\ id \notin Pending(conn)
      <3>1. id \in InFlight(conn)'
        BY <1>1, <1>4, <2>3, <2>5 DEF InFlight
      <3> QED  BY <1>1, <1>4, <3>1 DEF Got
    <2>6. CASE id \notin InFlight(conn)
      BY <1>1, <1>2, <2>1, <2>6 DEF Got
    <2> QED  BY <2>4, <2>5, <2>6
  <1> QED  BY <1>3, <1>4

LEMMA ServeCover ==
  ASSUME TypeOK, PlaceInv, CoverInv, NEW c \in Conns, Serve(c)
  PROVE  CoverInv'
  <1>t. /\ todo[c] \in Nat /\ upto[c] \in Nat /\ last \in Nat /\ Len(log) \in Nat
        /\ queue[c] \in Seq(Nat) /\ wire[c] \in Seq(Nat)
    BY DEF TypeOK
  <1>o. client = "open" => conn \in Conns
    BY DEF PlaceInv
  <1>1. CASE Resolve(c)
    <2>1. /\ UNCHANGED <<log, event, to, lost, upto, queue, wire, follower, client, conn, last, received>>
          /\ handler[c] = "requested" /\ client = "open" /\ c = conn
          /\ handler'[c] = "resolved"
          /\ todo'[c] = 1 + IF NoCursor THEN Len(log) ELSE last
          /\ since' = IF NoCursor THEN Len(log) ELSE since
      BY <1>1 DEF Resolve, Open, hubVars, clientVars, TypeOK
    <2> SUFFICES ASSUME NEW id \in Ids, since' < id, Matches(id), Accounted(id)'
                 PROVE  Got(id)'
      BY <2>1 DEF CoverInv, Ids, Matches
    <2>2. ~NoCursor
      BY <1>t, <2>1 DEF Ids
    <2>3. since' = since /\ todo'[c] = 1 + last
      BY <2>1, <2>2
    <2>4. id < 1 + last
      BY <2>1, <2>3 DEF Accounted
    <2>5. Accounted(id)
      BY <1>t, <2>1, <2>4 DEF Accounted, Ids
    <2>6. Got(id)
      BY <2>1, <2>3, <2>5 DEF CoverInv
    <2>7. Pending(conn)' = Pending(conn)
      BY <2>1 DEF Pending
    <2> QED  BY <2>1, <2>6, <2>7 DEF Got, InFlight
  <1>2. CASE Snapshot(c)
    <2> DEFINE gone == {id \in {i \in Ids : i + Buffer <= Len(log)} : id >= todo[c] /\ Matches(id)}
    <2>1. /\ UNCHANGED <<log, event, to, queue, wire, follower, client, conn, last, received, since>>
          /\ handler[c] = "resolved"
          /\ handler' = [handler EXCEPT ![c] = "replay"]
          /\ upto' = [upto EXCEPT ![c] = Len(log)]
          /\ todo' = [todo EXCEPT ![c] = IF @ + Buffer <= Len(log) THEN Len(log) + 1 - Buffer ELSE @]
          /\ lost' = IF Open(c) THEN Lose("evicted", gone) ELSE lost
      BY <1>2 DEF Snapshot, hubVars, clientVars
    <2>2. \A r \in Reasons : lost[r] \subseteq lost'[r]
      <3>1. CASE lost' = lost
        BY <3>1
      <3>2. CASE lost' = Lose("evicted", gone)
        BY <3>2, LoseGrows DEF Reasons
      <3> QED  BY <2>1, <3>1, <3>2
    <2>3. CASE ~(client = "open" /\ c = conn)
      <3>1. \A k \in Conns : k # c => handler'[k] = handler[k] /\ todo'[k] = todo[k] /\ upto'[k] = upto[k]
        BY <2>1 DEF TypeOK
      <3> QED  BY <1>o, <2>1, <2>2, <2>3, <3>1, ElsewhereCover
    <2>4. CASE client = "open" /\ c = conn
      <3> SUFFICES ASSUME NEW id \in Ids, since < id, Matches(id), Accounted(id)'
                   PROVE  Got(id)'
        BY <2>1 DEF CoverInv, Ids, Matches
      <3>1. /\ handler'[c] = "replay" /\ upto'[c] = Len(log)
            /\ todo'[c] = IF todo[c] + Buffer <= Len(log) THEN Len(log) + 1 - Buffer ELSE todo[c]
        BY <2>1 DEF TypeOK
      <3>2. CASE id < todo[c]
        <4>1. Got(id)
          BY <2>1, <2>4, <3>2 DEF CoverInv, Accounted
        <4>2. Pending(conn)' = Pending(conn)
          BY <2>1 DEF Pending
        <4> QED  BY <2>1, <2>2, <2>4, <3>1, <4>1, <4>2 DEF Got, InFlight
      <3>3. CASE id >= todo[c] /\ id + Buffer <= Len(log)
        <4>1. id \in gone
          BY <3>3
        <4>2. lost' = Lose("evicted", gone)
          BY <2>1, <2>4 DEF Open
        <4> HIDE DEF gone
        <4>3. id \in lost'["evicted"]
          BY <4>1, <4>2, LoseGrows DEF Reasons
        <4> QED  BY <4>3 DEF Got, Reasons
      <3>4. CASE id >= todo[c] /\ ~(id + Buffer <= Len(log))
        <4>1. id \in Nat /\ id <= Len(log)
          BY <1>t DEF Ids
        <4>2. id \in todo'[c]..upto'[c]
          BY <1>t, <3>1, <3>4, <4>1, SizesType
        <4> QED  BY <2>1, <2>4, <3>1, <4>2 DEF Got, InFlight
      <3>5. id < todo[c] \/ id >= todo[c]
        BY <1>t DEF Ids
      <3> QED  BY <3>2, <3>3, <3>4, <3>5
    <2> QED  BY <2>3, <2>4
  <1>3. CASE ReplayOne(c)
    <2>1. /\ UNCHANGED <<log, event, to, lost, handler, upto, queue, follower, client, conn, last, received, since>>
          /\ handler[c] = "replay" /\ client = "open" /\ c = conn
          /\ todo'[c] = todo[c] + 1
          /\ IF Matches(todo[c]) THEN wire'[c] = Append(wire[c], todo[c]) ELSE wire'[c] = wire[c]
      BY <1>3 DEF ReplayOne, Open, hubVars, clientVars, TypeOK
    <2> SUFFICES ASSUME NEW id \in Ids, since < id, Matches(id), Accounted(id)'
                 PROVE  Got(id)'
      BY <2>1 DEF CoverInv, Ids, Matches
    <2>2. Got(id)
      BY <2>1 DEF CoverInv, Accounted
    <2>3. Elements(wire[c]) \subseteq Elements(wire'[c])
      <3>1. wire'[c] = Append(wire[c], todo[c]) \/ wire'[c] = wire[c]
        BY <2>1
      <3> QED  BY <1>t, <3>1, ElementsOfAppend
    <2>4. Pending(conn)' = Pending(conn)
      BY <2>1 DEF Pending
    <2>5. CASE id = todo[c]
      <3>1. id \in Elements(wire'[c])
        BY <1>t, <2>1, <2>5, ElementsOfAppend
      <3> QED  BY <2>1, <3>1 DEF Got, InFlight
    <2>6. CASE id # todo[c]
      <3>1. id \in todo[c]..upto[c] => id \in todo'[c]..upto'[c]
        BY <1>t, <2>1, <2>6
      <3>2. id \in InFlight(conn) => id \in InFlight(conn)'
        BY <2>1, <2>3, <2>4, <3>1 DEF InFlight
      <3> QED  BY <2>1, <2>2, <3>2 DEF Got
    <2> QED  BY <2>5, <2>6
  <1>4. CASE Subscribe(c)
    <2>1. /\ UNCHANGED <<log, event, to, lost, todo, upto, queue, wire, follower, client, conn, last, received, since>>
          /\ handler[c] = "replay" /\ todo[c] > upto[c]
          /\ handler' = [handler EXCEPT ![c] = "live"]
      BY <1>4 DEF Subscribe, clientVars
    <2>2. CASE ~(client = "open" /\ c = conn)
      <3>1. \A k \in Conns : k # c => handler'[k] = handler[k]
        BY <2>1 DEF TypeOK
      <3> QED  BY <1>o, <2>1, <2>2, <3>1, ElsewhereCover
    <2>3. CASE client = "open" /\ c = conn
      <3> SUFFICES ASSUME NEW id \in Ids, since < id, Matches(id), Accounted(id)'
                   PROVE  Got(id)'
        BY <2>1 DEF CoverInv, Ids, Matches
      <3>1. Got(id)
        BY <2>1, <2>3 DEF CoverInv, Accounted
      <3>2. todo[c]..upto[c] = {}
        BY <1>t, <2>1
      <3>3. Pending(conn)' = Pending(conn)
        BY <2>1 DEF Pending
      <3> QED  BY <2>1, <2>3, <3>1, <3>2, <3>3 DEF Got, InFlight
    <2> QED  BY <2>2, <2>3
  <1>5. CASE Pump(c)
    <2>1. /\ UNCHANGED <<log, event, to, lost, handler, todo, upto, follower, client, conn, last, received, since>>
          /\ handler[c] = "live" /\ queue[c] # << >>
          /\ queue' = [queue EXCEPT ![c] = Tail(@)]
          /\ IF Matches(Head(queue[c]))
             THEN wire' = [wire EXCEPT ![c] = Append(@, Head(queue[c]))]
             ELSE wire' = wire
      BY <1>5 DEF Pump, hubVars, clientVars
    <2>2. CASE ~(client = "open" /\ c = conn)
      <3>1. \A k \in Conns : k # c => queue'[k] = queue[k] /\ wire'[k] = wire[k]
        BY <2>1 DEF TypeOK
      <3> QED  BY <1>o, <2>1, <2>2, <3>1, ElsewhereCover
    <2>3. CASE client = "open" /\ c = conn
      <3> SUFFICES ASSUME NEW id \in Ids, since < id, Matches(id), Accounted(id)'
                   PROVE  Got(id)'
        BY <2>1 DEF CoverInv, Ids, Matches
      <3>1. Got(id)
        BY <2>1, <2>3 DEF CoverInv, Accounted
      <3>2. Pending(conn)' = Pending(conn)
        BY <2>1 DEF Pending
      <3>3. queue'[c] = Tail(queue[c]) /\ Head(queue[c]) \in Nat
        BY <1>t, <2>1, TailLength DEF TypeOK
      <3>4. Elements(queue[c]) \subseteq {Head(queue[c])} \cup Elements(queue'[c])
        BY <1>t, <2>1, <3>3, ElementsOfTail
      <3>5. wire'[c] = wire[c] \/ wire'[c] = Append(wire[c], Head(queue[c]))
        BY <2>1 DEF TypeOK
      <3>6. Elements(wire[c]) \subseteq Elements(wire'[c])
        BY <1>t, <3>3, <3>5, ElementsOfAppend
      <3>7. id = Head(queue[c]) => id \in Elements(wire'[c])
        <4> SUFFICES ASSUME id = Head(queue[c]) PROVE id \in Elements(wire'[c])
          OBVIOUS
        <4>1. wire'[c] = Append(wire[c], Head(queue[c]))
          BY <2>1 DEF TypeOK
        <4> QED  BY <1>t, <3>3, <4>1, ElementsOfAppend
      <3>8. id \in InFlight(conn) => id \in InFlight(conn)'
        BY <2>1, <2>3, <3>2, <3>4, <3>6, <3>7 DEF InFlight
      <3> QED  BY <2>1, <2>3, <3>1, <3>8 DEF Got
    <2> QED  BY <2>2, <2>3
  <1>6. CASE Fail(c)
    <2>1. /\ UNCHANGED <<log, event, to, lost, todo, upto, queue, wire, follower, client, conn, last, received, since>>
          /\ ~(client = "open" /\ c = conn)
          /\ handler' = [handler EXCEPT ![c] = "dead"]
      BY <1>6 DEF Fail, Open, clientVars
    <2>2. \A k \in Conns : k # c => handler'[k] = handler[k]
      BY <2>1 DEF TypeOK
    <2> QED  BY <1>o, <2>1, <2>2, ElsewhereCover
  <1> QED  BY <1>1, <1>2, <1>3, <1>4, <1>5, <1>6 DEF Serve

LEMMA ClientCover ==
  ASSUME TypeOK, PlaceInv, CoverInv, Connect \/ Receive \/ Drop
  PROVE  CoverInv'
  <1>t. last \in Nat /\ received \in Seq(Nat)
    BY DEF TypeOK
  <1>1. CASE Connect
    <2>1. /\ UNCHANGED <<log, lost, follower, last, received, since>>
          /\ client = "idle" /\ client' = "open" /\ conn' \in Conns
          /\ handler'[conn'] = "requested"
      BY <1>1, SizesType DEF Connect, hubVars, TypeOK, Conns
    <2> SUFFICES ASSUME NEW id \in Ids, since < id, Matches(id), Accounted(id)'
                 PROVE  Got(id)'
      BY <2>1 DEF CoverInv, Ids, Matches
    <2>2. Accounted(id)
      BY <2>1 DEF Accounted
    <2>3. Got(id)
      BY <2>1, <2>2 DEF CoverInv
    <2> QED  BY <2>1, <2>3 DEF Got
  <1>2. CASE Receive
    <2> DEFINE next == Head(wire[conn])
    <2>1. /\ UNCHANGED <<log, event, to, lost, handler, todo, upto, queue, follower, conn, since>>
          /\ wire[conn] # << >> /\ client = "open" /\ conn \in Conns /\ client' \in {"open", "done"}
          /\ wire' = [wire EXCEPT ![conn] = Tail(@)]
          /\ received' = Append(received, next)
      BY <1>2 DEF Receive, hubVars, PlaceInv
    <2>2. wire[conn] \in Seq(Nat) /\ wire'[conn] = Tail(wire[conn]) /\ next \in Nat
      <3>1. wire[conn] \in Seq(Nat) /\ wire'[conn] = Tail(wire[conn])
        BY <2>1 DEF TypeOK
      <3> QED  BY <2>1, <3>1, TailLength
    <2>3. handler[conn] \in {"replay", "live"}
      BY <2>1 DEF PlaceInv
    <2> SUFFICES ASSUME client' = "open", NEW id \in Ids, since < id, Matches(id), Accounted(id)'
                 PROVE  Got(id)'
      BY <2>1 DEF CoverInv, Ids, Matches
    <2>4. Got(id)
      BY <2>1, <2>3 DEF CoverInv, Accounted
    <2>5. Pending(conn)' = Pending(conn)
      BY <2>1 DEF Pending
    <2>6. /\ Elements(wire[conn]) \subseteq {next} \cup Elements(wire'[conn])
          /\ Elements(received) \cup {next} \subseteq Elements(received')
      BY <1>t, <2>1, <2>2, ElementsOfTail, ElementsOfAppend
    <2>7. id \in InFlight(conn) => id = next \/ id \in InFlight(conn)'
      BY <2>1, <2>5, <2>6 DEF InFlight
    <2> QED  BY <2>1, <2>4, <2>6, <2>7 DEF Got
  <1>3. CASE Drop
    <2> DEFINE skipped == {id \in InFlight(conn) : id <= last /\ Matches(id)}
    <2>1. /\ UNCHANGED <<log, follower, conn, last, received, since>>
          /\ client = "open" /\ client' = "idle"
          /\ lost' = Lose("overtaken", skipped)
      BY <1>3 DEF Drop, hubVars
    <2> SUFFICES ASSUME NEW id \in Ids, since < id, Matches(id), Accounted(id)'
                 PROVE  Got(id)'
      BY <2>1 DEF CoverInv, Ids, Matches
    <2>2. id <= last
      BY <2>1 DEF Accounted
    <2>3. Accounted(id)
      <3>1. conn \in Conns /\ (handler[conn] = "resolved" => last < todo[conn])
        BY <2>1 DEF PlaceInv
      <3>2. todo[conn] \in Nat /\ id \in Nat
        BY <3>1 DEF TypeOK, Ids
      <3> QED  BY <1>t, <2>2, <3>1, <3>2 DEF Accounted
    <2>4. Got(id)
      BY <2>1, <2>3 DEF CoverInv
    <2>5. id \in InFlight(conn) => id \in skipped
      BY <2>2
    <2> HIDE DEF skipped
    <2>6. skipped \subseteq lost'["overtaken"] /\ \A r \in Reasons : lost[r] \subseteq lost'[r]
      BY <2>1, LoseGrows DEF Reasons
    <2> QED  BY <2>1, <2>4, <2>5, <2>6 DEF Got, Reasons
  <1> QED  BY <1>1, <1>2, <1>3

LEMMA CoverStep ==
  ASSUME TypeOK, PlaceInv, CoverInv, [Next]_vars
  PROVE  CoverInv'
  <1>1. CASE \E p \in Publishers, kind \in Kinds : Publish(p, kind)
    BY <1>1, PublishCover
  <1>2. CASE \E p \in Publishers, c \in Conns : Deliver(p, c)
    BY <1>2, DeliverCover
  <1>3. CASE \E c \in Conns : Serve(c)
    BY <1>3, ServeCover
  <1>4. CASE Connect \/ Receive \/ Drop
    BY <1>4, ClientCover
  <1>5. CASE UNCHANGED vars
    BY <1>5, ElsewhereCover DEF vars, hubVars, handlerVars, clientVars
  <1> QED  BY <1>1, <1>2, <1>3, <1>4, <1>5 DEF Next

\* From a handler's replay on, every event since the beginning of the stream has
\* been yielded, is on its way or is lost for one of the four reasons; between
\* connections, every event up to the cursor.
THEOREM CoverInvariant == Spec => [](PlaceInv /\ CoverInv)
  <1>1. Init => PlaceInv /\ CoverInv
    BY DEF Init, PlaceInv, CoverInv, Ids
  <1>2. TypeOK /\ PlaceInv /\ CoverInv /\ [Next]_vars => PlaceInv' /\ CoverInv'
    BY PlaceStep, CoverStep
  <1> QED  BY <1>1, <1>2, TypeCorrect, PTL DEF Spec

\* Either client misses an event below its cursor only for one of the reasons.
THEOREM MissesForAReason == Spec => []NothingElseMissed
  <1>1. TypeOK /\ PlaceInv /\ CoverInv => NothingElseMissed
    <2> SUFFICES ASSUME TypeOK, PlaceInv, CoverInv, client # "done", NEW id \in Ids,
                        since < id, id <= last, Matches(id)
                 PROVE  Got(id)
      BY DEF NothingElseMissed, Got
    <2>1. id \in Nat /\ last \in Nat
      BY DEF TypeOK, Ids
    <2>2. client = "open" /\ handler[conn] = "resolved" => last < todo[conn] /\ todo[conn] \in Nat
      BY DEF TypeOK, PlaceInv
    <2> QED  BY <2>1, <2>2 DEF CoverInv, Accounted
  <1> QED  BY <1>1, CoverInvariant, TypeCorrect, PTL
=============================================================================
