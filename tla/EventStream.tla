----------------------------- MODULE EventStream -----------------------------
(***************************************************************************)
(* A node's live event stream: the EventHub of urirun_node/server.py, the  *)
(* server-sent-events handler that follows it, and the two clients that    *)
(* resume a stream after a drop.  publish numbers an event, keeps it in a  *)
(* ring and snapshots the subscribers under the lock, then fills their     *)
(* queues outside it, one by one.  A handler replays the ring from the     *)
(* client's cursor and only then subscribes.                               *)
(*                                                                         *)
(* An event is its id; the log says who published it and whether it is the *)
(* terminal result of its publisher's run.  Every connection has a handler *)
(* thread of its own, which outlives a dropped connection until a write    *)
(* fails.  The client is one follower: "stream_run" follows one run to its *)
(* result and its cursor is the largest id it has seen, "watch_loop"       *)
(* follows everything and its cursor is the id it saw last.                *)
(***************************************************************************)
EXTENDS Naturals, Sequences, FiniteSets

CONSTANTS
    Publishers,  \* the threads that publish, one run each
    Run,         \* the publisher whose run stream_run follows
    Buffer,      \* size of the ring
    QueueSize,   \* size of a subscriber's queue
    WireSize,    \* frames the connection holds before a write blocks
    MaxEvents,   \* bound: events published
    MaxConns     \* bound: connections the client opens

ASSUME RunAssumption == Run \in Publishers
ASSUME SizesAssumption == {Buffer, QueueSize, WireSize, MaxEvents, MaxConns} \subseteq Nat \ {0}

Conns == 1..MaxConns
Followers == {"stream_run", "watch_loop"}

VARIABLES
    log,      \* the events published, by id
    subs,     \* _subs, the connections whose queue is registered
    event,    \* the event each publisher published last
    to,       \* the subscribers it has still to put it to
    handler,  \* where each connection's handler is
    todo,     \* the next id it replays
    upto,     \* the last one
    queue,    \* its subscription's queue
    wire,     \* what it wrote and the client has not read
    follower, \* which of the two clients follows the stream
    client,   \* "idle" between connections, "open" or "done"
    conn,     \* the client's current connection
    last,     \* its cursor
    received, \* the ids it yielded, in order
    since,    \* the cursor its stream began at
    lost      \* the ids it will not get, by reason (history)

hubVars == <<log, subs, event, to>>
handlerVars == <<handler, todo, upto, queue, wire>>
clientVars == <<follower, client, conn, last, received>>
vars == <<hubVars, handlerVars, clientVars, since, lost>>

Ids == 1..Len(log)
Kinds == {"progress", "result"}
Reasons == {"gap", "full", "evicted", "overtaken"}
Elements(s) == {s[i] : i \in DOMAIN s}

\* _sse_event_matches: stream_run asks for the events of its run.
Matches(id) == follower = "watch_loop" \/ log[id].by = Run
Finished(p) == \E id \in Ids : log[id] = [by |-> p, kind |-> "result"]

\* The client's socket is open; a handler cannot write to it otherwise.
Open(c) == client = "open" /\ c = conn

\* What is on its way to connection c.
Pending(c) == {event[p] : p \in {q \in Publishers : c \in to[q]}}
InFlight(c) == Elements(wire[c]) \cup Elements(queue[c]) \cup Pending(c)
               \cup IF handler[c] = "replay" THEN todo[c]..upto[c] ELSE {}

Lose(reason, ids) == [lost EXCEPT ![reason] = @ \cup ids]

Init == /\ log = << >>
        /\ subs = {}
        /\ event = [p \in Publishers |-> 0]
        /\ to = [p \in Publishers |-> {}]
        /\ handler = [c \in Conns |-> "off"]
        /\ todo = [c \in Conns |-> 1]
        /\ upto = [c \in Conns |-> 0]
        /\ queue = [c \in Conns |-> << >>]
        /\ wire = [c \in Conns |-> << >>]
        /\ follower \in Followers
        /\ client = "idle"
        /\ conn = 0
        /\ last = 0
        /\ received = << >>
        /\ since = 0
        /\ lost = [r \in Reasons |-> {}]

-----------------------------------------------------------------------------
(* EventHub.                                                               *)

\* The part of publish that holds the lock.  An event published between a
\* handler's replay and its subscription reaches neither.
Publish(p, kind) ==
    /\ Len(log) < MaxEvents
    /\ to[p] = {} /\ ~Finished(p)
    /\ log' = Append(log, [by |-> p, kind |-> kind])
    /\ event' = [event EXCEPT ![p] = Len(log) + 1]
    /\ to' = [to EXCEPT ![p] = subs]
    /\ lost' = IF client = "open" /\ handler[conn] = "replay"
                  /\ (follower = "watch_loop" \/ p = Run)
               THEN Lose("gap", {Len(log) + 1}) ELSE lost
    /\ UNCHANGED <<subs, handlerVars, clientVars, since>>

\* Mutant: the newest event replaces a slow subscriber's whole queue.
DeliverConflated(p, c) ==
    /\ c \in to[p]
    /\ to' = [to EXCEPT ![p] = @ \ {c}]
    /\ queue' = [queue EXCEPT ![c] = IF Len(@) < QueueSize THEN Append(@, event[p])
                                     ELSE <<event[p]>>]
    /\ UNCHANGED <<log, subs, event, handler, todo, upto, wire, clientVars, since, lost>>

\* Mutant: a put at the front of the queue.
DeliverInFront(p, c) ==
    /\ c \in to[p]
    /\ to' = [to EXCEPT ![p] = @ \ {c}]
    /\ queue' = [queue EXCEPT ![c] = <<event[p]>> \o @]
    /\ UNCHANGED <<log, subs, event, handler, todo, upto, wire, clientVars, since, lost>>

\* One put_nowait of publish's loop over its snapshot: a full queue drops it.
Deliver(p, c) ==
    /\ c \in to[p]
    /\ to' = [to EXCEPT ![p] = @ \ {c}]
    /\ \/ /\ Len(queue[c]) < QueueSize
          /\ queue' = [queue EXCEPT ![c] = Append(@, event[p])]
          /\ UNCHANGED lost
       \/ /\ Len(queue[c]) >= QueueSize
          /\ lost' = IF Open(c) THEN Lose("full", {event[p]}) ELSE lost
          /\ UNCHANGED queue
    /\ UNCHANGED <<log, subs, event, handler, todo, upto, wire, clientVars, since>>

-----------------------------------------------------------------------------
(* The handler of a connection.                                            *)

\* _sse_initial_cursor: a client without a cursor starts at the current id.
NoCursor == follower = "watch_loop" /\ received = << >>

\* Mutant: the queue is registered before the ring is read.
ResolveSubscribed(c) ==
    /\ handler[c] = "requested" /\ Open(c)
    /\ handler' = [handler EXCEPT ![c] = "resolved"]
    /\ todo' = [todo EXCEPT ![c] = 1 + last]
    /\ subs' = subs \cup {c}
    /\ UNCHANGED <<log, event, to, upto, queue, wire, clientVars, since, lost>>

Resolve(c) ==
    /\ handler[c] = "requested" /\ Open(c)
    /\ handler' = [handler EXCEPT ![c] = "resolved"]
    /\ todo' = [todo EXCEPT ![c] = 1 + IF NoCursor THEN Len(log) ELSE last]
    /\ since' = IF NoCursor THEN Len(log) ELSE since
    /\ UNCHANGED <<hubVars, upto, queue, wire, clientVars, lost>>

\* replay_since: what is left in the ring of the ids above the cursor.
Snapshot(c) ==
    LET evicted == {id \in Ids : id + Buffer <= Len(log)} IN
    /\ handler[c] = "resolved"
    /\ handler' = [handler EXCEPT ![c] = "replay"]
    /\ upto' = [upto EXCEPT ![c] = Len(log)]
    /\ todo' = [todo EXCEPT ![c] =
                   IF @ + Buffer <= Len(log) THEN Len(log) + 1 - Buffer ELSE @]
    /\ lost' = IF Open(c)
               THEN Lose("evicted", {id \in evicted : id >= todo[c] /\ Matches(id)})
               ELSE lost
    /\ UNCHANGED <<hubVars, queue, wire, clientVars, since>>

\* One event of the replay loop, written if it matches.
ReplayOne(c) ==
    /\ handler[c] = "replay" /\ Open(c)
    /\ todo[c] <= upto[c]
    /\ IF Matches(todo[c])
       THEN /\ Len(wire[c]) < WireSize
            /\ wire' = [wire EXCEPT ![c] = Append(@, todo[c])]
       ELSE UNCHANGED wire
    /\ todo' = [todo EXCEPT ![c] = @ + 1]
    /\ UNCHANGED <<hubVars, handler, upto, queue, clientVars, since, lost>>

Subscribe(c) ==
    /\ handler[c] = "replay"
    /\ todo[c] > upto[c]
    /\ subs' = subs \cup {c}
    /\ handler' = [handler EXCEPT ![c] = "live"]
    /\ UNCHANGED <<log, event, to, todo, upto, queue, wire, clientVars, since, lost>>

\* One turn of _sse_live_loop.
Pump(c) ==
    /\ handler[c] = "live"
    /\ queue[c] # << >>
    /\ IF Matches(Head(queue[c]))
       THEN /\ Open(c) /\ Len(wire[c]) < WireSize
            /\ wire' = [wire EXCEPT ![c] = Append(@, Head(queue[c]))]
       ELSE UNCHANGED wire
    /\ queue' = [queue EXCEPT ![c] = Tail(@)]
    /\ UNCHANGED <<hubVars, handler, todo, upto, clientVars, since, lost>>

\* A write to a closed connection, a keep-alive at the latest, raises.
Fail(c) ==
    /\ handler[c] \in {"requested", "resolved", "replay", "live"} /\ ~Open(c)
    /\ handler' = [handler EXCEPT ![c] = "dead"]
    /\ subs' = subs \ {c}
    /\ UNCHANGED <<log, event, to, todo, upto, queue, wire, clientVars, since, lost>>

-----------------------------------------------------------------------------
(* The client.                                                             *)

Connect ==
    /\ client = "idle"
    /\ conn < MaxConns
    /\ client' = "open"
    /\ conn' = conn + 1
    /\ handler' = [handler EXCEPT ![conn + 1] = "requested"]
    /\ UNCHANGED <<hubVars, todo, upto, queue, wire, follower, last, received, since, lost>>

\* Mutant: the cursor is the id of the event the client expects next.
ReceiveExpecting ==
    LET id == Head(wire[conn]) IN
    /\ client = "open"
    /\ wire[conn] # << >>
    /\ wire' = [wire EXCEPT ![conn] = Tail(@)]
    /\ received' = Append(received, id)
    /\ last' = id + 1
    /\ client' = IF follower = "stream_run" /\ log[id].kind = "result" THEN "done" ELSE "open"
    /\ UNCHANGED <<hubVars, handler, todo, upto, queue, follower, conn, since, lost>>

\* An event is yielded; stream_run returns at the result.
Receive ==
    LET id == Head(wire[conn]) IN
    /\ client = "open"
    /\ wire[conn] # << >>
    /\ wire' = [wire EXCEPT ![conn] = Tail(@)]
    /\ received' = Append(received, id)
    /\ last' = IF follower = "stream_run" /\ last > id THEN last ELSE id
    /\ client' = IF follower = "stream_run" /\ log[id].kind = "result" THEN "done" ELSE "open"
    /\ UNCHANGED <<hubVars, handler, todo, upto, queue, follower, conn, since, lost>>

\* The connection breaks.  What was in flight is replayed on the next one,
\* unless the cursor is already past it.  The bound's last connection holds.
Drop ==
    /\ client = "open"
    /\ conn < MaxConns
    /\ client' = "idle"
    /\ lost' = Lose("overtaken", {id \in InFlight(conn) : id <= last /\ Matches(id)})
    /\ UNCHANGED <<hubVars, handlerVars, follower, conn, last, received, since>>

Serve(c) == Resolve(c) \/ Snapshot(c) \/ ReplayOne(c) \/ Subscribe(c) \/ Pump(c) \/ Fail(c)

Next == \/ \E p \in Publishers, kind \in Kinds : Publish(p, kind)
        \/ \E p \in Publishers, c \in Conns : Deliver(p, c)
        \/ \E c \in Conns : Serve(c)
        \/ Connect \/ Receive \/ Drop

\* The threads of publishers and handlers run on, and the client reads and
\* reconnects; nothing makes a run publish or a connection break.
Fairness ==
    /\ \A p \in Publishers : WF_vars(\E c \in Conns : Deliver(p, c))
    /\ \A c \in Conns : WF_vars(Serve(c))
    /\ WF_vars(Connect) /\ WF_vars(Receive)

Spec == Init /\ [][Next]_vars
FairSpec == Spec /\ Fairness

-----------------------------------------------------------------------------
(* Properties.                                                             *)

\* Types, and the bound of a subscriber's queue.
TypeOK ==
    /\ log \in Seq([by : Publishers, kind : Kinds])
    /\ subs \subseteq Conns
    /\ event \in [Publishers -> Nat]
    /\ to \in [Publishers -> SUBSET Conns]
    /\ handler \in [Conns -> {"off", "requested", "resolved", "replay", "live", "dead"}]
    /\ todo \in [Conns -> Nat]
    /\ upto \in [Conns -> Nat]
    /\ queue \in [Conns -> Seq(Nat)]
    /\ \A c \in Conns : Len(queue[c]) <= QueueSize
    /\ wire \in [Conns -> Seq(Nat)]
    /\ follower \in Followers
    /\ client \in {"idle", "open", "done"}
    /\ conn \in 0..MaxConns
    /\ conn = 0 => client = "idle"
    /\ last \in Nat
    /\ received \in Seq(Nat)
    /\ since \in Nat
    /\ lost \in [Reasons -> SUBSET Nat]

Distinct(s) == \A i, j \in DOMAIN s : s[i] = s[j] => i = j

\* However often the connection breaks, stream_run yields no event twice: a
\* handler subscribes after its replay, and the cursor is a maximum.
AtMostOnce == follower = "stream_run" => Distinct(received)

\* What keeps it so: nothing on its way to the current connection has been
\* yielded or is on its way twice; a replay stays above the cursor and ends
\* before the first put; a connection not yet opened has nothing.
Later(k) == /\ handler[k] = "off" /\ k \notin subs
            /\ wire[k] = << >> /\ queue[k] = << >>
            /\ \A p \in Publishers : k \notin to[p]

WireInv(c) ==
    /\ Distinct(wire[c])
    /\ \A i \in DOMAIN wire[c] : /\ wire[c][i] \in Ids
                                 /\ \A j \in DOMAIN received : wire[c][i] # received[j]

QueueInv(c) ==
    /\ Distinct(queue[c])
    /\ \A i \in DOMAIN queue[c] : /\ queue[c][i] \in Ids
                                  /\ \A j \in DOMAIN received : queue[c][i] # received[j]
                                  /\ \A j \in DOMAIN wire[c] : queue[c][i] # wire[c][j]

PendingInv(c) ==
    \A p \in Publishers : c \in to[p] =>
        /\ event[p] \in Ids
        /\ \A j \in DOMAIN received : event[p] # received[j]
        /\ \A j \in DOMAIN wire[c] : event[p] # wire[c][j]
        /\ \A j \in DOMAIN queue[c] : event[p] # queue[c][j]
        /\ \A q \in Publishers : c \in to[q] /\ event[p] = event[q] => p = q

ReplayInv(c) ==
    /\ handler[c] \in {"requested", "resolved", "replay", "live"}
    /\ handler[c] # "live" => /\ queue[c] = << >>
                              /\ c \notin subs
                              /\ \A p \in Publishers : c \notin to[p]
    /\ handler[c] \in {"requested", "resolved"} => wire[c] = << >>
    /\ handler[c] \in {"resolved", "replay"} => last < todo[c]
    /\ handler[c] = "replay" => /\ upto[c] <= Len(log)
                                /\ \A i \in DOMAIN wire[c] : wire[c][i] < todo[c]

RunStreamInv ==
    /\ \A k \in Conns : conn < k => Later(k)
    /\ last <= Len(log)
    /\ \A i \in DOMAIN received : received[i] <= last
    /\ Distinct(received)
    /\ client = "open" =>
          conn \in Conns /\ WireInv(conn) /\ QueueInv(conn) /\ PendingInv(conn) /\ ReplayInv(conn)

StreamInv == follower = "stream_run" => RunStreamInv

\* stream_run yields the events of its run in the order they were published.
RunInOrder ==
    follower = "stream_run" =>
        \A i, j \in DOMAIN received :
            i < j /\ log[received[i]].by = log[received[j]].by => received[i] < received[j]

\* What keeps it so: of the run's events, those the client has yielded, those on
\* the wire, those in the queue and the one its publisher is putting follow each
\* other in the order of their ids.
WireOrder(c) ==
    \A i \in DOMAIN wire[c] :
        /\ log[wire[c][i]].by = Run
        /\ \A j \in DOMAIN received : received[j] < wire[c][i]
        /\ \A k \in DOMAIN wire[c] : i < k => wire[c][i] < wire[c][k]

QueueOrder(c) ==
    \A i \in DOMAIN queue[c] : log[queue[c][i]].by = Run =>
        /\ \A j \in DOMAIN received : received[j] < queue[c][i]
        /\ \A j \in DOMAIN wire[c] : wire[c][j] < queue[c][i]
        /\ \A k \in DOMAIN queue[c] :
              i < k /\ log[queue[c][k]].by = Run => queue[c][i] < queue[c][k]

PendingOrder(c) ==
    c \in to[Run] =>
        /\ \A j \in DOMAIN received : received[j] < event[Run]
        /\ \A j \in DOMAIN wire[c] : wire[c][j] < event[Run]
        /\ \A j \in DOMAIN queue[c] : log[queue[c][j]].by = Run => queue[c][j] < event[Run]

RunOrderInv ==
    /\ \A p \in Publishers : event[p] # 0 => event[p] \in Ids /\ log[event[p]].by = p
    /\ \A i \in DOMAIN received : received[i] \in Ids /\ log[received[i]].by = Run
    /\ \A i, j \in DOMAIN received : i < j => received[i] < received[j]
    /\ last = 0 \/ \E j \in DOMAIN received : received[j] = last
    /\ lost["overtaken"] = {}
    /\ client = "open" => WireOrder(conn) /\ QueueOrder(conn) /\ PendingOrder(conn)

OrderInv == follower = "stream_run" => RunOrderInv

\* Every event below the cursor was yielded or is on its way, unless it was
\* published between a replay and the subscription, met a full queue, left the
\* ring before a reconnect, or was overtaken by an event of another publisher
\* just before a drop.
NothingElseMissed ==
    client # "done" =>
        \A id \in Ids :
            since < id /\ id <= last /\ Matches(id)
                        => \/ id \in Elements(received)
                           \/ \E r \in Reasons : id \in lost[r]
                           \/ client = "open" /\ id \in InFlight(conn)

\* What keeps it so: once a handler has its replay, every event since the
\* stream's beginning has been yielded, is lost for a reason or is on its way;
\* before that, those up to the cursor, resolved or not.
Got(id) == \/ id \in Elements(received)
           \/ \E r \in Reasons : id \in lost[r]
           \/ client = "open" /\ id \in InFlight(conn)

Accounted(id) == IF client = "open" /\ handler[conn] # "requested"
                 THEN handler[conn] = "resolved" => id < todo[conn]
                 ELSE id <= last

CoverInv == client # "done" =>
    \A id \in Ids : since < id /\ Matches(id) /\ Accounted(id) => Got(id)

PlaceInv ==
    /\ \A p \in Publishers : event[p] <= Len(log)
    /\ \A c \in Conns : /\ conn < c => handler[c] = "off"
                        /\ handler[c] \in {"off", "requested", "resolved"} => wire[c] = << >>
                        /\ handler[c] = "live" => c \in subs
                        /\ upto[c] <= Len(log)
                        /\ \A i \in DOMAIN queue[c] : queue[c][i] <= Len(log)
                        /\ \A i \in DOMAIN wire[c] : wire[c][i] <= Len(log)
    /\ last <= Len(log)
    /\ client = "open" =>
          /\ conn \in Conns
          /\ handler[conn] \in {"requested", "resolved", "replay", "live"}
          /\ handler[conn] = "resolved" => last < todo[conn] /\ todo[conn] <= Len(log) + 1

\* Only events of different publishers overtake each other.
OneRunIsNeverOvertaken == follower = "stream_run" => lost["overtaken"] = {}

\* A broken connection's queue is taken out of the hub in the end.
SubscriptionEnds == \A c \in Conns : handler[c] = "live" /\ ~Open(c) ~> c \notin subs

\* stream_run returns once its run has finished, unless the result itself is
\* lost in the gap, to a full queue or from the ring: no other event that is
\* lost can keep it waiting, and nothing of another run can overtake the result.
ResultLost == \E id \in Ids : /\ log[id] = [by |-> Run, kind |-> "result"]
                             /\ \E r \in Reasons \ {"overtaken"} : id \in lost[r]
ReturnsUnlessLost ==
    follower = "stream_run" /\ Finished(Run) ~> client = "done" \/ ResultLost

\* stream_run of urirun_node/client.py: "nothing is missed until the terminal
\* result".
ResultArrives == follower = "stream_run" /\ Finished(Run) ~> client = "done"
=============================================================================
