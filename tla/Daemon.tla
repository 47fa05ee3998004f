------------------------------- MODULE Daemon -------------------------------
(***************************************************************************)
(* The local daemon (urirun_runtime/daemon.py) that keeps the registry and *)
(* the workers warm: one process that serves one connection at a time on a *)
(* Unix socket, and the light clients that call it with a timeout.  More   *)
(* than one daemon may be started on the same path, at any time: after the *)
(* last one ended or was killed, while it is ending, or while it serves.   *)
(***************************************************************************)
EXTENDS Naturals, Sequences

CONSTANTS
    Daemons,      \* daemon processes, each started once
    Clients,      \* calls, each on a connection of its own
    Asks,         \* what each client calls: a uri, or the shutdown
    Nobody        \* no daemon, no client

ASSUME DaemonAssumption ==
    /\ Nobody \notin Daemons \cup Clients
    /\ Asks \in [Clients -> {"uri", "shutdown"}]

VARIABLES
    loop,         \* where each daemon is in serve
    conn,         \* the client of the connection it serves
    backlog,      \* connections it has not accepted
    path,         \* the daemon whose socket the path leads to
    client,       \* "new", "connected", "sent", "done", or "gone" before its answer
    peer,         \* the daemon each client connected to
    sent,         \* clients whose request is in their connection
    told,         \* daemons that were told to shut down, or killed
    left,         \* daemons whose client was gone when they answered it
    denied,       \* daemons whose accept raised
    met,          \* history: the daemons that ran when each one bound the path
    overtaken,    \* history: daemons that ran when another one was started
    removed       \* history: daemons that removed the file at their end

daemonVars == <<loop, conn, backlog, path, client, peer, sent, told, left, denied,
                met, overtaken, removed>>
clientVars == <<client, peer, sent>>
causes == <<told, left, denied>>
history == <<met, overtaken, removed>>

Listening(d) == loop[d] \notin {"off", "bind", "failed", "unlink", "ended"}
Running(d) == loop[d] \notin {"off", "failed", "ended"}
Waiting(c) == client[c] \in {"connected", "sent"}

DaemonInit ==
    /\ loop = [d \in Daemons |-> "off"]
    /\ conn = [d \in Daemons |-> Nobody]
    /\ backlog = [d \in Daemons |-> <<>>]
    /\ path = Nobody
    /\ client = [c \in Clients |-> "new"]
    /\ peer = [c \in Clients |-> Nobody]
    /\ sent = {} /\ told = {} /\ left = {} /\ denied = {}
    /\ met = [d \in Daemons |-> {}]
    /\ overtaken = {} /\ removed = {}

Proceed(d, there) == loop' = [loop EXCEPT ![d] = there]

(* A request is done with, and its connection closed, unless it raised and   *)
(* its client is to be told so.                                              *)
Finish(d, there) ==
    /\ Proceed(d, there)
    /\ conn' = [conn EXCEPT ![d] = IF there = "error" THEN @ ELSE Nobody]

Now(c, how) == client' = [client EXCEPT ![c] = how]

(* A call returns or raises, and closes its end of the connection.           *)
End(c, how) == Now(c, how) /\ peer' = [peer EXCEPT ![c] = Nobody]

-----------------------------------------------------------------------------
(* The client: call(). *)

Connect(c, d) ==
    /\ client[c] = "new"
    /\ path = d /\ Listening(d)
    /\ Now(c, "connected")
    /\ peer' = [peer EXCEPT ![c] = d]
    /\ backlog' = [backlog EXCEPT ![d] = Append(@, c)]
    /\ UNCHANGED <<loop, conn, path, sent, causes, history>>

(* The path leads nowhere, or to a socket nobody listens on any more: the    *)
(* call fails at once.                                                       *)
Refused(c) ==
    /\ client[c] = "new"
    /\ ~ \E d \in Daemons : path = d /\ Listening(d)
    /\ End(c, "done")
    /\ UNCHANGED <<loop, conn, backlog, path, sent, causes, history>>

SendRequest(c) ==
    /\ client[c] = "connected"
    /\ Now(c, "sent")
    /\ sent' = sent \cup {c}
    /\ UNCHANGED <<loop, conn, backlog, path, peer, causes, history>>

(* The timeout, or the death of the client, closes its end.                  *)
Leave(c) ==
    /\ Waiting(c)
    /\ End(c, "gone")
    /\ UNCHANGED <<loop, conn, backlog, path, sent, causes, history>>

(* The other end is closed without an answer: the call fails.                *)
Dropped(c) ==
    /\ Waiting(c) /\ ~ Listening(peer[c])
    /\ End(c, "done")
    /\ UNCHANGED <<loop, conn, backlog, path, sent, causes, history>>

-----------------------------------------------------------------------------
(* The daemon: serve(). *)

(* _bind_socket first removes what is at the path, whoever listens there.    *)
Clear(d) ==
    /\ loop[d] = "off"
    /\ path' = Nobody
    /\ overtaken' = overtaken \cup {e \in Daemons : Running(e)}
    /\ Proceed(d, "bind")
    /\ UNCHANGED <<conn, backlog, clientVars, causes, met, removed>>

\* Mutant: the socket is bound inside the try, so that a bind that raises
\* runs _cleanup.
BindInTry(d) ==
    /\ loop[d] = "bind"
    /\ \/ path = Nobody /\ path' = d /\ Proceed(d, "accept")
       \/ path # Nobody /\ path' = Nobody /\ Proceed(d, "failed")
    /\ met' = [met EXCEPT ![d] = {e \in Daemons \ {d} : Running(e)}]
    /\ UNCHANGED <<conn, backlog, clientVars, causes, overtaken, removed>>

(* Then it binds its own socket there and listens: that raises, out of       *)
(* serve, when another daemon has bound the path meanwhile.                  *)
Bind(d) ==
    /\ loop[d] = "bind"
    /\ \/ path = Nobody /\ path' = d /\ Proceed(d, "accept")
       \/ path # Nobody /\ Proceed(d, "failed") /\ UNCHANGED path
    /\ met' = [met EXCEPT ![d] = {e \in Daemons \ {d} : Running(e)}]
    /\ UNCHANGED <<conn, backlog, clientVars, causes, overtaken, removed>>

(* The next connection; accept itself may raise (no descriptor is left), out *)
(* of the loop.                                                              *)
Accept(d) ==
    /\ loop[d] = "accept" /\ backlog[d] # <<>>
    /\ \/ /\ conn' = [conn EXCEPT ![d] = Head(backlog[d])]
          /\ backlog' = [backlog EXCEPT ![d] = Tail(@)]
          /\ Proceed(d, "read")
          /\ UNCHANGED denied
       \/ /\ Proceed(d, "close")
          /\ denied' = denied \cup {d}
          /\ UNCHANGED <<conn, backlog>>
    /\ UNCHANGED <<path, clientVars, told, left, history>>

\* Mutant: the end of the stream does not end the reading of a request.
ReadOn(d) ==
    /\ loop[d] = "read" /\ conn[d] \in sent
    /\ Proceed(d, IF Asks[conn[d]] = "shutdown" THEN "goodbye" ELSE "run")
    /\ UNCHANGED <<conn, backlog, path, clientVars, causes, history>>

(* The request is there, though its client may have left; a client that left *)
(* before sending anything is passed over, and the part of a request that    *)
(* one left behind raises.                                                   *)
Read(d) ==
    /\ loop[d] = "read"
    /\ \/ /\ conn[d] \in sent
          /\ Proceed(d, IF Asks[conn[d]] = "shutdown" THEN "goodbye" ELSE "run")
          /\ UNCHANGED conn
       \/ /\ conn[d] \notin sent /\ client[conn[d]] = "gone"
          /\ Finish(d, "accept") \/ Finish(d, "error")
    /\ UNCHANGED <<backlog, path, clientVars, causes, history>>

\* Mutant: what v2.run raises is not caught.
RunUncaught(d) ==
    /\ loop[d] = "run"
    /\ Proceed(d, "reply") \/ Proceed(d, "close")
    /\ UNCHANGED <<conn, backlog, path, clientVars, causes, history>>

(* v2.run returns an envelope, or the request is no good and something       *)
(* raises.                                                                   *)
Run(d) ==
    /\ loop[d] = "run"
    /\ Proceed(d, "reply") \/ Proceed(d, "error")
    /\ UNCHANGED <<conn, backlog, path, clientVars, causes, history>>

(* sendall to a client that left raises: the handler of exceptions answers   *)
(* it again, with _send_error, which raises as well, out of the loop.        *)
AnswerClient(d, here, next, gone) ==
    /\ loop[d] = here
    /\ \/ /\ client[conn[d]] = "sent"
          /\ End(conn[d], "done")
          /\ Finish(d, next)
          /\ told' = IF here = "goodbye" THEN told \cup {d} ELSE told
          /\ UNCHANGED left
       \/ /\ client[conn[d]] = "gone"
          /\ Finish(d, gone)
          /\ left' = left \cup {d}
          /\ UNCHANGED <<client, peer, told>>
    /\ UNCHANGED <<backlog, path, sent, denied, history>>

Reply(d) == AnswerClient(d, "reply", "accept", "error")
Goodbye(d) == AnswerClient(d, "goodbye", "close", "error")
SendError(d) == AnswerClient(d, "error", "accept", "close")

(* _cleanup closes the workers and the socket, with what waits there, and    *)
(* then removes whatever is at the path.                                     *)
CloseServer(d) ==
    /\ loop[d] = "close"
    /\ backlog' = [backlog EXCEPT ![d] = <<>>]
    /\ Proceed(d, "unlink")
    /\ UNCHANGED <<conn, path, clientVars, causes, history>>

RemovePath(d) ==
    /\ loop[d] = "unlink"
    /\ path' = Nobody
    /\ removed' = removed \cup {d}
    /\ Proceed(d, "ended")
    /\ UNCHANGED <<conn, backlog, clientVars, causes, met, overtaken>>

(* The process is killed: its connections go with it, its socket file stays. *)
Kill(d) ==
    /\ Running(d)
    /\ told' = told \cup {d}
    /\ Finish(d, "ended")
    /\ backlog' = [backlog EXCEPT ![d] = <<>>]
    /\ UNCHANGED <<path, clientVars, left, denied, history>>

ServeStep(d) ==
    Accept(d) \/ Read(d) \/ Run(d) \/ Reply(d) \/ Goodbye(d) \/ SendError(d)
        \/ CloseServer(d) \/ RemovePath(d)

DaemonNext ==
    \/ \E c \in Clients, d \in Daemons : Connect(c, d)
    \/ \E c \in Clients : Refused(c) \/ SendRequest(c) \/ Leave(c) \/ Dropped(c)
    \/ \E d \in Daemons : Clear(d) \/ Bind(d) \/ ServeStep(d) \/ Kill(d)

DaemonSpec == DaemonInit /\ [][DaemonNext]_daemonVars

(* A daemon goes on serving, a route returns, and a client sends what it     *)
(* connected for and notices the end of its connection; nothing is assumed   *)
(* of its timeout.                                                           *)
DaemonFairness == /\ \A d \in Daemons : WF_daemonVars(ServeStep(d))
            /\ \A c \in Clients : WF_daemonVars(SendRequest(c)) /\ WF_daemonVars(Dropped(c))

FairDaemonSpec == DaemonSpec /\ DaemonFairness

-----------------------------------------------------------------------------
(* Properties *)

Loops == {"off", "bind", "failed", "accept", "read", "run", "goodbye", "reply", "error", "close", "unlink", "ended"}

(* The type invariant.                                                       *)
DaemonTypeOK ==
    /\ loop \in [Daemons -> Loops]
    /\ conn \in [Daemons -> Clients \cup {Nobody}]
    /\ backlog \in [Daemons -> Seq(Clients)]
    /\ path \in Daemons \cup {Nobody}
    /\ client \in [Clients -> {"new", "connected", "sent", "done", "gone"}]
    /\ peer \in [Clients -> Daemons \cup {Nobody}]
    /\ sent \subseteq Clients
    /\ told \subseteq Daemons /\ left \subseteq Daemons /\ denied \subseteq Daemons
    /\ met \in [Daemons -> SUBSET Daemons]
    /\ overtaken \subseteq Daemons /\ removed \subseteq Daemons

(* A daemon ends when it was told to, and never because of a request: what a *)
(* request raises is answered "without raising".                             *)
EndsWhenTold == \A d \in Daemons : loop[d] \in {"close", "unlink", "ended"} => d \in told

(* A daemon ends when it was told to, when accept raised, or when a client   *)
(* was gone by the time of its answer; no request that raises and no client  *)
(* that leaves before it sent anything ends it.                              *)
EndHasCause ==
    \A d \in Daemons :
        loop[d] \in {"close", "unlink", "ended"} => d \in told \cup left \cup denied

(* A daemon that listens is found at the path, unless another was started    *)
(* after it, or one that had not ended when it bound the path, be it closing *)
(* or serving, has removed the file at its own end since.  What an earlier   *)
(* one left there, a daemon killed, and a start that fails take it from      *)
(* nobody.                                                                   *)
FoundAtPath ==
    \A d \in Daemons :
        Listening(d) /\ path # d => d \in overtaken \/ met[d] \cap removed # {}

(* Every call comes to an end without the help of its timeout.               *)
CallsEnd == \A c \in Clients : Waiting(c) ~> ~ Waiting(c)
=============================================================================
