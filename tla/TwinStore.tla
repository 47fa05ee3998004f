----------------------------- MODULE TwinStore -----------------------------
(***************************************************************************)
(* The durable memory of the twin (urirun_twin/twin_store.py): one JSON    *)
(* file with the known-good flows and environments and the recorded        *)
(* sessions.  Every use opens a handle of its own: it reads the file once  *)
(* into a mirror, answers reads from the mirror and writes the whole       *)
(* mirror back on every write, through a temporary file that replaces the  *)
(* real one.  Handles live in threads and processes of their own: a chat   *)
(* turn holds one for as long as its flow runs, a session:// call for one  *)
(* write.                                                                  *)
(*                                                                         *)
(* A flow record, a profile and a step are values; a key is the namespace  *)
(* and the name in it.  due, dirty and missed are history: what the writes *)
(* of all handles together ought to have made of the file, and which keys  *)
(* a handle has still to put there or knows an old value of.  Such a       *)
(* handle may undo what others wrote: due then follows the file.           *)
(***************************************************************************)
EXTENDS Naturals, Sequences

CONSTANTS
    Handles,      \* the handles that may be open at one time
    Flows,        \* flow keys
    CleanRuns,    \* records of runs that fully succeeded
    DegradedRuns, \* records of runs that completed degraded
    Nodes,        \* nodes with an environment
    Profiles,     \* fingerprints of environments
    Sessions,     \* recorder sessions
    Steps,        \* steps that are recorded
    MaxWrites,    \* bound: the writes of all handles together
    None          \* there is no value

Good(f) == <<"flows", f>>
Degraded(f) == <<"degraded", f>>
Profile(n) == <<"profiles", n>>
Session(i) == <<"sessions", i>>
KnownGoodKeys == {Good(f) : f \in Flows} \cup {Profile(n) : n \in Nodes}
SessionKeys == {Session(i) : i \in Sessions}
Keys == KnownGoodKeys \cup SessionKeys \cup {Degraded(f) : f \in Flows}

Record == [status : {"unset", "recording", "committed"}, steps : Seq(Steps)]
Values == CleanRuns \cup DegradedRuns \cup Profiles \cup Record \cup {None}

ASSUME StoreAssumption ==
    /\ MaxWrites \in Nat
    /\ None \notin CleanRuns \cup DegradedRuns \cup Profiles \cup Record
    /\ CleanRuns \cap DegradedRuns = {}

VARIABLES
    file,         \* what the JSON file holds, key by key; nothing when there is none
    whole,        \* it has every namespace
    mirror,       \* the mirror of each handle
    at,           \* what each handle is doing
    writes,       \* how many writes were made
    due,          \* what the file ought to hold once every write is flushed
    dirty,        \* the keys of which a handle made the last write, not flushed yet
    missed        \* the keys of which a handle does not know the value that is due

vars == <<file, whole, mirror, at, writes, due, dirty, missed>>

Empty == [k \in Keys |-> None]
Pending(k) == \E h \in Handles : k \in dirty[h]

Init ==
    /\ file = Empty /\ whole = FALSE /\ due = Empty /\ writes = 0
    /\ mirror = [h \in Handles |-> Empty]
    /\ at = [h \in Handles |-> "closed"]
    /\ dirty = [h \in Handles |-> {}]
    /\ missed = [h \in Handles |-> {}]

Goto(h, there) == at' = [at EXCEPT ![h] = there]

-----------------------------------------------------------------------------
(* The file and the mirrors. *)

(* A handle reads the file; one that cannot be read or parsed counts as      *)
(* empty, as one there is not.  The handle then writes the namespaces its    *)
(* mirror lacks, one flush for each.                                         *)
Open(h) ==
    /\ at[h] = "closed"
    /\ \/ /\ mirror' = [mirror EXCEPT ![h] = file]
          /\ missed' = [missed EXCEPT ![h] = {k \in Keys : Pending(k)}]
          /\ Goto(h, IF whole THEN "open" ELSE "create")
       \/ /\ mirror' = [mirror EXCEPT ![h] = Empty]
          /\ missed' = [missed EXCEPT ![h] = Keys]
          /\ Goto(h, "create")
    /\ UNCHANGED <<file, whole, writes, due, dirty>>

(* What a flush undoes: the keys the handle knows an old value of, but for   *)
(* those another handle is about to write.                                   *)
Undone(h) == {k \in missed[h] : \A g \in Handles \ {h} : k \notin dirty[g]}

(* The end of _flush: the whole mirror of the handle becomes the file.       *)
Replace(h) ==
    /\ at[h] \in {"flush", "create"}
    /\ file' = mirror[h]
    /\ due' = [k \in Keys |-> IF k \in Undone(h) THEN mirror[h][k] ELSE due[k]]
    /\ missed' = [g \in Handles |->
        IF at[g] = "closed" THEN missed[g]
        ELSE IF g = h THEN missed[h] \ Undone(h) ELSE missed[g] \cup Undone(h)]
    /\ dirty' = [dirty EXCEPT ![h] = {}]
    /\ \/ Goto(h, "open") /\ whole' = TRUE
       \/ at[h] = "create" /\ whole' = FALSE /\ UNCHANGED at
    /\ UNCHANGED <<mirror, writes>>

(* A flush that fails leaves the file as it was; the mirror keeps the write  *)
(* and the next flush of the handle may still save it.                       *)
FlushFails(h) ==
    /\ at[h] \in {"flush", "create"}
    /\ Goto(h, "open")
    /\ UNCHANGED <<file, whole, mirror, writes, due, dirty, missed>>

(* The handle goes out of use, or its process dies, between any two steps:   *)
(* before the temporary file replaces the real one nothing has changed.      *)
Close(h) ==
    /\ at[h] # "closed"
    /\ Goto(h, "closed")
    /\ mirror' = [mirror EXCEPT ![h] = Empty]
    /\ due' = [k \in Keys |-> IF k \in dirty[h] THEN file[k] ELSE due[k]]
    /\ dirty' = [dirty EXCEPT ![h] = {}]
    /\ missed' = [missed EXCEPT ![h] = {}]
    /\ UNCHANGED <<file, whole, writes>>

-----------------------------------------------------------------------------
(* The operations of TwinMemory, each one write on the mirror of its handle. *)

(* k gets the value v; want is what the file then ought to hold.             *)
Write(h, k, v, want) ==
    /\ at[h] = "open" /\ writes < MaxWrites
    /\ writes' = writes + 1
    /\ mirror' = [mirror EXCEPT ![h][k] = v]
    /\ due' = want
    /\ dirty' = [g \in Handles |-> IF g = h THEN dirty[h] \cup {k} ELSE dirty[g] \ {k}]
    /\ missed' = [g \in Handles |->
        IF g = h \/ at[g] = "closed" THEN missed[g] ELSE missed[g] \cup {k}]
    /\ Goto(h, "flush")
    /\ UNCHANGED <<file, whole>>

\* Mutant: a degraded run is kept as a known-good one.
RememberAnyFlow(h, f, r) ==
    Write(h, Good(f), r,
          IF r \in CleanRuns THEN [due EXCEPT ![Good(f)] = r] ELSE due)

(* The latest run that fully succeeded is the known-good one; a degraded run *)
(* goes to a namespace of its own.                                           *)
RememberFlow(h, f, r) ==
    \/ /\ r \in DegradedRuns
       /\ Write(h, Degraded(f), r, [due EXCEPT ![Degraded(f)] = r])
    \/ /\ r \in CleanRuns
       /\ Write(h, Good(f), r, [due EXCEPT ![Good(f)] = r])

(* After a successful run the environment it ran in is the new baseline.     *)
Remember(h, n, p) == Write(h, Profile(n), p, [due EXCEPT ![Profile(n)] = p])

(* A drift query takes the first baseline of a node and moves none.          *)
DriftQuery(h, n, p) ==
    /\ mirror[h][Profile(n)] = None
    /\ Write(h, Profile(n), p,
             IF due[Profile(n)] = None THEN [due EXCEPT ![Profile(n)] = p] ELSE due)

OrNew(rec) == IF rec = None THEN [status |-> "unset", steps |-> <<>>] ELSE rec
Started(rec) ==
    IF OrNew(rec).status = "unset" THEN [OrNew(rec) EXCEPT !.status = "recording"] ELSE rec
Appended(rec, step) == [OrNew(rec) EXCEPT !.steps = Append(@, step)]
Committed(rec) == [rec EXCEPT !.status = "committed"]

\* Mutant: starting a session again clears what it recorded.
StartAfresh(h, i) ==
    Write(h, Session(i), [status |-> "recording", steps |-> <<>>],
          [due EXCEPT ![Session(i)] = Started(@)])

(* Starting again an existing session keeps its steps and its status.        *)
SessionStart(h, i) ==
    Write(h, Session(i), Started(mirror[h][Session(i)]),
          [due EXCEPT ![Session(i)] = Started(@)])

(* Neither the existence nor the status of the session is looked at.         *)
SessionAppend(h, i, step) ==
    Write(h, Session(i), Appended(mirror[h][Session(i)], step),
          [due EXCEPT ![Session(i)] = Appended(@, step)])

SessionCommit(h, i) ==
    /\ mirror[h][Session(i)] # None
    /\ Write(h, Session(i), Committed(mirror[h][Session(i)]),
             [due EXCEPT ![Session(i)] = IF @ = None THEN None ELSE Committed(@)])

UseFlow(h) == \E f \in Flows, r \in CleanRuns \cup DegradedRuns : RememberFlow(h, f, r)
UseProfile(h) == \E n \in Nodes, p \in Profiles : Remember(h, n, p) \/ DriftQuery(h, n, p)
UseSession(h) ==
    \E i \in Sessions :
        \/ SessionStart(h, i)
        \/ \E step \in Steps : SessionAppend(h, i, step)
        \/ SessionCommit(h, i)

Next == \E h \in Handles :
    \/ Open(h) \/ Replace(h) \/ FlushFails(h) \/ Close(h)
    \/ UseFlow(h) \/ UseProfile(h) \/ UseSession(h)

Spec == Init /\ [][Next]_vars

-----------------------------------------------------------------------------
(* Properties *)

(* What a file or a mirror may hold.                                         *)
Contents ==
    {m \in [Keys -> Values] : \A i \in Sessions : m[Session(i)] \in Record \cup {None}}

(* The type invariant.                                                       *)
TypeOK ==
    /\ file \in Contents /\ due \in Contents /\ whole \in BOOLEAN
    /\ mirror \in [Handles -> Contents]
    /\ at \in [Handles -> {"closed", "create", "open", "flush"}]
    /\ writes \in 0..MaxWrites
    /\ dirty \in [Handles -> SUBSET Keys] /\ missed \in [Handles -> SUBSET Keys]

Saved(k) == Pending(k) \/ file[k] = due[k]

(* Once its write is flushed, the file names the last run of a flow that     *)
(* fully succeeded and the environment of the last success of a node,        *)
(* whatever degraded runs, drift queries, opened handles, failed flushes and *)
(* deaths come in between.  Only a flush of a handle that read the file      *)
(* before that write, or could not read it, may undo it; the next write is   *)
(* kept again on the same terms.                                             *)
KnownGoodSurvives == \A k \in KnownGoodKeys : Saved(k)

(* A session holds every step that was appended and flushed, in order, and   *)
(* its commit, on the same terms: a step is undone only by a handle that     *)
(* read the file before it was there, or could not read it, and what such a  *)
(* handle leaves is what every later step is appended to.                    *)
SessionsSurvive == \A k \in SessionKeys : Saved(k)

(* A handle knows what is due, except for the keys it missed; it misses what *)
(* others are about to write.  Why the file keeps what is written.           *)
MirrorCurrent ==
    \A h \in Handles : at[h] # "closed" =>
        \A k \in Keys :
            /\ k \in missed[h] \/ mirror[h][k] = due[k]
            /\ (\E g \in Handles \ {h} : k \in dirty[g]) => k \in missed[h]

(* A closed handle has nothing pending.                                      *)
Tidy == \A h \in Handles : at[h] = "closed" => dirty[h] = {}

StoreInv == MirrorCurrent /\ Tidy /\ \A k \in Keys : Saved(k)
=============================================================================
