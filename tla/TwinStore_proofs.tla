-------------------------- MODULE TwinStore_proofs --------------------------
(***************************************************************************)
(* Proofs about TwinStore: its type invariant, and that the known-good     *)
(* runs, the environments and the sessions that were flushed are undone    *)
(* only by handles that do not know them, for any handles and any number   *)
(* of writes.                                                              *)
(***************************************************************************)
EXTENDS TwinStore, TLAPS

(* What each namespace holds.                                                *)
LEMMA KeysAreKeys ==
    /\ \A f \in Flows : Good(f) \in Keys /\ Degraded(f) \in Keys
    /\ \A n \in Nodes : Profile(n) \in Keys
    /\ \A i \in Sessions : Session(i) \in Keys
BY DEF Keys, KnownGoodKeys, SessionKeys

(* The parts of a write that the invariants depend on: one handle and one    *)
(* key change, the others miss it, and a mirror that held the value that was *)
(* due holds the one that is.                                                *)
WriteStep(h, k) ==
    /\ at[h] = "open" /\ at' = [at EXCEPT ![h] = "flush"]
    /\ dirty' = [g \in Handles |-> IF g = h THEN dirty[h] \cup {k} ELSE dirty[g] \ {k}]
    /\ missed' = [g \in Handles |->
        IF g = h \/ at[g] = "closed" THEN missed[g] ELSE missed[g] \cup {k}]
    /\ UNCHANGED file
    /\ \A g \in Handles, j \in Keys : (g # h \/ j # k) => mirror'[g][j] = mirror[g][j]
    /\ \A j \in Keys : j # k => due'[j] = due[j]
    /\ mirror[h][k] = due[k] => mirror'[h][k] = due'[k]

(* What the invariant says of one handle and one key.                        *)
CurrentAt(h, k) ==
    /\ k \in missed[h] \/ mirror[h][k] = due[k]
    /\ (\E g \in Handles \ {h} : k \in dirty[g]) => k \in missed[h]

LEMMA CurrentAtAll ==
    MirrorCurrent <=> \A h \in Handles, k \in Keys : at[h] # "closed" => CurrentAt(h, k)
BY DEF MirrorCurrent, CurrentAt

(* Any write of that form keeps the invariant of the store: the key is       *)
(* pending, and whoever else mirrors it misses it.                           *)
LEMMA WriteKeepsInv ==
    ASSUME TypeOK, StoreInv, NEW h \in Handles, NEW k \in Keys, WriteStep(h, k)
    PROVE  StoreInv'
<1>0. /\ \A g \in Handles : at'[g] = "closed" <=> at[g] = "closed"
      /\ k \in dirty'[h] /\ \A g \in Handles, j \in Keys \ {k} : j \in dirty'[g] <=> j \in dirty[g]
      /\ \A g \in Handles \ {h} : k \notin dirty'[g]
      /\ \A g \in Handles, j \in Keys \ {k} : j \in missed'[g] <=> j \in missed[g]
      /\ \A g \in Handles \ {h} : at[g] # "closed" => k \in missed'[g]
      /\ missed'[h] = missed[h] /\ at[h] = "open"
  BY DEF WriteStep, TypeOK
<1>1. ASSUME NEW g \in Handles, NEW j \in Keys, at'[g] # "closed" PROVE CurrentAt(g, j)'
  <2>1. at[g] # "closed" /\ CurrentAt(g, j)
    BY <1>0, <1>1, CurrentAtAll DEF StoreInv
  <2>2. CASE j # k
    BY <1>0, <2>1, <2>2 DEF WriteStep, CurrentAt
  <2>3. CASE j = k /\ g = h
    BY <1>0, <2>1, <2>3 DEF WriteStep, CurrentAt
  <2>4. CASE j = k /\ g # h
    BY <1>0, <2>1, <2>4 DEF CurrentAt
  <2> QED BY <2>2, <2>3, <2>4
<1>2. MirrorCurrent'
  BY <1>1 DEF MirrorCurrent, CurrentAt
<1>3. Tidy'
  <2> SUFFICES ASSUME NEW g \in Handles, at'[g] = "closed" PROVE dirty'[g] = {}
    BY DEF Tidy
  <2>1. at[g] = "closed" /\ g # h /\ dirty[g] = {}
    BY <1>0 DEF StoreInv, Tidy
  <2> QED BY <2>1 DEF WriteStep, TypeOK
<1>4. ASSUME NEW j \in Keys PROVE Saved(j)'
  <2>1. CASE j = k
    BY <1>0, <2>1 DEF Saved, Pending
  <2>2. CASE j # k
    <3>1. Saved(j) BY DEF StoreInv
    <3> QED BY <1>0, <2>2, <3>1 DEF Saved, Pending, WriteStep
  <2> QED BY <2>1, <2>2
<1> QED BY <1>2, <1>3, <1>4 DEF StoreInv

-----------------------------------------------------------------------------
(* Types *)

(* What the operations on a session make of a session is a session.          *)
LEMMA SessionValues ==
    \A v \in Record \cup {None} :
        /\ Started(v) \in Record
        /\ \A step \in Steps : Appended(v, step) \in Record
        /\ v # None => Committed(v) \in Record
<1> TAKE v \in Record \cup {None}
<1>0. None \notin Record
  BY StoreAssumption
<1>1. [status |-> "unset", steps |-> <<>>] \in Record
  BY DEF Record
<1>2. OrNew(v) \in Record
  BY <1>1 DEF OrNew
<1>3. v # None => OrNew(v) = v
  BY DEF OrNew
<1>4. ASSUME NEW r \in Record, NEW x \in {"recording", "committed"}
      PROVE  [r EXCEPT !.status = x] \in Record
  BY DEF Record
<1>5. ASSUME NEW r \in Record, NEW step \in Steps
      PROVE  [r EXCEPT !.steps = Append(@, step)] \in Record
  BY DEF Record
<1>6. Started(v) \in Record
  <2>1. CASE OrNew(v).status = "unset"
    BY <2>1, <1>2, <1>4 DEF Started
  <2>2. CASE OrNew(v).status # "unset"
    <3>1. v # None BY <2>2 DEF OrNew
    <3> QED BY <2>2, <3>1, <1>2, <1>3 DEF Started
  <2> QED BY <2>1, <2>2
<1>7. \A step \in Steps : Appended(v, step) \in Record
  BY <1>2, <1>5 DEF Appended
<1>8. v # None => Committed(v) \in Record
  BY <1>4 DEF Committed
<1> QED BY <1>6, <1>7, <1>8

(* A value of the right kind put under a key keeps the contents well typed.  *)
LEMMA PutKeepsContents ==
    /\ \A m \in Contents, i \in Sessions, v \in Record \cup {None} :
           [m EXCEPT ![Session(i)] = v] \in Contents
    /\ \A m \in Contents, f \in Flows, v \in CleanRuns \cup DegradedRuns :
           /\ [m EXCEPT ![Good(f)] = v] \in Contents
           /\ [m EXCEPT ![Degraded(f)] = v] \in Contents
    /\ \A m \in Contents, n \in Nodes, v \in Profiles :
           [m EXCEPT ![Profile(n)] = v] \in Contents
<1>1. \A i \in Sessions : /\ \A f \in Flows : Good(f) # Session(i) /\ Degraded(f) # Session(i)
                          /\ \A n \in Nodes : Profile(n) # Session(i)
  BY DEF Good, Degraded, Profile, Session
<1>2. Record \cup {None} \subseteq Values
      /\ CleanRuns \cup DegradedRuns \subseteq Values /\ Profiles \subseteq Values
  BY DEF Values
<1>3. ASSUME NEW m \in Contents, NEW k \in Keys, NEW v \in Values,
             \A i \in Sessions : k = Session(i) => v \in Record \cup {None}
      PROVE  [m EXCEPT ![k] = v] \in Contents
  BY <1>3, KeysAreKeys DEF Contents
<1>4. \A m \in Contents, i \in Sessions, v \in Record \cup {None} :
         [m EXCEPT ![Session(i)] = v] \in Contents
  BY <1>2, <1>3, KeysAreKeys
<1>5. \A m \in Contents, f \in Flows, v \in CleanRuns \cup DegradedRuns :
         /\ [m EXCEPT ![Good(f)] = v] \in Contents
         /\ [m EXCEPT ![Degraded(f)] = v] \in Contents
  BY <1>1, <1>2, <1>3, KeysAreKeys
<1>6. \A m \in Contents, n \in Nodes, v \in Profiles : [m EXCEPT ![Profile(n)] = v] \in Contents
  BY <1>1, <1>2, <1>3, KeysAreKeys
<1> QED BY <1>4, <1>5, <1>6

(* A write of one key that keeps its mirror and the due well typed, and    *)
(* gives a mirror that held the due value the new due value, keeps both  *)
(* invariants.                                                               *)
LEMMA WriteIsSound ==
    ASSUME TypeOK, StoreInv, NEW h \in Handles, NEW k \in Keys
    PROVE  \A v \in Values, want \in Contents :
             /\ Write(h, k, v, want)
             /\ [mirror[h] EXCEPT ![k] = v] \in Contents
             /\ \A j \in Keys : j # k => want[j] = due[j]
             /\ mirror[h][k] = due[k] => v = want[k]
             => TypeOK' /\ StoreInv'
<1> TAKE v \in Values, want \in Contents
<1> HAVE /\ Write(h, k, v, want)
         /\ [mirror[h] EXCEPT ![k] = v] \in Contents
         /\ \A j \in Keys : j # k => want[j] = due[j]
         /\ mirror[h][k] = due[k] => v = want[k]
<1>1. /\ at[h] = "open" /\ writes < MaxWrites /\ writes' = writes + 1
      /\ mirror' = [mirror EXCEPT ![h] = [mirror[h] EXCEPT ![k] = v]]
      /\ due' = want
      /\ dirty' = [g \in Handles |-> IF g = h THEN dirty[h] \cup {k} ELSE dirty[g] \ {k}]
      /\ missed' = [g \in Handles |->
            IF g = h \/ at[g] = "closed" THEN missed[g] ELSE missed[g] \cup {k}]
      /\ at' = [at EXCEPT ![h] = "flush"]
      /\ UNCHANGED <<file, whole>>
  BY DEF Write, Goto
<1>2. mirror'[h] = [mirror[h] EXCEPT ![k] = v]
  BY <1>1 DEF TypeOK
<1>3. TypeOK'
  <2>1. mirror' \in [Handles -> Contents]
    BY <1>1 DEF TypeOK
  <2>2. writes' \in 0..MaxWrites
    BY <1>1, StoreAssumption DEF TypeOK
  <2>3. dirty' \in [Handles -> SUBSET Keys] /\ missed' \in [Handles -> SUBSET Keys]
    BY <1>1 DEF TypeOK
  <2>4. at' \in [Handles -> {"closed", "create", "open", "flush"}]
    BY <1>1 DEF TypeOK
  <2> QED BY <1>1, <2>1, <2>2, <2>3, <2>4 DEF TypeOK
<1>4. WriteStep(h, k)
  BY <1>1, <1>2 DEF WriteStep, TypeOK, Contents
<1> QED BY <1>3, <1>4, WriteKeepsInv

-----------------------------------------------------------------------------
(* Each operation of TwinMemory is such a write. *)

(* Remembering a flow.                                                       *)
LEMMA FlowsKept ==
    ASSUME TypeOK, StoreInv, NEW h \in Handles, UseFlow(h)
    PROVE  TypeOK' /\ StoreInv'
<1>1. PICK f \in Flows, r \in CleanRuns \cup DegradedRuns : RememberFlow(h, f, r)
  BY DEF UseFlow
<1>2. PICK k \in {Good(f), Degraded(f)} : Write(h, k, r, [due EXCEPT ![k] = r])
  BY <1>1 DEF RememberFlow
<1>3. k \in Keys
  BY KeysAreKeys
<1>4. r \in Values
  BY DEF Values
<1>5. mirror[h] \in Contents /\ due \in Contents
  BY DEF TypeOK
<1>6. [mirror[h] EXCEPT ![k] = r] \in Contents /\ [due EXCEPT ![k] = r] \in Contents
  BY <1>5, PutKeepsContents
<1>7. [due EXCEPT ![k] = r][k] = r
      /\ \A j \in Keys : j # k => [due EXCEPT ![k] = r][j] = due[j]
  BY <1>3, <1>5 DEF Contents
<1> QED BY <1>2, <1>3, <1>4, <1>6, <1>7, WriteIsSound

(* Remembering an environment, or taking the first baseline.                 *)
LEMMA ProfilesKept ==
    ASSUME TypeOK, StoreInv, NEW h \in Handles, UseProfile(h)
    PROVE  TypeOK' /\ StoreInv'
<1>1. PICK n \in Nodes, p \in Profiles : Remember(h, n, p) \/ DriftQuery(h, n, p)
  BY DEF UseProfile
<1> DEFINE k == Profile(n)
           put == [due EXCEPT ![k] = p]
<1>2. k \in Keys /\ p \in Values
  BY KeysAreKeys DEF Values
<1>3. mirror[h] \in Contents /\ due \in Contents
  BY DEF TypeOK
<1>4. [mirror[h] EXCEPT ![k] = p] \in Contents /\ put \in Contents
  BY <1>3, PutKeepsContents
<1>5. put[k] = p /\ \A j \in Keys : j # k => put[j] = due[j]
  BY <1>2, <1>3 DEF Contents
<1>6. CASE Write(h, k, p, put)
  BY <1>2, <1>4, <1>5, <1>6, WriteIsSound
<1>7. CASE due[k] # None /\ mirror[h][k] = None /\ Write(h, k, p, due)
  BY <1>2, <1>3, <1>4, <1>7, WriteIsSound
<1> QED BY <1>1, <1>6, <1>7 DEF Remember, DriftQuery

(* Starting, appending to and committing a session.                          *)
LEMMA SessionsKept ==
    ASSUME TypeOK, StoreInv, NEW h \in Handles, UseSession(h)
    PROVE  TypeOK' /\ StoreInv'
<1>1. PICK i \in Sessions :
          \/ SessionStart(h, i)
          \/ \E step \in Steps : SessionAppend(h, i, step)
          \/ SessionCommit(h, i)
  BY DEF UseSession
<1>k. PICK k \in Keys : k = Session(i)
  BY KeysAreKeys
<1>2. Record \cup {None} \subseteq Values
  BY DEF Values
<1>3. mirror[h] \in Contents /\ due \in Contents
  BY DEF TypeOK
<1>4. mirror[h][k] \in Record \cup {None} /\ due[k] \in Record \cup {None}
  BY <1>k, <1>3 DEF Contents
<1>5. ASSUME NEW v \in Record \cup {None}, NEW w \in Record \cup {None},
             mirror[h][k] = due[k] => v = w, Write(h, k, v, [due EXCEPT ![k] = w])
      PROVE  TypeOK' /\ StoreInv'
  <2>1. [mirror[h] EXCEPT ![k] = v] \in Contents /\ [due EXCEPT ![k] = w] \in Contents
    BY <1>k, <1>3, PutKeepsContents
  <2>2. [due EXCEPT ![k] = w][k] = w
        /\ \A j \in Keys : j # k => [due EXCEPT ![k] = w][j] = due[j]
    BY <1>3 DEF Contents
  <2>3. v \in Values
    BY <1>2
  <2>4. PICK want \in Contents : want = [due EXCEPT ![k] = w]
    BY <2>1
  <2>5. /\ Write(h, k, v, want) /\ [mirror[h] EXCEPT ![k] = v] \in Contents
        /\ \A j \in Keys : j # k => want[j] = due[j]
        /\ mirror[h][k] = due[k] => v = want[k]
    BY <1>5, <2>1, <2>2, <2>4
  <2> QED BY <2>3, <2>5, WriteIsSound
<1>6. CASE SessionStart(h, i)
  <2>1. Write(h, k, Started(mirror[h][k]), [due EXCEPT ![k] = Started(due[k])])
    BY <1>k, <1>6 DEF SessionStart
  <2>2. Started(mirror[h][k]) \in Record /\ Started(due[k]) \in Record
    BY <1>4, SessionValues
  <2> QED BY <1>5, <2>1, <2>2
<1>7. ASSUME NEW step \in Steps, SessionAppend(h, i, step) PROVE TypeOK' /\ StoreInv'
  <2>1. Write(h, k, Appended(mirror[h][k], step), [due EXCEPT ![k] = Appended(due[k], step)])
    BY <1>k, <1>7 DEF SessionAppend
  <2>2. Appended(mirror[h][k], step) \in Record /\ Appended(due[k], step) \in Record
    BY <1>4, SessionValues
  <2> QED BY <1>5, <2>1, <2>2
<1>8. CASE SessionCommit(h, i)
  <2> DEFINE w == IF due[k] = None THEN None ELSE Committed(due[k])
  <2>1. mirror[h][k] # None /\ Write(h, k, Committed(mirror[h][k]), [due EXCEPT ![k] = w])
    BY <1>k, <1>8 DEF SessionCommit
  <2>2. Committed(mirror[h][k]) \in Record /\ w \in Record \cup {None}
    BY <1>4, <2>1, SessionValues
  <2>3. mirror[h][k] = due[k] => Committed(mirror[h][k]) = w
    BY <2>1
  <2> HIDE DEF w
  <2> QED BY <1>5, <2>1, <2>2, <2>3
<1> QED BY <1>1, <1>6, <1>7, <1>8

-----------------------------------------------------------------------------
(* The theorems *)

(* A handle that opens mirrors what is saved, or misses everything.          *)
LEMMA OpenKeeps ==
    ASSUME TypeOK, StoreInv, NEW h \in Handles, Open(h)
    PROVE  TypeOK' /\ StoreInv'
<1>0. Empty \in Contents
  BY KeysAreKeys DEF Empty, Contents, Values
<1>1. /\ at[h] = "closed" /\ UNCHANGED <<file, whole, writes, due, dirty>>
      /\ \E m \in {file, Empty} : mirror' = [mirror EXCEPT ![h] = m]
      /\ \E S \in SUBSET Keys : missed' = [missed EXCEPT ![h] = S]
      /\ \E there \in {"open", "create"} : at' = [at EXCEPT ![h] = there]
  BY DEF Open, Goto
<1>2. TypeOK'
  BY <1>0, <1>1 DEF TypeOK
<1>3. \A k \in Keys : Saved(k)'
  BY <1>1 DEF StoreInv, Saved, Pending
<1>4. Tidy'
  BY <1>1 DEF StoreInv, Tidy, TypeOK
<1>5. ASSUME NEW g \in Handles, NEW j \in Keys, at'[g] # "closed" PROVE CurrentAt(g, j)'
  <2>1. CASE g # h
    <3>1. /\ at[g] # "closed" /\ missed'[g] = missed[g] /\ mirror'[g] = mirror[g]
      BY <1>1, <1>5, <2>1 DEF TypeOK
    <3>2. CurrentAt(g, j)
      BY <3>1, CurrentAtAll DEF StoreInv
    <3> QED BY <1>1, <3>1, <3>2 DEF CurrentAt
  <2>2. CASE g = h /\ mirror' = [mirror EXCEPT ![h] = file]
             /\ missed' = [missed EXCEPT ![h] = {k \in Keys : Pending(k)}]
    <3>1. mirror'[g] = file /\ (j \in missed'[g] <=> Pending(j))
      BY <2>2 DEF TypeOK
    <3>2. Saved(j)
      BY DEF StoreInv
    <3> QED BY <1>1, <3>1, <3>2 DEF CurrentAt, Saved, Pending
  <2>3. CASE g = h /\ missed' = [missed EXCEPT ![h] = Keys]
    BY <2>3 DEF CurrentAt, TypeOK
  <2> QED BY <2>1, <2>2, <2>3 DEF Open
<1>6. MirrorCurrent'
  BY <1>5 DEF MirrorCurrent, CurrentAt
<1> QED BY <1>2, <1>3, <1>4, <1>6 DEF StoreInv

(* A mirror that replaces the file saves what is due of every key it knows,  *)
(* and what it undoes is due no more.                                        *)
LEMMA ReplaceKeeps ==
    ASSUME TypeOK, StoreInv, NEW h \in Handles, Replace(h)
    PROVE  TypeOK' /\ StoreInv'
<1>1. /\ at[h] \in {"flush", "create"}
      /\ file' = mirror[h] /\ whole' \in BOOLEAN
      /\ due' = [k \in Keys |-> IF k \in Undone(h) THEN mirror[h][k] ELSE due[k]]
      /\ missed' = [g \in Handles |->
            IF at[g] = "closed" THEN missed[g]
            ELSE IF g = h THEN missed[h] \ Undone(h) ELSE missed[g] \cup Undone(h)]
      /\ dirty' = [dirty EXCEPT ![h] = {}]
      /\ UNCHANGED <<mirror, writes>>
      /\ at' = [at EXCEPT ![h] = "open"] \/ (at[h] = "create" /\ at' = at)
  BY DEF Replace, Goto
<1>a. at' \in [Handles -> {"closed", "create", "open", "flush"}]
      /\ \A g \in Handles : at'[g] = "closed" <=> at[g] = "closed"
  BY <1>1 DEF TypeOK
<1>b. Undone(h) \subseteq missed[h] /\ missed[h] \subseteq Keys
  BY DEF Undone, TypeOK
<1>c. mirror[h] \in Contents /\ due \in Contents
  BY DEF TypeOK
<1>d. /\ \A k \in Keys : k \in Undone(h) => due'[k] = mirror[h][k]
      /\ \A k \in Keys : k \notin Undone(h) => due'[k] = due[k]
  BY <1>1
<1>2. TypeOK'
  <2>1. file' \in Contents
    BY <1>1, <1>c
  <2>2. due' \in Contents
    <3>1. due' \in [Keys -> Values]
      BY <1>1, <1>c DEF Contents
    <3>2. \A i \in Sessions : due'[Session(i)] \in Record \cup {None}
      BY <1>c, <1>d, KeysAreKeys DEF Contents
    <3> QED BY <3>1, <3>2 DEF Contents
  <2>3. missed' \in [Handles -> SUBSET Keys] /\ dirty' \in [Handles -> SUBSET Keys]
    BY <1>1, <1>b DEF TypeOK
  <2> QED BY <1>1, <1>a, <2>1, <2>2, <2>3 DEF TypeOK
<1>3. ASSUME NEW k \in Keys, ~ Pending(k)' PROVE file'[k] = due'[k]
  <2>1. \A g \in Handles \ {h} : k \notin dirty[g]
    BY <1>1, <1>3 DEF Pending, TypeOK
  <2>2. CASE k \in Undone(h)
    BY <1>1, <1>d, <2>2
  <2>3. CASE k \notin Undone(h)
    <3>1. k \notin missed[h]
      BY <2>1, <2>3 DEF Undone
    <3>2. mirror[h][k] = due[k]
      BY <1>1, <3>1 DEF StoreInv, MirrorCurrent
    <3> QED BY <1>1, <1>d, <2>3, <3>2
  <2> QED BY <2>2, <2>3
<1>4. Tidy'
  BY <1>1, <1>a DEF StoreInv, Tidy, TypeOK
<1>5. ASSUME NEW g \in Handles, NEW j \in Keys, at'[g] # "closed" PROVE CurrentAt(g, j)'
  <2>1. at[g] # "closed" /\ CurrentAt(g, j)
    BY <1>a, <1>5, CurrentAtAll DEF StoreInv
  <2>2. \A x \in Handles : dirty'[x] \subseteq dirty[x]
    BY <1>1 DEF TypeOK
  <2>3. CASE g = h
    <3>1. missed'[g] = missed[g] \ Undone(h) /\ mirror' = mirror
      BY <1>1, <2>1, <2>3
    <3>2. j \in Undone(h) => \A x \in Handles \ {g} : j \notin dirty'[x]
      BY <2>2, <2>3 DEF Undone
    <3>3. CASE j \in Undone(h)
      BY <1>d, <2>3, <3>1, <3>2, <3>3 DEF CurrentAt
    <3>4. CASE j \notin Undone(h)
      BY <1>d, <2>1, <2>2, <2>3, <3>1, <3>4 DEF CurrentAt
    <3> QED BY <3>3, <3>4
  <2>4. CASE g # h
    <3>1. missed'[g] = missed[g] \cup Undone(h) /\ mirror' = mirror
      BY <1>1, <2>1, <2>4
    <3>2. CASE j \in Undone(h)
      BY <3>1, <3>2 DEF CurrentAt
    <3>3. CASE j \notin Undone(h)
      BY <1>d, <2>1, <2>2, <3>1, <3>3 DEF CurrentAt
    <3> QED BY <3>2, <3>3
  <2> QED BY <2>3, <2>4
<1>6. MirrorCurrent'
  BY <1>5 DEF MirrorCurrent, CurrentAt
<1> QED BY <1>2, <1>3, <1>4, <1>6 DEF StoreInv, Saved

(* A flush that fails changes nothing the invariants speak of.               *)
LEMMA FailKeeps ==
    ASSUME TypeOK, StoreInv, NEW h \in Handles, FlushFails(h)
    PROVE  TypeOK' /\ StoreInv'
<1> USE DEF FlushFails, Goto
<1>1. TypeOK'
  BY DEF TypeOK
<1>2. \A g \in Handles : at'[g] = "closed" <=> at[g] = "closed"
  BY DEF TypeOK
<1>3. MirrorCurrent' /\ Tidy'
  BY <1>2 DEF StoreInv, MirrorCurrent, Tidy
<1>4. \A k \in Keys : Saved(k)'
  BY DEF StoreInv, Saved, Pending
<1> QED BY <1>1, <1>3, <1>4 DEF StoreInv

(* A handle that goes takes what it had not saved with it.                   *)
LEMMA CloseKeeps ==
    ASSUME TypeOK, StoreInv, NEW h \in Handles, Close(h)
    PROVE  TypeOK' /\ StoreInv'
<1>0. Empty \in Contents
  BY KeysAreKeys DEF Empty, Contents, Values
<1>1. /\ at' = [at EXCEPT ![h] = "closed"] /\ mirror' = [mirror EXCEPT ![h] = Empty]
      /\ due' = [k \in Keys |-> IF k \in dirty[h] THEN file[k] ELSE due[k]]
      /\ dirty' = [dirty EXCEPT ![h] = {}] /\ missed' = [missed EXCEPT ![h] = {}]
      /\ UNCHANGED <<file, whole, writes>> /\ at[h] # "closed"
  BY DEF Close, Goto
<1>2. /\ \A k \in Keys : k \in dirty[h] => due'[k] = file[k]
      /\ \A k \in Keys : k \notin dirty[h] => due'[k] = due[k]
  BY <1>1
<1>3. TypeOK'
  <2>1. due' \in Contents
    <3>1. file \in Contents /\ due \in Contents
      BY DEF TypeOK
    <3>2. due' \in [Keys -> Values]
      BY <1>1, <3>1 DEF Contents
    <3>3. \A i \in Sessions : due'[Session(i)] \in Record \cup {None}
      BY <1>2, <3>1, KeysAreKeys DEF Contents
    <3> QED BY <3>2, <3>3 DEF Contents
  <2> QED BY <1>0, <1>1, <2>1 DEF TypeOK
<1>4. /\ \A g \in Handles \ {h} : /\ at'[g] = at[g] /\ dirty'[g] = dirty[g]
                                  /\ missed'[g] = missed[g] /\ mirror'[g] = mirror[g]
      /\ at'[h] = "closed" /\ dirty'[h] = {}
  BY <1>1 DEF TypeOK
<1>5. Tidy'
  BY <1>4 DEF StoreInv, Tidy
<1>6. ASSUME NEW k \in Keys, ~ Pending(k)' PROVE file'[k] = due'[k]
  <2>1. CASE k \in dirty[h]
    BY <1>1, <1>2, <2>1
  <2>2. CASE k \notin dirty[h]
    <3>1. ~ Pending(k) /\ Saved(k)
      BY <1>4, <1>6, <2>2 DEF Pending, StoreInv
    <3> QED BY <1>1, <1>2, <2>2, <3>1 DEF Saved
  <2> QED BY <2>1, <2>2
<1>7. ASSUME NEW g \in Handles, NEW j \in Keys, at'[g] # "closed" PROVE CurrentAt(g, j)'
  <2>1. g # h /\ at[g] # "closed"
    BY <1>4, <1>7
  <2>2. CurrentAt(g, j)
    BY <2>1, CurrentAtAll DEF StoreInv
  <2>3. CASE j \in dirty[h]
    <3>1. j \in missed[g]
      BY <2>1, <2>2, <2>3 DEF CurrentAt
    <3> QED BY <1>4, <2>1, <3>1 DEF CurrentAt
  <2>4. CASE j \notin dirty[h]
    <3>1. \A x \in Handles : j \in dirty'[x] => j \in dirty[x]
      BY <1>4
    <3> QED BY <1>2, <1>4, <2>1, <2>2, <2>4, <3>1 DEF CurrentAt
  <2> QED BY <2>3, <2>4
<1>8. MirrorCurrent'
  BY <1>7 DEF MirrorCurrent, CurrentAt
<1> QED BY <1>3, <1>5, <1>6, <1>8 DEF StoreInv, Saved

(* The initial state is well typed and has nothing to lose.                  *)
LEMMA InitKeeps == Init => TypeOK /\ StoreInv
<1> SUFFICES ASSUME Init PROVE TypeOK /\ StoreInv
  OBVIOUS
<1> USE DEF Init
<1>1. Empty \in Contents
  BY KeysAreKeys DEF Empty, Contents, Values
<1>2. TypeOK
  <2>1. mirror \in [Handles -> Contents] /\ file \in Contents /\ due \in Contents
    BY <1>1
  <2>2. writes \in 0..MaxWrites
    BY StoreAssumption
  <2> QED BY <2>1, <2>2 DEF TypeOK
<1>3. StoreInv
  BY DEF StoreInv, MirrorCurrent, Tidy, Saved
<1> QED BY <1>2, <1>3

(* Every step of every handle keeps both invariants.                         *)
LEMMA NextKeeps == TypeOK /\ StoreInv /\ [Next]_vars => TypeOK' /\ StoreInv'
<1> SUFFICES ASSUME TypeOK, StoreInv, [Next]_vars PROVE TypeOK' /\ StoreInv'
  OBVIOUS
<1>1. CASE UNCHANGED vars
  <2> USE <1>1 DEF vars
  <2>1. TypeOK' BY DEF TypeOK
  <2>2. StoreInv' BY DEF StoreInv, MirrorCurrent, Tidy, Saved, Pending
  <2> QED BY <2>1, <2>2
<1>2. ASSUME NEW h \in Handles,
             \/ Open(h) \/ Replace(h) \/ FlushFails(h) \/ Close(h)
             \/ UseFlow(h) \/ UseProfile(h) \/ UseSession(h)
      PROVE  TypeOK' /\ StoreInv'
  BY <1>2, OpenKeeps, ReplaceKeeps, FailKeeps, CloseKeeps, FlowsKept, ProfilesKept, SessionsKept
<1> QED BY <1>1, <1>2 DEF Next

(* The store's state is always well typed: a session key holds a session.    *)
THEOREM StoreTypeCorrect == Spec => []TypeOK
<1>1. Init => TypeOK /\ StoreInv BY InitKeeps
<1>2. (TypeOK /\ StoreInv) /\ [Next]_vars => (TypeOK /\ StoreInv)' BY NextKeeps
<1> QED BY <1>1, <1>2, PTL DEF Spec

(* However handles overlap, fail and die, once it is flushed the last        *)
(* successful run or environment is in the file, until a handle that read    *)
(* the file before it, or could not read it, replaces the file.              *)
THEOREM KnownGoodIsKept == Spec => []KnownGoodSurvives
<1>1. Init => TypeOK /\ StoreInv BY InitKeeps
<1>2. (TypeOK /\ StoreInv) /\ [Next]_vars => (TypeOK /\ StoreInv)' BY NextKeeps
<1>3. StoreInv => KnownGoodSurvives
  BY DEF StoreInv, KnownGoodSurvives, Keys
<1> QED BY <1>1, <1>2, <1>3, PTL DEF Spec

(* The same for the steps and the commit of every recorded session.          *)
THEOREM SessionsAreKept == Spec => []SessionsSurvive
<1>1. Init => TypeOK /\ StoreInv BY InitKeeps
<1>2. (TypeOK /\ StoreInv) /\ [Next]_vars => (TypeOK /\ StoreInv)' BY NextKeeps
<1>3. StoreInv => SessionsSurvive
  BY DEF StoreInv, SessionsSurvive, Keys
<1> QED BY <1>1, <1>2, <1>3, PTL DEF Spec
=============================================================================
