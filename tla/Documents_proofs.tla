--------------------------- MODULE Documents_proofs ---------------------------
(***************************************************************************)
(* Proofs about the documents of the host: what an ok report, a raised     *)
(* sync and a replaced file mean (DocumentSync), and that the archive they *)
(* are copied from has one record per paper, with its files and fields     *)
(* (DocumentArchive), for any PDFs, syncs, frames, series and requests.    *)
(*                                                                         *)
(* The two share no variable; every theorem is about one of them.          *)
(***************************************************************************)
EXTENDS DocumentSync, DocumentArchive, WellFoundedInduction, TLAPS

-----------------------------------------------------------------------------
(* The sync: its inductive invariant. *)

(* The cursor of a sync is at a file of the loop it is in, or past the last. *)
CursorInLoop ==
    \A s \in Syncs :
        /\ pc[s] \in {"upload", "uploading"} => next[s] \in listed[s] \cup {NFiles + 1}
        /\ pc[s] = "uploading" => next[s] \in listed[s]
        /\ pc[s] = "verify" => next[s] \in AckedFiles(s) \cup {NFiles + 1}

(* What is verified was acknowledged and is still there, or was replaced;    *)
(* nothing is verified before all is uploaded.                               *)
VerifiedIsThere ==
    \A s \in Syncs :
        /\ pc[s] \in {"upload", "uploading"} => verified[s] = {}
        /\ pc[s] = "ok" => verified[s] = listed[s]
        /\ \A f \in verified[s] :
            /\ acked[s][f] \in Paths
            /\ node[acked[s][f]] = read[s][f] \/ acked[s][f] \in replaced[s]

(* The uploads of a try are those of the files up to the cursor; the one at  *)
(* it carries the bytes that were read.  Nothing is acknowledged ahead.      *)
InOrder(u) ==
    /\ u.try <= tries[u.sync]
    /\ pc[u.sync] = "start" => u.try < tries[u.sync]
    /\ (u.try = tries[u.sync] /\ pc[u.sync] \in {"upload", "uploading"}) =>
        \/ u.file < next[u.sync]
        \/ /\ pc[u.sync] = "uploading" /\ u.file = next[u.sync]
           /\ u.version = read[u.sync][u.file]

AckedBehind(s) ==
    pc[s] \in {"upload", "uploading"} => \A f \in Files : f >= next[s] => acked[s][f] = NoPath

TriesInOrder == (\A u \in uploads : InOrder(u)) /\ \A s \in Syncs : AckedBehind(s)

(* A sync without trouble has every file so far acknowledged, on the node    *)
(* with the bytes it read, and, once it reads back, verified.                *)
Right(s) ==
    /\ pc[s] # "failed"
    /\ pc[s] \in {"upload", "uploading"} =>
        \A f \in listed[s] : f < next[s] => acked[s][f] # NoPath
    /\ pc[s] \in {"upload", "uploading", "verify"} =>
        \A f \in AckedFiles(s) : node[acked[s][f]] = read[s][f]
    /\ pc[s] = "uploading" =>
        \A u \in Awaited(s) : u.at = "written" => node[u.path] = u.version
    /\ pc[s] = "verify" =>
        /\ AckedFiles(s) = listed[s]
        /\ \A f \in listed[s] : f < next[s] => f \in verified[s]
        /\ verified[s] \subseteq listed[s]

UntroubledIsRight == \A s \in Syncs \ troubled : Right(s)

(* A name that was chosen because it was free is free until it is beaten.    *)
NamedIsFree ==
    \A u \in uploads : (u.at = "named" /\ u.sync \notin Overwrites) => Free(u.path)

Inv ==
    /\ TypeOK /\ CursorInLoop /\ VerifiedIsThere /\ NamedIsFree
    /\ TriesInOrder /\ UntroubledIsRight

-----------------------------------------------------------------------------
(* The loops over the files. *)

(* The next file of a set is one of the set, if there is one.                *)
LEMMA FollowingIsInLoop ==
    \A f \in Nat, S \in SUBSET Files : Following(f, S) \in S \cup {NFiles + 1}
<1> TAKE f \in Nat, S \in SUBSET Files
<1> DEFINE Rest == {g \in S : g >= f}
<1>1. CASE Rest = {}
  BY <1>1 DEF Following
<1>2. CASE Rest # {}
  <2>0. S \subseteq Files /\ Files \subseteq Nat
    BY SyncAssumption DEF Files
  <2>1. Rest \subseteq Nat
    BY <2>0
  <2>2. PICK g \in Rest : \A k \in Rest : ~ (<<k, g>> \in OpToRel(<, Nat))
    <3> HIDE DEF Rest
    <3> QED BY <1>2, <2>1, NatLessThanWellFounded, WFMin
  <2>3. \A k \in Rest : g <= k
    <3> SUFFICES ASSUME NEW k \in Rest, k < g PROVE FALSE
      BY <2>1
    <3>1. <<k, g>> \in Nat \X Nat /\ <<k, g>>[1] < <<k, g>>[2]
      BY <2>1
    <3> QED BY <3>1, <2>2 DEF OpToRel
  <2>4. g >= f /\ \A k \in S : k >= f => g <= k
    BY <2>3
  <2>5. g \in S
    OBVIOUS
  <2> QED BY <2>4, <2>5 DEF Following
<1> QED BY <1>1, <1>2

-----------------------------------------------------------------------------
(* Types *)

(* What the sync forgets keeps its type.                                     *)
LEMMA ForgetTypes ==
    ASSUME TypeOK, NEW s \in Syncs, NEW found \in SUBSET Files, Forget(s, found)
    PROVE  /\ listed' \in [Syncs -> SUBSET Files] /\ verified' \in [Syncs -> SUBSET Files]
           /\ next' \in [Syncs -> 1..(NFiles + 1)] /\ replaced' \in [Syncs -> SUBSET Paths]
           /\ read' \in [Syncs -> [Files -> 0..NoFile]]
           /\ acked' \in [Syncs -> [Files -> Paths \cup {NoPath}]]
<1>1. Following(1, found) \in 1..(NFiles + 1)
  <2>1. Following(1, found) \in found \cup {NFiles + 1}
    BY FollowingIsInLoop
  <2>2. found \subseteq Files /\ NFiles \in Nat
    BY SyncAssumption
  <2>3. \A x \in Files : x \in 1..(NFiles + 1)
    BY SyncAssumption DEF Files
  <2>4. NFiles + 1 \in 1..(NFiles + 1)
    BY SyncAssumption
  <2> QED BY <2>1, <2>2, <2>3, <2>4
<1>2. NoFile \in 0..NoFile
  BY SyncAssumption DEF NoFile
<1>3. [f \in Files |-> NoFile] \in [Files -> 0..NoFile]
  BY <1>2
<1>4. [f \in Files |-> NoPath] \in [Files -> Paths \cup {NoPath}]
  OBVIOUS
<1>5. next' \in [Syncs -> 1..(NFiles + 1)]
  BY <1>1 DEF TypeOK, Forget
<1>6. read' \in [Syncs -> [Files -> 0..NoFile]]
  BY <1>3 DEF TypeOK, Forget
<1>7. acked' \in [Syncs -> [Files -> Paths \cup {NoPath}]]
  BY <1>4 DEF TypeOK, Forget
<1>8. /\ listed' \in [Syncs -> SUBSET Files] /\ verified' \in [Syncs -> SUBSET Files]
      /\ replaced' \in [Syncs -> SUBSET Paths]
  BY DEF TypeOK, Forget
<1> QED BY <1>5, <1>6, <1>7, <1>8

(* The cursor of a sync that goes on is a number of the loop.                *)
LEMMA CursorType ==
    ASSUME TypeOK, NEW s \in Syncs, NEW S \in SUBSET Files, NEW f \in Nat
    PROVE  [next EXCEPT ![s] = Following(f, S)] \in [Syncs -> 1..(NFiles + 1)]
<1>1. Following(f, S) \in 1..(NFiles + 1)
  <2>1. Following(f, S) \in S \cup {NFiles + 1}
    BY FollowingIsInLoop
  <2>2. S \subseteq Files /\ NFiles \in Nat
    BY SyncAssumption
  <2>3. \A x \in Files : x \in 1..(NFiles + 1)
    BY SyncAssumption DEF Files
  <2>4. NFiles + 1 \in 1..(NFiles + 1)
    BY SyncAssumption
  <2> QED BY <2>1, <2>2, <2>3, <2>4
<1> QED BY <1>1 DEF TypeOK

(* The PDF was read and is uploaded, or it could not be read.                *)
Asked(s) ==
    /\ pc[s] = "upload" /\ next[s] \in Files /\ Goto(s, "uploading")
    /\ uploads' = uploads \cup {Upload(s, next[s])}
    /\ read' = [read EXCEPT ![s][next[s]] = archive[next[s]]]
    /\ UNCHANGED <<listed, next, acked, verified, replaced, archive, node, tries, troubled>>

Unread(s) ==
    /\ pc[s] = "upload" /\ next[s] \in Files /\ Goto(s, "raised") /\ Forget(s, {})
    /\ UNCHANGED <<uploads, archive, node, tries, troubled>>

LEMMA AskSplits == \A s \in Syncs : Ask(s) => Asked(s) \/ Unread(s)
BY DEF Ask, Asked, Unread

(* Every variable keeps its type.                                            *)
LEMMA TypeStep == TypeOK /\ [Next]_vars => TypeOK'
<1> SUFFICES ASSUME TypeOK, [Next]_vars PROVE TypeOK'
  OBVIOUS
<1>0. \A s \in Syncs : next[s] \in Nat /\ next[s] + 1 \in Nat /\ AckedFiles(s) \in SUBSET Files
  BY SyncAssumption DEF TypeOK, AckedFiles
<1>1. ASSUME NEW s \in Syncs, List(s) PROVE TypeOK'
  <2> DEFINE found == {f \in Files : archive[f] # NoFile}
  <2>1. PICK S \in SUBSET Files : Forget(s, S)
    <3>1. found \in SUBSET Files /\ {} \in SUBSET Files
      OBVIOUS
    <3> QED BY <1>1, <3>1 DEF List
  <2>2. troubled' \subseteq Syncs
    BY <1>1 DEF List, TypeOK
  <2>3. pc' \in [Syncs -> {"start", "upload", "uploading", "verify", "ok", "failed", "raised"}]
    BY <1>1 DEF List, TypeOK, Goto, EndAs
  <2> QED BY <1>1, <2>1, <2>2, <2>3, ForgetTypes DEF List, TypeOK
<1>2. ASSUME NEW s \in Syncs, Ask(s) PROVE TypeOK'
  <2>1. CASE Asked(s)
    <3>1. archive[next[s]] \in 0..NoFile
      BY <1>2 DEF Ask, TypeOK
    <3>2. Upload(s, next[s]) \in Requests /\ Upload(s, next[s]).at = "asked"
      BY <1>2, <3>1 DEF Ask, TypeOK, Upload, Requests
    <3>3. read' \in [Syncs -> [Files -> 0..NoFile]]
      <4>1. read' = [read EXCEPT ![s][next[s]] = archive[next[s]]]
        BY <2>1 DEF Asked
      <4> QED BY <3>1, <4>1 DEF TypeOK
    <3> QED BY <1>2, <2>1, <3>2, <3>3 DEF Asked, TypeOK, Goto
  <2>2. CASE Unread(s)
    <3>1. Forget(s, {}) /\ {} \in SUBSET Files
      BY <2>2 DEF Unread
    <3>2. pc' \in [Syncs -> {"start", "upload", "uploading", "verify", "ok", "failed", "raised"}]
      BY <2>2 DEF Unread, TypeOK, Goto
    <3> QED BY <2>2, <3>1, <3>2, ForgetTypes DEF Unread, TypeOK
  <2> QED BY <1>2, <2>1, <2>2, AskSplits
<1>3. ASSUME NEW s \in Syncs, Acknowledged(s) PROVE TypeOK'
  <2>1. PICK u \in Awaited(s) :
          /\ u.at = "written"
          /\ acked' = [acked EXCEPT ![s][next[s]] = u.path]
          /\ uploads' = uploads \ {u}
    BY <1>3 DEF Acknowledged
  <2>2. u \in uploads /\ u.path \in Paths
    BY <2>1 DEF Awaited, TypeOK
  <2>3. acked' \in [Syncs -> [Files -> Paths \cup {NoPath}]]
    BY <2>1, <2>2 DEF TypeOK
  <2>4. next' \in [Syncs -> 1..(NFiles + 1)]
    BY <1>0, <1>3, CursorType DEF Acknowledged, TypeOK
  <2> QED BY <1>3, <2>1, <2>3, <2>4 DEF Acknowledged, TypeOK, Goto
<1>4. ASSUME NEW s \in Syncs, Unanswered(s) PROVE TypeOK'
  <2>1. uploads' \subseteq uploads
    BY <1>4 DEF Unanswered
  <2>2. next' \in [Syncs -> 1..(NFiles + 1)]
    BY <1>0, <1>4, CursorType DEF Unanswered, TypeOK
  <2> QED BY <1>4, <2>1, <2>2 DEF Unanswered, TypeOK, Goto
<1>5. ASSUME NEW s \in Syncs, Uploaded(s) PROVE TypeOK'
  <2>1. next' \in [Syncs -> 1..(NFiles + 1)]
    BY <1>0, <1>5, CursorType DEF Uploaded
  <2> QED BY <1>5, <2>1 DEF Uploaded, TypeOK, Goto
<1>6. ASSUME NEW s \in Syncs, ReadBack(s) PROVE TypeOK'
  <2>1. next' \in [Syncs -> 1..(NFiles + 1)]
    BY <1>0, <1>6, CursorType DEF ReadBack
  <2>2. verified' \in [Syncs -> SUBSET Files] /\ troubled' \subseteq Syncs
    BY <1>6 DEF ReadBack, TypeOK
  <2> QED BY <1>6, <2>1, <2>2 DEF ReadBack, TypeOK
<1>7. ASSUME NEW s \in Syncs, Report(s) PROVE TypeOK'
  <2>0. pc' \in [Syncs -> {"start", "upload", "uploading", "verify", "ok", "failed", "raised"}]
    BY <1>7 DEF Report, TypeOK, Goto, EndAs
  <2>1. CASE UNCHANGED <<listed, next, read, acked, verified, replaced>>
    BY <1>7, <2>0, <2>1 DEF Report, TypeOK
  <2>2. CASE Forget(s, {})
    <3>1. {} \in SUBSET Files
      OBVIOUS
    <3> QED BY <1>7, <2>0, <2>2, <3>1, ForgetTypes DEF Report, TypeOK
  <2> QED BY <1>7, <2>1, <2>2 DEF Report
<1>8. ASSUME NEW s \in Syncs, Retry(s) PROVE TypeOK'
  BY <1>8 DEF Retry, TypeOK, Goto
<1>9. ASSUME NEW u \in uploads, Name(u) PROVE TypeOK'
  <2>1. PICK n \in 0..MaxCopies :
          uploads' = (uploads \ {u}) \cup {[u EXCEPT !.at = "named", !.path = <<u.file, n>>]}
    BY <1>9 DEF Name
  <2>2. u \in Requests
    BY DEF TypeOK
  <2>3. <<u.file, n>> \in Paths
    BY <2>2 DEF Requests, Paths
  <2>4. [u EXCEPT !.at = "named", !.path = <<u.file, n>>] \in Requests
    BY <2>2, <2>3 DEF Requests
  <2>5. [u EXCEPT !.at = "named", !.path = <<u.file, n>>].path \in Paths
    BY <2>2, <2>3 DEF Requests
  <2> QED BY <1>9, <2>1, <2>4, <2>5 DEF Name, TypeOK, syncVars
<1>10. ASSUME NEW u \in uploads, Write(u) PROVE TypeOK'
  <2>1. u \in Requests /\ u.path \in Paths
    BY <1>10 DEF TypeOK, Write
  <2>2. node' \in [Paths -> 0..NoFile]
    BY <1>10, <2>1 DEF Write, TypeOK, Requests
  <2>3. replaced' \in [Syncs -> SUBSET Paths]
    BY <1>10, <2>1 DEF Write, TypeOK
  <2>4. ASSUME NEW v \in uploads, NEW x \in {"beaten", "written"}, v.path \in Paths
        PROVE  [v EXCEPT !.at = x] \in Requests /\ [v EXCEPT !.at = x].path \in Paths
    BY <2>4 DEF TypeOK, Requests
  <2>5. \A v \in uploads : Beaten(v, u) => v.path \in Paths
    BY DEF Beaten, TypeOK
  <2>6. \A w \in uploads' : w \in Requests /\ (w.at # "asked" => w.path \in Paths)
    <3> TAKE w \in uploads'
    <3>1. \/ w \in uploads
          \/ \E v \in uploads : Beaten(v, u) /\ w = [v EXCEPT !.at = "beaten"]
          \/ w = [u EXCEPT !.at = "written"]
      BY <1>10 DEF Write
    <3>2. CASE w \in uploads
      BY <3>2 DEF TypeOK
    <3>3. CASE \E v \in uploads : Beaten(v, u) /\ w = [v EXCEPT !.at = "beaten"]
      BY <3>3, <2>4, <2>5
    <3>4. CASE w = [u EXCEPT !.at = "written"]
      BY <3>4, <2>1, <2>4
    <3> QED BY <3>1, <3>2, <3>3, <3>4
  <2>7. troubled' \subseteq Syncs
    BY <1>10 DEF Write, TypeOK
  <2> QED BY <1>10, <2>2, <2>3, <2>6, <2>7 DEF Write, TypeOK, syncVars
<1>11. ASSUME NEW f \in Files, Supersede(f) PROVE TypeOK'
  <2>1. archive' \in [Files -> 0..NoFile]
    BY <1>11, SyncAssumption DEF Supersede, TypeOK, NoFile
  <2> QED BY <1>11, <2>1 DEF Supersede, TypeOK, syncVars
<1>12. CASE UNCHANGED vars
  BY <1>12 DEF vars, syncVars, TypeOK
<1>13. Changing \subseteq Files
  BY SyncAssumption DEF Files
<1> QED BY <1>1, <1>2, <1>3, <1>4, <1>5, <1>6, <1>7, <1>8, <1>9, <1>10, <1>11, <1>12, <1>13
        DEF Next, SyncStep

-----------------------------------------------------------------------------
(* The step *)

(* What each action does to the cursor, the acknowledgements and the         *)
(* verified files of the syncs, one invariant part at a time.                *)
LEMMA CursorStep == TypeOK /\ TypeOK' /\ CursorInLoop /\ [Next]_vars => CursorInLoop'
<1> SUFFICES ASSUME TypeOK, TypeOK', CursorInLoop, [Next]_vars PROVE CursorInLoop'
  OBVIOUS
<1>0. \A s \in Syncs : next[s] \in Nat /\ next[s] + 1 \in Nat /\ listed[s] \in SUBSET Files
                       /\ AckedFiles(s) \in SUBSET Files
  BY SyncAssumption DEF TypeOK, AckedFiles
<1>1. NFiles + 1 \notin Files
  BY SyncAssumption DEF Files
<1>2. ASSUME NEW s \in Syncs, List(s) PROVE CursorInLoop'
  <2>1. ASSUME NEW S \in SUBSET Files, Forget(s, S)
        PROVE  next'[s] \in listed'[s] \cup {NFiles + 1}
    <3>1. Following(1, S) \in S \cup {NFiles + 1}
      BY FollowingIsInLoop
    <3> QED BY <2>1, <3>1 DEF Forget, TypeOK
  <2>2. pc'[s] \in {"upload", "failed", "raised"} /\ \A t \in Syncs : t # s => pc'[t] = pc[t]
    BY <1>2 DEF List, Goto, EndAs, TypeOK
  <2>3. next'[s] \in listed'[s] \cup {NFiles + 1}
    <3>1. {f \in Files : archive[f] # NoFile} \in SUBSET Files /\ {} \in SUBSET Files
      OBVIOUS
    <3> QED BY <1>2, <2>1, <3>1 DEF List
  <2>4. ASSUME NEW t \in Syncs, t # s
        PROVE  listed'[t] = listed[t] /\ next'[t] = next[t] /\ acked'[t] = acked[t]
    BY <1>2, <2>4 DEF List, Forget, TypeOK
  <2> QED BY <2>2, <2>3, <2>4 DEF CursorInLoop, AckedFiles
<1>3. ASSUME NEW s \in Syncs, Ask(s) PROVE CursorInLoop'
  <2>1. CASE Asked(s)
    <3>1. next[s] \in listed[s]
      BY <1>1, <2>1 DEF Asked, CursorInLoop
    <3>2. pc' = [pc EXCEPT ![s] = "uploading"] /\ UNCHANGED <<listed, next, acked>>
      BY <2>1 DEF Asked, Goto
    <3> QED BY <3>1, <3>2 DEF CursorInLoop, AckedFiles, TypeOK
  <2>2. CASE Unread(s)
    <3>1. pc' = [pc EXCEPT ![s] = "raised"] /\ Forget(s, {})
      BY <2>2 DEF Unread, Goto
    <3>2. ASSUME NEW t \in Syncs, t # s
          PROVE  /\ listed'[t] = listed[t] /\ next'[t] = next[t] /\ acked'[t] = acked[t]
                 /\ pc'[t] = pc[t]
      BY <3>1, <3>2 DEF Forget, TypeOK
    <3>3. pc'[s] = "raised"
      BY <3>1 DEF TypeOK
    <3> QED BY <3>2, <3>3 DEF CursorInLoop, AckedFiles
  <2> QED BY <1>3, <2>1, <2>2, AskSplits
<1>4. ASSUME NEW s \in Syncs, Acknowledged(s) \/ Unanswered(s) PROVE CursorInLoop'
  <2>1. /\ pc' = [pc EXCEPT ![s] = "upload"] /\ UNCHANGED listed
        /\ next' = [next EXCEPT ![s] = Following(next[s] + 1, listed[s])]
    BY <1>4 DEF Acknowledged, Unanswered, Goto
  <2>2. Following(next[s] + 1, listed[s]) \in listed[s] \cup {NFiles + 1}
    BY <1>0, FollowingIsInLoop
  <2>3. \A t \in Syncs : t # s => acked'[t] = acked[t]
    BY <1>4 DEF Acknowledged, Unanswered, TypeOK
  <2>4. pc'[s] = "upload" /\ next'[s] \in listed'[s] \cup {NFiles + 1}
    BY <2>1, <2>2 DEF TypeOK
  <2>5. ASSUME NEW t \in Syncs, t # s
        PROVE  listed'[t] = listed[t] /\ next'[t] = next[t] /\ pc'[t] = pc[t]
    BY <2>1, <2>5 DEF TypeOK
  <2> QED BY <2>3, <2>4, <2>5 DEF CursorInLoop, AckedFiles
<1>5. ASSUME NEW s \in Syncs, Uploaded(s) \/ ReadBack(s) PROVE CursorInLoop'
  <2>1. PICK f \in Nat :
          /\ next' = [next EXCEPT ![s] = Following(f, AckedFiles(s))]
          /\ UNCHANGED <<listed, acked>>
    BY <1>0, <1>5 DEF Uploaded, ReadBack
  <2>2. Following(f, AckedFiles(s)) \in AckedFiles(s) \cup {NFiles + 1}
    BY <1>0, FollowingIsInLoop
  <2>3. pc'[s] = "verify" /\ \A t \in Syncs : t # s => pc'[t] = pc[t]
    BY <1>5 DEF Uploaded, ReadBack, Goto, TypeOK
  <2>4. /\ next'[s] \in AckedFiles(s)' \cup {NFiles + 1}
        /\ \A t \in Syncs : t # s => next'[t] = next[t]
    BY <2>1, <2>2 DEF TypeOK, AckedFiles
  <2> QED BY <2>1, <2>3, <2>4 DEF CursorInLoop, AckedFiles
<1>6. ASSUME NEW s \in Syncs, Report(s) PROVE CursorInLoop'
  <2>1. pc'[s] \in {"ok", "failed", "raised"} /\ \A t \in Syncs : t # s => pc'[t] = pc[t]
    BY <1>6 DEF Report, Goto, EndAs, TypeOK
  <2>2. ASSUME NEW t \in Syncs, t # s
        PROVE  listed'[t] = listed[t] /\ next'[t] = next[t] /\ acked'[t] = acked[t]
    BY <1>6, <2>2 DEF Report, Forget, TypeOK
  <2> QED BY <2>1, <2>2 DEF CursorInLoop, AckedFiles
<1>7. ASSUME NEW s \in Syncs, Retry(s) PROVE CursorInLoop'
  <2>1. pc'[s] = "start" /\ \A t \in Syncs : t # s => pc'[t] = pc[t]
    BY <1>7 DEF Retry, Goto, TypeOK
  <2> QED BY <1>7, <2>1 DEF Retry, CursorInLoop, AckedFiles
<1>8. ASSUME NEW u \in uploads, Name(u) \/ Write(u) PROVE CursorInLoop'
  <2>1. UNCHANGED <<pc, listed, next, acked>>
    BY <1>8 DEF Name, Write, syncVars
  <2> QED BY <2>1 DEF CursorInLoop, AckedFiles
<1>9. ASSUME NEW f \in Changing, Supersede(f) PROVE CursorInLoop'
  BY <1>9 DEF Supersede, syncVars, CursorInLoop, AckedFiles
<1>10. CASE UNCHANGED vars
  BY <1>10 DEF vars, syncVars, CursorInLoop, AckedFiles
<1> QED BY <1>2, <1>3, <1>4, <1>5, <1>6, <1>7, <1>8, <1>9, <1>10 DEF Next, SyncStep

(* A sync that starts or ends with nothing in hand has nothing verified.     *)
LEMMA ForgottenIsUnverified ==
    ASSUME TypeOK, VerifiedIsThere, NEW s \in Syncs, NEW S \in SUBSET Files, Forget(s, S),
           UNCHANGED node, pc'[s] # "ok", \A t \in Syncs : t # s => pc'[t] = pc[t]
    PROVE  VerifiedIsThere'
<1>1. verified'[s] = {}
  BY DEF Forget, TypeOK
<1>2. ASSUME NEW t \in Syncs, t # s
      PROVE  /\ verified'[t] = verified[t] /\ listed'[t] = listed[t] /\ acked'[t] = acked[t]
             /\ read'[t] = read[t] /\ replaced'[t] = replaced[t]
  BY <1>2 DEF Forget, TypeOK
<1> QED BY <1>1, <1>2 DEF VerifiedIsThere

LEMMA VerifiedStep ==
    TypeOK /\ TypeOK' /\ CursorInLoop /\ VerifiedIsThere /\ [Next]_vars => VerifiedIsThere'
<1> SUFFICES ASSUME TypeOK, TypeOK', CursorInLoop, VerifiedIsThere, [Next]_vars
             PROVE  VerifiedIsThere'
  OBVIOUS
<1>1. ASSUME NEW s \in Syncs, List(s) PROVE VerifiedIsThere'
  <2>1. PICK S \in SUBSET Files : Forget(s, S)
    <3>1. {f \in Files : archive[f] # NoFile} \in SUBSET Files /\ {} \in SUBSET Files
      OBVIOUS
    <3> QED BY <1>1, <3>1 DEF List
  <2>2. pc'[s] \in {"upload", "failed", "raised"} /\ \A t \in Syncs : t # s => pc'[t] = pc[t]
    BY <1>1 DEF List, Goto, EndAs, TypeOK
  <2> QED BY <1>1, <2>1, <2>2, ForgottenIsUnverified DEF List
<1>2. ASSUME NEW s \in Syncs, Ask(s) PROVE VerifiedIsThere'
  <2>1. CASE Asked(s)
    <3>1. verified[s] = {}
      BY <2>1 DEF Asked, VerifiedIsThere
    <3>2. /\ pc' = [pc EXCEPT ![s] = "uploading"]
          /\ UNCHANGED <<listed, acked, verified, replaced, node>>
          /\ \A t \in Syncs : t # s => read'[t] = read[t]
      BY <2>1 DEF Asked, Goto, TypeOK
    <3> QED BY <3>1, <3>2 DEF VerifiedIsThere, TypeOK
  <2>2. CASE Unread(s)
    <3>1. pc' = [pc EXCEPT ![s] = "raised"] /\ Forget(s, {}) /\ UNCHANGED node
      BY <2>2 DEF Unread, Goto
    <3>2. pc'[s] = "raised" /\ \A t \in Syncs : t # s => pc'[t] = pc[t]
      BY <3>1 DEF TypeOK
    <3>3. {} \in SUBSET Files
      OBVIOUS
    <3> QED BY <3>1, <3>2, <3>3, ForgottenIsUnverified
  <2> QED BY <1>2, <2>1, <2>2, AskSplits
<1>3. ASSUME NEW s \in Syncs, Acknowledged(s) \/ Unanswered(s) PROVE VerifiedIsThere'
  <2>1. verified[s] = {}
    BY <1>3 DEF Acknowledged, Unanswered, VerifiedIsThere
  <2>2. /\ pc' = [pc EXCEPT ![s] = "upload"]
        /\ UNCHANGED <<listed, verified, replaced, node, read>>
        /\ \A t \in Syncs : t # s => acked'[t] = acked[t]
    BY <1>3 DEF Acknowledged, Unanswered, Goto, TypeOK
  <2> QED BY <2>1, <2>2 DEF VerifiedIsThere, TypeOK
<1>4. ASSUME NEW s \in Syncs, Uploaded(s) PROVE VerifiedIsThere'
  <2>1. /\ pc' = [pc EXCEPT ![s] = "verify"]
        /\ UNCHANGED <<listed, verified, replaced, node, read, acked>>
    BY <1>4 DEF Uploaded, Goto
  <2> QED BY <2>1 DEF VerifiedIsThere, TypeOK
<1>5. ASSUME NEW s \in Syncs, ReadBack(s) PROVE VerifiedIsThere'
  <2>1. /\ pc[s] = "verify"
        /\ UNCHANGED <<pc, listed, replaced, node, read, acked>>
        /\ \A t \in Syncs : t # s => verified'[t] = verified[t]
    BY <1>5 DEF ReadBack, TypeOK
  <2>2. next[s] \in Files /\ acked[s][next[s]] \in Paths
    <3>1. next[s] \in Files /\ next[s] # NFiles + 1
      BY <1>5, SyncAssumption DEF ReadBack, Files
    <3>2. next[s] \in AckedFiles(s)
      BY <2>1, <3>1 DEF CursorInLoop
    <3>3. acked[s][next[s]] \in Paths \cup {NoPath} /\ acked[s][next[s]] # NoPath
      BY <3>1, <3>2 DEF AckedFiles, TypeOK
    <3> QED BY <3>1, <3>3
  <2>3. ASSUME NEW f \in verified'[s]
        PROVE  f \in verified[s] \/ (f = next[s] /\ node[acked[s][f]] = read[s][f])
    BY <1>5, <2>3 DEF ReadBack, TypeOK
  <2> QED BY <2>1, <2>2, <2>3 DEF VerifiedIsThere
<1>6. ASSUME NEW s \in Syncs, Report(s) PROVE VerifiedIsThere'
  <2>0. ASSUME NEW verdict \in {"ok", "failed"}, EndAs(s, verdict)
        PROVE  /\ pc'[s] \in {verdict, "raised"} /\ pc'[s] # "upload" /\ pc'[s] # "uploading"
               /\ \A t \in Syncs : t # s => pc'[t] = pc[t]
    BY <2>0 DEF EndAs, Goto, TypeOK
  <2>1. CASE verified[s] = listed[s]
    <3>1. EndAs(s, "ok") /\ UNCHANGED <<listed, verified, replaced, node, read, acked>>
      BY <1>6, <2>1 DEF Report
    <3>2. /\ pc'[s] \in {"ok", "raised"} /\ pc'[s] # "upload" /\ pc'[s] # "uploading"
          /\ \A t \in Syncs : t # s => pc'[t] = pc[t]
      BY <2>0, <3>1
    <3> QED BY <2>1, <3>1, <3>2 DEF VerifiedIsThere
  <2>2. CASE verified[s] # listed[s]
    <3>1. EndAs(s, "failed") /\ Forget(s, {}) /\ UNCHANGED node
      BY <1>6, <2>2 DEF Report
    <3>2. pc'[s] \in {"failed", "raised"} /\ \A t \in Syncs : t # s => pc'[t] = pc[t]
      BY <2>0, <3>1
    <3>3. {} \in SUBSET Files
      OBVIOUS
    <3> QED BY <3>1, <3>2, <3>3, ForgottenIsUnverified
  <2> QED BY <2>1, <2>2
<1>7. ASSUME NEW s \in Syncs, Retry(s) PROVE VerifiedIsThere'
  <2>1. pc'[s] = "start" /\ \A t \in Syncs : t # s => pc'[t] = pc[t]
    BY <1>7 DEF Retry, Goto, TypeOK
  <2> QED BY <1>7, <2>1 DEF Retry, VerifiedIsThere
<1>8. ASSUME NEW u \in uploads, Name(u) PROVE VerifiedIsThere'
  BY <1>8 DEF Name, syncVars, VerifiedIsThere
<1>9. ASSUME NEW u \in uploads, Write(u) PROVE VerifiedIsThere'
  <2>1. UNCHANGED <<pc, listed, verified, read, acked>>
    BY <1>9 DEF Write, syncVars
  <2>2. ASSUME NEW t \in Syncs, NEW f \in verified[t], acked[t][f] = u.path
        PROVE  acked[t][f] \in replaced'[t]
    BY <1>9, <2>2 DEF Write
  <2>3. ASSUME NEW t \in Syncs, NEW f \in verified[t], acked[t][f] # u.path
        PROVE  node'[acked[t][f]] = node[acked[t][f]] /\ replaced[t] \subseteq replaced'[t]
    BY <1>9, <2>3 DEF Write, VerifiedIsThere, TypeOK
  <2>4. ASSUME NEW t \in Syncs, NEW f \in verified[t]
        PROVE  node'[acked[t][f]] = read[t][f] \/ acked[t][f] \in replaced'[t]
    BY <2>2, <2>3, <2>4 DEF VerifiedIsThere
  <2> QED BY <2>1, <2>4 DEF VerifiedIsThere
<1>10. ASSUME NEW f \in Changing, Supersede(f) PROVE VerifiedIsThere'
  BY <1>10 DEF Supersede, syncVars, VerifiedIsThere
<1>11. CASE UNCHANGED vars
  BY <1>11 DEF vars, syncVars, VerifiedIsThere
<1> QED BY <1>1, <1>2, <1>3, <1>4, <1>5, <1>6, <1>7, <1>8, <1>9, <1>10, <1>11 DEF Next, SyncStep

(* The loops go forward.                                                     *)
LEMMA FollowingAdvances ==
    \A f \in 1..(NFiles + 1), S \in SUBSET Files :
        /\ Following(f, S) \in f..(NFiles + 1)
        /\ f \in Files => Following(f + 1, S) \in (f + 1)..(NFiles + 1)
<1>1. ASSUME NEW f \in 1..(NFiles + 1), NEW S \in SUBSET Files
      PROVE  Following(f, S) \in f..(NFiles + 1)
  <2>0. NFiles \in Nat /\ f \in Nat /\ S \subseteq 1..NFiles
    BY SyncAssumption DEF Files
  <2>1. Following(f, S) \in S \cup {NFiles + 1}
    BY <2>0, FollowingIsInLoop
  <2>2. Following(f, S) >= f
    <3>1. CASE \E g \in S : g >= f
      <4> DEFINE Rest == {g \in S : g >= f}
      <4>0. S \subseteq Nat
        BY <2>0
      <4>1. Rest \subseteq Nat /\ Rest # {}
        BY <4>0, <3>1
      <4>2. PICK g \in Rest : \A k \in Rest : ~ (<<k, g>> \in OpToRel(<, Nat))
        <5> HIDE DEF Rest
        <5> QED BY <4>1, NatLessThanWellFounded, WFMin
      <4>3. \A k \in Rest : g <= k
        <5> SUFFICES ASSUME NEW k \in Rest, k < g PROVE FALSE
          BY <4>1
        <5>1. <<k, g>> \in Nat \X Nat /\ <<k, g>>[1] < <<k, g>>[2]
          BY <4>1
        <5> QED BY <5>1, <4>2 DEF OpToRel
      <4>4. g \in S /\ g >= f /\ \A k \in S : k >= f => g <= k
        BY <4>3
      <4> QED BY <3>1, <4>4 DEF Following
    <3>2. CASE ~ \E g \in S : g >= f
      BY <2>0, <3>2 DEF Following
    <3> QED BY <3>1, <3>2
  <2>3. Following(f, S) \in 1..(NFiles + 1)
    <3>1. CASE Following(f, S) = NFiles + 1
      BY <2>0, <3>1
    <3>2. CASE Following(f, S) \in S
      <4>1. Following(f, S) \in 1..NFiles
        BY <2>0, <3>2
      <4>2. \A k \in 1..NFiles : k \in 1..(NFiles + 1)
        BY <2>0
      <4> QED BY <4>1, <4>2
    <3> QED BY <2>1, <3>1, <3>2
  <2> QED BY <2>0, <2>2, <2>3
<1>2. ASSUME NEW f \in Files
      PROVE  f + 1 \in 1..(NFiles + 1)
  BY SyncAssumption DEF Files
<1> QED BY <1>1, <1>2

(* A loop passes over no file of its set.                                    *)
LEMMA FollowingSkipsNone ==
    \A f \in Nat, S \in SUBSET Files : \A k \in S : k >= f => k >= Following(f, S)
<1> SUFFICES ASSUME NEW f \in Nat, NEW S \in SUBSET Files, NEW k \in S, k >= f
             PROVE  k >= Following(f, S)
  OBVIOUS
<1> DEFINE Rest == {g \in S : g >= f}
<1>0. S \subseteq Nat
  BY SyncAssumption DEF Files
<1>1. Rest \subseteq Nat /\ Rest # {}
  BY <1>0
<1>2. PICK g \in Rest : \A h \in Rest : ~ (<<h, g>> \in OpToRel(<, Nat))
  <2> HIDE DEF Rest
  <2> QED BY <1>1, NatLessThanWellFounded, WFMin
<1>3. \A h \in Rest : g <= h
  <2> SUFFICES ASSUME NEW h \in Rest, h < g PROVE FALSE
    BY <1>1
  <2>1. <<h, g>> \in Nat \X Nat /\ <<h, g>>[1] < <<h, g>>[2]
    BY <1>1
  <2> QED BY <2>1, <1>2 DEF OpToRel
<1>4. g \in S /\ g >= f /\ \A h \in S : h >= f => g <= h
  BY <1>3
<1>5. Following(f, S) \in S /\ \A h \in S : h >= f => Following(f, S) <= h
  BY <1>4 DEF Following
<1> QED BY <1>0, <1>5

(* A step of one sync leaves what the others know and asked for alone.       *)
LEMMA OthersStay ==
    ASSUME TypeOK, NEW s \in Syncs, SyncStep(s) \/ Retry(s)
    PROVE  /\ UNCHANGED node
           /\ \A u \in uploads' : u \in uploads \/ u.sync = s
           /\ \A t \in Syncs : t # s =>
                /\ pc'[t] = pc[t] /\ tries'[t] = tries[t] /\ listed'[t] = listed[t]
                /\ next'[t] = next[t] /\ read'[t] = read[t] /\ acked'[t] = acked[t]
                /\ verified'[t] = verified[t] /\ (t \in troubled' <=> t \in troubled)
<1>1. CASE List(s)
  <2>1. PICK S \in SUBSET Files : Forget(s, S)
    <3>1. {f \in Files : archive[f] # NoFile} \in SUBSET Files /\ {} \in SUBSET Files
      OBVIOUS
    <3> QED BY <1>1, <3>1 DEF List
  <2>2. \A t \in Syncs : t # s => pc'[t] = pc[t]
    BY <1>1 DEF List, EndAs, Goto, TypeOK
  <2>3. UNCHANGED <<node, uploads, tries>> /\ \A t \in Syncs : t # s => (t \in troubled' <=> t \in troubled)
    BY <1>1 DEF List
  <2> QED BY <2>1, <2>2, <2>3 DEF Forget, TypeOK
<1>2. CASE Asked(s)
  BY <1>2 DEF Asked, Upload, Goto, TypeOK
<1>3. CASE Unread(s)
  BY <1>3 DEF Unread, Forget, Goto, TypeOK
<1>4. CASE Acknowledged(s) \/ Unanswered(s)
  BY <1>4 DEF Acknowledged, Unanswered, Goto, TypeOK
<1>5. CASE Uploaded(s)
  BY <1>5 DEF Uploaded, Goto, TypeOK
<1>6. CASE ReadBack(s)
  BY <1>6 DEF ReadBack, TypeOK
<1>7. CASE Report(s)
  BY <1>7 DEF Report, Forget, EndAs, Goto, TypeOK
<1>8. CASE Retry(s)
  BY <1>8 DEF Retry, Goto, TypeOK
<1> QED BY <1>1, <1>2, <1>3, <1>4, <1>5, <1>6, <1>7, <1>8, AskSplits DEF SyncStep

(* The node's steps keep who asked for what, and the syncs where they are.   *)
LEMMA NodeKeeps ==
    ASSUME TypeOK, NEW u \in uploads, Name(u) \/ Write(u), NEW w \in uploads'
    PROVE  \E v \in uploads : /\ w.sync = v.sync /\ w.try = v.try /\ w.file = v.file
                              /\ w.version = v.version
                              /\ w = v \/ w.at # "written" \/ (Write(u) /\ v = u /\ w.path = u.path)
<1>0. \A v \in uploads : v \in Requests
  BY DEF TypeOK
<1>1. CASE Name(u)
  <2>1. PICK n \in 0..MaxCopies :
          uploads' = (uploads \ {u}) \cup {[u EXCEPT !.at = "named", !.path = <<u.file, n>>]}
    BY <1>1 DEF Name
  <2>2. CASE w \in uploads
    BY <2>2
  <2>3. CASE w = [u EXCEPT !.at = "named", !.path = <<u.file, n>>]
    BY <1>0, <2>3 DEF Requests
  <2> QED BY <2>1, <2>2, <2>3
<1>2. CASE Write(u)
  <2>1. \/ w \in uploads
        \/ \E v \in uploads : w = [v EXCEPT !.at = "beaten"]
        \/ w = [u EXCEPT !.at = "written"]
    BY <1>2 DEF Write
  <2>2. CASE w \in uploads
    BY <2>2
  <2>3. CASE \E v \in uploads : w = [v EXCEPT !.at = "beaten"]
    BY <1>0, <2>3 DEF Requests
  <2>4. CASE w = [u EXCEPT !.at = "written"]
    <3>1. /\ w.sync = u.sync /\ w.try = u.try /\ w.file = u.file /\ w.version = u.version
          /\ w.path = u.path
      BY <1>0, <2>4 DEF Requests
    <3> QED BY <1>2, <3>1
  <2> QED BY <2>1, <2>2, <2>3, <2>4
<1> QED BY <1>1, <1>2

LEMMA TriesStep ==
    TypeOK /\ TypeOK' /\ CursorInLoop /\ TriesInOrder /\ [Next]_vars => TriesInOrder'
<1> SUFFICES ASSUME TypeOK, TypeOK', CursorInLoop, TriesInOrder, [Next]_vars
             PROVE  TriesInOrder'
  OBVIOUS
<1>0. /\ \A u \in uploads : u \in Requests /\ u.sync \in Syncs /\ u.file \in Nat /\ u.try \in {0, 1}
      /\ \A s \in Syncs : next[s] \in Nat /\ listed[s] \in SUBSET Files /\ tries[s] \in {0, 1}
      /\ Files \subseteq Nat
  BY SyncAssumption DEF TypeOK, Requests, Files
<1>1. ASSUME NEW s \in Syncs, SyncStep(s) \/ Retry(s),
             \A u \in uploads' : u.sync = s => InOrder(u)', AckedBehind(s)'
      PROVE  TriesInOrder'
  <2>1. \A u \in uploads' : u.sync # s => InOrder(u)'
    BY <1>0, <1>1, OthersStay DEF TriesInOrder, InOrder
  <2>2. \A t \in Syncs : t # s => AckedBehind(t)'
    BY <1>1, OthersStay DEF TriesInOrder, AckedBehind
  <2> QED BY <1>1, <2>1, <2>2 DEF TriesInOrder
<1>2. ASSUME NEW s \in Syncs, List(s) PROVE TriesInOrder'
  <2>1. \A u \in uploads' : u.sync = s => u.try < tries'[s] /\ tries' = tries
    BY <1>2 DEF List, TriesInOrder, InOrder
  <2>2. \A u \in uploads' : u.sync = s => InOrder(u)'
    BY <1>0, <1>2, <2>1 DEF InOrder, List
  <2>3. PICK S \in SUBSET Files : Forget(s, S)
    <3>1. {f \in Files : archive[f] # NoFile} \in SUBSET Files /\ {} \in SUBSET Files
      OBVIOUS
    <3> QED BY <1>2, <3>1 DEF List
  <2>4. AckedBehind(s)'
    BY <2>3 DEF Forget, AckedBehind, TypeOK
  <2> QED BY <1>1, <1>2, <2>2, <2>4 DEF SyncStep
<1>3. ASSUME NEW s \in Syncs, Asked(s), Ask(s) PROVE TriesInOrder'
  <2>1. /\ pc'[s] = "uploading" /\ next'[s] = next[s] /\ tries'[s] = tries[s]
        /\ acked'[s] = acked[s] /\ pc[s] = "upload"
    BY <1>3 DEF Asked, Goto, TypeOK
  <2>2. ASSUME NEW x, x = Upload(s, next[s]) PROVE InOrder(x)'
    <3>1. read'[s][next[s]] = archive[next[s]]
      BY <1>3 DEF Asked, TypeOK
    <3>2. /\ x.sync = s /\ x.try = tries[s] /\ x.file = next[s]
          /\ x.version = archive[next[s]]
      BY <2>2 DEF Upload
    <3> QED BY <1>0, <2>1, <3>1, <3>2 DEF InOrder
  <2>3. \A u \in uploads : u.sync = s => InOrder(u)'
    BY <1>0, <2>1 DEF TriesInOrder, InOrder
  <2>4. AckedBehind(s)'
    BY <2>1 DEF TriesInOrder, AckedBehind
  <2>5. ASSUME NEW u \in uploads', u.sync = s PROVE InOrder(u)'
    <3>1. u \in uploads \/ u = Upload(s, next[s])
      BY <1>3 DEF Asked
    <3> QED BY <2>2, <2>3, <2>5, <3>1
  <2> QED BY <1>1, <1>3, <2>4, <2>5 DEF SyncStep
<1>4. ASSUME NEW s \in Syncs, Unread(s) \/ Uploaded(s) \/ ReadBack(s) \/ Report(s),
             SyncStep(s)
      PROVE  TriesInOrder'
  <2>1. /\ pc'[s] \notin {"start", "upload", "uploading"} /\ tries' = tries /\ uploads' = uploads
    BY <1>4 DEF Unread, Uploaded, ReadBack, Report, EndAs, Goto, TypeOK
  <2>2. \A u \in uploads' : u.sync = s => InOrder(u)'
    BY <2>1 DEF TriesInOrder, InOrder
  <2>3. AckedBehind(s)'
    BY <2>1 DEF AckedBehind
  <2> QED BY <1>1, <1>4, <2>2, <2>3
<1>5. ASSUME NEW s \in Syncs, Acknowledged(s) \/ Unanswered(s), SyncStep(s)
      PROVE  TriesInOrder'
  <2>1. /\ pc[s] = "uploading" /\ pc'[s] = "upload" /\ tries' = tries /\ uploads' \subseteq uploads
        /\ read' = read
        /\ next'[s] = Following(next[s] + 1, listed[s])
    BY <1>5 DEF Acknowledged, Unanswered, Goto, TypeOK
  <2>2. next[s] \in Files /\ next'[s] > next[s]
    <3>1. next[s] \in Files
      BY <1>0, <2>1 DEF CursorInLoop
    <3>2. next[s] \in 1..(NFiles + 1) /\ listed[s] \in SUBSET Files
      BY DEF TypeOK
    <3>3. Following(next[s] + 1, listed[s]) \in (next[s] + 1)..(NFiles + 1)
      BY <3>1, <3>2, FollowingAdvances
    <3> QED BY <1>0, <2>1, <3>1, <3>3, SyncAssumption
  <2>3. ASSUME NEW u \in uploads', u.sync = s PROVE InOrder(u)'
    <3>1. u \in uploads /\ InOrder(u)
      BY <2>1, <2>3 DEF TriesInOrder
    <3>2. next'[s] \in Nat
      BY SyncAssumption DEF TypeOK
    <3> QED BY <1>0, <2>1, <2>2, <2>3, <3>1, <3>2 DEF InOrder
  <2>4. \A f \in Files : f # next[s] => acked'[s][f] = acked[s][f]
    BY <1>5 DEF Acknowledged, Unanswered, TypeOK
  <2>5. AckedBehind(s)'
    <3>1. AckedBehind(s) /\ next'[s] \in Nat
      BY SyncAssumption DEF TriesInOrder, TypeOK
    <3>2. ASSUME NEW f \in Files, f >= next'[s] PROVE f >= next[s] /\ f # next[s]
      <4>1. f \in Nat /\ next[s] \in Nat /\ next'[s] \in Nat /\ next'[s] > next[s]
        BY <1>0, <2>2, <3>1
      <4> QED BY <3>2, <4>1
    <3> QED BY <2>1, <2>4, <3>1, <3>2 DEF AckedBehind
  <2> QED BY <1>1, <1>5, <2>3, <2>5
<1>6. ASSUME NEW s \in Syncs, Retry(s) PROVE TriesInOrder'
  <2>1. /\ tries[s] = 0 /\ tries'[s] = 1 /\ pc'[s] = "start" /\ uploads' = uploads
    BY <1>6 DEF Retry, Goto, TypeOK
  <2>2. ASSUME NEW u \in uploads', u.sync = s PROVE InOrder(u)'
    <3>1. u \in uploads /\ u.try <= tries[s]
      BY <2>1, <2>2 DEF TriesInOrder, InOrder
    <3> QED BY <1>0, <2>1, <2>2, <3>1 DEF InOrder
  <2>3. AckedBehind(s)'
    BY <2>1 DEF AckedBehind
  <2> QED BY <1>1, <1>6, <2>2, <2>3
<1>7. ASSUME NEW u \in uploads, Name(u) \/ Write(u) PROVE TriesInOrder'
  <2>1. UNCHANGED <<pc, tries, next, read, acked>>
    BY <1>7 DEF Name, Write, syncVars
  <2>2. ASSUME NEW w \in uploads' PROVE InOrder(w)'
    <3>1. PICK v \in uploads : w.sync = v.sync /\ w.try = v.try /\ w.file = v.file
                               /\ w.version = v.version
      BY <1>7, NodeKeeps
    <3> QED BY <2>1, <3>1 DEF TriesInOrder, InOrder
  <2> QED BY <2>1, <2>2 DEF TriesInOrder, AckedBehind
<1>8. ASSUME NEW f \in Changing, Supersede(f) PROVE TriesInOrder'
  BY <1>8 DEF Supersede, syncVars, TriesInOrder, InOrder, AckedBehind
<1>9. CASE UNCHANGED vars
  BY <1>9 DEF vars, syncVars, TriesInOrder, InOrder, AckedBehind
<1> QED BY <1>2, <1>3, <1>4, <1>5, <1>6, <1>7, <1>8, <1>9, AskSplits DEF Next, SyncStep

LEMMA RightStep ==
    /\ TypeOK /\ TypeOK' /\ CursorInLoop /\ CursorInLoop' /\ VerifiedIsThere
    /\ TriesInOrder /\ UntroubledIsRight /\ [Next]_vars
    => UntroubledIsRight'
<1> SUFFICES ASSUME TypeOK, TypeOK', CursorInLoop, CursorInLoop', VerifiedIsThere,
                    TriesInOrder, UntroubledIsRight, [Next]_vars
             PROVE  UntroubledIsRight'
  OBVIOUS
<1>0. /\ \A u \in uploads : u \in Requests /\ u.sync \in Syncs
      /\ \A s \in Syncs : next[s] \in Nat /\ listed[s] \in SUBSET Files
      /\ \A s \in Syncs : next'[s] \in Nat
      /\ Files \subseteq Nat /\ NFiles + 1 \notin Files /\ \A f \in Files : f < NFiles + 1
  BY SyncAssumption DEF TypeOK, Requests, Files
<1>1. ASSUME NEW s \in Syncs, SyncStep(s) \/ Retry(s), s \notin troubled' => Right(s)'
      PROVE  UntroubledIsRight'
  <2> SUFFICES ASSUME NEW t \in Syncs, t \notin troubled', t # s PROVE Right(t)'
    BY <1>1 DEF UntroubledIsRight
  <2>1. /\ pc'[t] = pc[t] /\ tries'[t] = tries[t] /\ listed'[t] = listed[t]
        /\ next'[t] = next[t] /\ read'[t] = read[t] /\ acked'[t] = acked[t]
        /\ verified'[t] = verified[t] /\ node' = node /\ t \notin troubled
    BY <1>1, OthersStay
  <2>2. Awaited(t)' \subseteq Awaited(t)
    BY <1>1, <2>1, OthersStay DEF Awaited
  <2>3. Right(t)
    BY <2>1 DEF UntroubledIsRight
  <2> QED BY <2>1, <2>2, <2>3 DEF Right, AckedFiles
<1>2. ASSUME NEW s \in Syncs, List(s) PROVE UntroubledIsRight'
  <2> DEFINE found == {f \in Files : archive[f] # NoFile}
  <2>1. CASE Forget(s, found) /\ Goto(s, "upload")
    <3>1. /\ pc'[s] = "upload" /\ listed'[s] = found /\ next'[s] = Following(1, found)
          /\ \A f \in Files : acked'[s][f] = NoPath
      BY <2>1 DEF Forget, Goto, TypeOK
    <3>2. \A f \in found : f >= Following(1, found)
      <4>1. \A f \in found : f >= 1
        BY SyncAssumption DEF Files
      <4> QED BY <4>1, FollowingSkipsNone
    <3>3. AckedFiles(s)' = {}
      BY <3>1 DEF AckedFiles
    <3>4. \A f \in found : ~ (f < next'[s])
      BY <1>0, <3>1, <3>2
    <3>5. Right(s)'
      BY <3>1, <3>3, <3>4 DEF Right
    <3> QED BY <1>1, <1>2, <3>5 DEF SyncStep
  <2>2. CASE troubled' = troubled \cup {s}
    BY <1>1, <1>2, <2>2 DEF SyncStep
  <2> QED BY <1>2, <2>1, <2>2 DEF List
<1>3. ASSUME NEW s \in Syncs, Asked(s), SyncStep(s) PROVE UntroubledIsRight'
  <2> SUFFICES ASSUME s \notin troubled PROVE Right(s)'
    BY <1>1, <1>3 DEF Asked
  <2>1. /\ pc[s] = "upload" /\ pc'[s] = "uploading"
        /\ UNCHANGED <<listed, next, acked, node, tries>>
        /\ \A f \in Files : f # next[s] => read'[s][f] = read[s][f]
    BY <1>3 DEF Asked, Goto, TypeOK
  <2>2. Right(s)
    BY <1>3 DEF UntroubledIsRight
  <2>3. acked[s][next[s]] = NoPath
    BY <1>0, <1>3, <2>1 DEF TriesInOrder, AckedBehind, Asked
  <2>4. \A f \in AckedFiles(s)' : f \in AckedFiles(s) /\ f # next[s] /\ f \in Files
    BY <1>0, <2>1, <2>3 DEF AckedFiles
  <2>5. \A u \in Awaited(s)' : u.at # "written"
    <3>1. Awaited(s) = {}
      <4> SUFFICES ASSUME NEW u \in Awaited(s) PROVE FALSE
        OBVIOUS
      <4>1. u \in uploads /\ u.sync = s /\ u.try = tries[s] /\ u.file = next[s] /\ InOrder(u)
        BY DEF Awaited, TriesInOrder
      <4>2. u.file < next[s]
        BY <2>1, <4>1 DEF InOrder
      <4> QED BY <1>0, <4>1, <4>2
    <3>2. \A u \in uploads' : u \in uploads \/ u.at = "asked"
      BY <1>3 DEF Asked, Upload
    <3> QED BY <2>1, <3>1, <3>2 DEF Awaited
  <2> QED BY <2>1, <2>2, <2>4, <2>5 DEF Right
<1>4. ASSUME NEW s \in Syncs, Unread(s), SyncStep(s) PROVE UntroubledIsRight'
  <2>1. pc'[s] = "raised"
    BY <1>4 DEF Unread, Goto, TypeOK
  <2> QED BY <1>1, <1>4, <2>1 DEF Right
<1>5. ASSUME NEW s \in Syncs, Acknowledged(s), SyncStep(s) PROVE UntroubledIsRight'
  <2> SUFFICES ASSUME s \notin troubled PROVE Right(s)'
    BY <1>1, <1>5 DEF Acknowledged
  <2>1. PICK u \in Awaited(s) :
          u.at = "written" /\ acked' = [acked EXCEPT ![s][next[s]] = u.path]
    BY <1>5 DEF Acknowledged
  <2>2. /\ pc[s] = "uploading" /\ pc'[s] = "upload" /\ UNCHANGED <<listed, read, node>>
        /\ next'[s] = Following(next[s] + 1, listed[s])
    BY <1>5 DEF Acknowledged, Goto, TypeOK
  <2>3. Right(s) /\ next[s] \in listed[s] /\ next[s] \in Files
    BY <1>0, <1>5, <2>2 DEF UntroubledIsRight, CursorInLoop
  <2>4. node[u.path] = read[s][next[s]]
    <3>1. u \in uploads /\ u.sync = s /\ u.try = tries[s] /\ u.file = next[s] /\ InOrder(u)
      BY DEF Awaited, TriesInOrder
    <3>2. ~ (u.file < next[s])
      BY <1>0, <3>1
    <3>3. u.version = read[s][next[s]]
      BY <2>2, <3>1, <3>2 DEF InOrder
    <3> QED BY <2>1, <2>2, <2>3, <3>3 DEF Right
  <2>5. u.path # NoPath
    <3>1. u.path \in Paths
      BY <2>1 DEF TypeOK, Awaited
    <3> QED BY <3>1, SyncAssumption DEF Paths, NoPath, Files
  <2>6. /\ acked'[s][next[s]] = u.path
        /\ \A f \in Files : f # next[s] => acked'[s][f] = acked[s][f]
    BY <2>1, <2>3 DEF TypeOK
  <2>7. ASSUME NEW f \in AckedFiles(s)' PROVE node'[acked'[s][f]] = read'[s][f]
    <3>1. f \in listed[s] /\ f \in Files /\ acked'[s][f] # NoPath
      BY <1>0, <2>2, <2>7 DEF AckedFiles
    <3>2. CASE f = next[s]
      BY <2>2, <2>4, <2>6, <3>2
    <3>3. CASE f # next[s]
      BY <2>2, <2>3, <2>6, <3>1, <3>3 DEF Right, AckedFiles
    <3> QED BY <3>2, <3>3
  <2>8. ASSUME NEW f \in listed'[s], f < next'[s] PROVE acked'[s][f] # NoPath
    <3>1. f \in listed[s] /\ f \in Files /\ f \in Nat
      BY <1>0, <2>2, <2>8
    <3>2. ~ (f >= next[s] + 1)
      <4>1. f >= next[s] + 1 => f >= next'[s]
        BY <1>0, <2>2, <3>1, FollowingSkipsNone
      <4> QED BY <1>0, <2>8, <3>1, <4>1
    <3>3. CASE f = next[s]
      BY <2>5, <2>6, <3>3
    <3>4. CASE f < next[s]
      BY <1>0, <2>2, <2>3, <2>6, <3>1, <3>4 DEF Right
    <3> QED BY <1>0, <3>1, <3>2, <3>3, <3>4
  <2> QED BY <2>2, <2>7, <2>8 DEF Right
<1>6. ASSUME NEW s \in Syncs, Unanswered(s), SyncStep(s) PROVE UntroubledIsRight'
  BY <1>1, <1>6 DEF Unanswered
<1>7. ASSUME NEW s \in Syncs, Uploaded(s), SyncStep(s) PROVE UntroubledIsRight'
  <2> SUFFICES ASSUME s \notin troubled PROVE Right(s)'
    BY <1>1, <1>7 DEF Uploaded
  <2>1. /\ pc[s] = "upload" /\ pc'[s] = "verify" /\ next[s] \notin Files
        /\ UNCHANGED <<listed, read, node, acked, verified>>
        /\ next'[s] = Following(1, AckedFiles(s))
    BY <1>7 DEF Uploaded, Goto, TypeOK
  <2>2. Right(s) /\ next[s] = NFiles + 1 /\ verified[s] = {}
    BY <1>0, <2>1 DEF UntroubledIsRight, CursorInLoop, VerifiedIsThere
  <2>3. AckedFiles(s) = listed[s]
    <3>1. \A f \in listed[s] : f < next[s]
      BY <1>0, <2>2
    <3> QED BY <2>1, <2>2, <3>1 DEF Right, AckedFiles
  <2>4. \A f \in listed[s] : ~ (f < next'[s])
    <3>1. \A f \in listed[s] : f >= 1 /\ f \in Nat
      BY <1>0, SyncAssumption DEF Files
    <3>2. \A f \in listed[s] : f >= next'[s]
      BY <1>0, <2>1, <2>3, <3>1, FollowingSkipsNone
    <3> QED BY <1>0, <3>1, <3>2
  <2>5. AckedFiles(s)' = AckedFiles(s)
    BY <2>1 DEF AckedFiles
  <2> QED BY <2>1, <2>2, <2>3, <2>4, <2>5 DEF Right
<1>8. ASSUME NEW s \in Syncs, ReadBack(s), SyncStep(s) PROVE UntroubledIsRight'
  <2> SUFFICES ASSUME s \notin troubled' PROVE Right(s)'
    BY <1>1, <1>8
  <2>1. /\ pc[s] = "verify" /\ next[s] \in Files /\ UNCHANGED <<pc, listed, read, node, acked>>
        /\ next'[s] = Following(next[s] + 1, AckedFiles(s)) /\ s \notin troubled
    BY <1>8 DEF ReadBack, TypeOK
  <2>2. Right(s) /\ next[s] \in AckedFiles(s)
    BY <1>0, <2>1 DEF UntroubledIsRight, CursorInLoop
  <2>3. verified'[s] = verified[s] \cup {next[s]}
    <3>1. node[acked[s][next[s]]] = read[s][next[s]]
      BY <2>1, <2>2 DEF Right
    <3> QED BY <1>8, <3>1 DEF ReadBack, TypeOK
  <2>4. AckedFiles(s)' = AckedFiles(s) /\ AckedFiles(s) = listed[s]
    BY <2>1, <2>2 DEF AckedFiles, Right
  <2>5. ASSUME NEW f \in listed[s], f < next'[s] PROVE f \in verified'[s]
    <3>1. f \in Nat /\ (f >= next[s] + 1 => f >= next'[s])
      BY <1>0, <2>1, <2>4, FollowingSkipsNone
    <3>2. f < next[s] \/ f = next[s]
      BY <1>0, <2>5, <3>1
    <3> QED BY <2>1, <2>2, <2>3, <3>2 DEF Right
  <2> QED BY <2>1, <2>2, <2>3, <2>4, <2>5 DEF Right
<1>9. ASSUME NEW s \in Syncs, Report(s), SyncStep(s) PROVE UntroubledIsRight'
  <2> SUFFICES ASSUME s \notin troubled PROVE Right(s)'
    BY <1>1, <1>9 DEF Report
  <2>1. pc[s] = "verify" /\ next[s] = NFiles + 1 /\ Right(s)
    BY <1>0, <1>9 DEF Report, UntroubledIsRight, CursorInLoop, AckedFiles
  <2>2. verified[s] = listed[s]
    <3>1. \A f \in listed[s] : f < next[s]
      BY <1>0, <2>1
    <3> QED BY <2>1, <3>1 DEF Right
  <2>3. pc'[s] \in {"ok", "raised"}
    <3>1. EndAs(s, "ok")
      BY <1>9, <2>2 DEF Report
    <3> QED BY <3>1 DEF EndAs, Goto, TypeOK
  <2> QED BY <2>3 DEF Right
<1>10. ASSUME NEW s \in Syncs, Retry(s) PROVE UntroubledIsRight'
  <2>1. pc'[s] = "start"
    BY <1>10 DEF Retry, Goto, TypeOK
  <2> QED BY <1>1, <1>10, <2>1 DEF Right
<1>11. ASSUME NEW u \in uploads, Name(u) \/ Write(u) PROVE UntroubledIsRight'
  <2>0. UNCHANGED <<pc, tries, listed, next, read, acked, verified>> /\ troubled \subseteq troubled'
    BY <1>11 DEF Name, Write, syncVars
  <2> SUFFICES ASSUME NEW t \in Syncs, t \notin troubled' PROVE Right(t)'
    BY DEF UntroubledIsRight
  <2>1. Right(t)
    BY <2>0 DEF UntroubledIsRight
  <2>2. ASSUME NEW p \in Paths, WroteTo(t, p) PROVE node'[p] = node[p]
    <3>1. CASE Name(u)
      BY <3>1 DEF Name
    <3>2. CASE Write(u)
      <4>1. p = u.path => node[p] = u.version
        BY <2>2, <3>2 DEF Write
      <4> QED BY <3>2, <4>1 DEF Write, TypeOK
    <3> QED BY <1>11, <3>1, <3>2
  <2>3. AckedFiles(t)' = AckedFiles(t)
    BY <2>0 DEF AckedFiles
  <2>4. ASSUME NEW f \in AckedFiles(t) PROVE node'[acked[t][f]] = node[acked[t][f]]
    <3>1. f \in listed[t] /\ f \in Files /\ acked[t][f] \in Paths
      BY <1>0, <2>4 DEF AckedFiles, TypeOK
    <3>2. WroteTo(t, acked[t][f])
      BY <3>1 DEF WroteTo
    <3> QED BY <2>2, <3>1, <3>2
  <2>5. ASSUME pc[t] = "uploading", NEW w \in Awaited(t)', w.at = "written"
        PROVE  node'[w.path] = w.version
    <3>1. w \in uploads'
      BY DEF Awaited
    <3>2. PICK v \in uploads :
            /\ w.sync = v.sync /\ w.try = v.try /\ w.file = v.file /\ w.version = v.version
            /\ w = v \/ w.at # "written" \/ (Write(u) /\ v = u /\ w.path = u.path)
      BY <1>11, <3>1, NodeKeeps
    <3>3. v \in Awaited(t)
      BY <2>0, <3>2 DEF Awaited
    <3>4. CASE w = v
      <4>1. v.path \in Paths /\ WroteTo(t, v.path)
        BY <2>5, <3>3, <3>4 DEF WroteTo, TypeOK
      <4>2. node[v.path] = v.version
        BY <2>1, <2>5, <3>3, <3>4 DEF Right
      <4> QED BY <2>2, <3>4, <4>1, <4>2
    <3>5. CASE Write(u) /\ v = u /\ w.path = u.path
      <4>1. Write(u)
        BY <3>5
      <4>2. u.path \in Paths
        BY <4>1 DEF Write, TypeOK
      <4> QED BY <3>2, <3>5, <4>1, <4>2 DEF Write, TypeOK
    <3> QED BY <2>5, <3>2, <3>4, <3>5
  <2> QED BY <2>0, <2>1, <2>3, <2>4, <2>5 DEF Right
<1>12. ASSUME NEW f \in Changing, Supersede(f) PROVE UntroubledIsRight'
  BY <1>12 DEF Supersede, syncVars, UntroubledIsRight, Right, AckedFiles, Awaited
<1>13. CASE UNCHANGED vars
  BY <1>13 DEF vars, syncVars, UntroubledIsRight, Right, AckedFiles, Awaited
<1> QED BY <1>2, <1>3, <1>4, <1>5, <1>6, <1>7, <1>8, <1>9, <1>10, <1>11, <1>12, <1>13, AskSplits
        DEF Next, SyncStep
LEMMA NamedStep == TypeOK /\ NamedIsFree /\ [Next]_vars => NamedIsFree'
<1> SUFFICES ASSUME TypeOK, NamedIsFree, [Next]_vars PROVE NamedIsFree'
  OBVIOUS
<1>1. ASSUME NEW s \in Syncs, SyncStep(s) \/ Retry(s) PROVE NamedIsFree'
  <2>1. UNCHANGED node
    BY <1>1 DEF SyncStep, List, Ask, Acknowledged, Unanswered, Uploaded, ReadBack, Report, Retry
  <2>2. \A u \in uploads' : u \in uploads \/ u.at = "asked"
    BY <1>1 DEF SyncStep, List, Ask, Acknowledged, Unanswered, Uploaded, ReadBack, Report,
                Retry, Upload
  <2> QED BY <2>1, <2>2 DEF NamedIsFree, Free
<1>2. ASSUME NEW u \in uploads, Name(u) PROVE NamedIsFree'
  <2>1. PICK n \in 0..MaxCopies :
          /\ u.sync \in Overwrites \/ Free(<<u.file, n>>)
          /\ uploads' = (uploads \ {u}) \cup {[u EXCEPT !.at = "named", !.path = <<u.file, n>>]}
    BY <1>2 DEF Name
  <2> DEFINE w == [u EXCEPT !.at = "named", !.path = <<u.file, n>>]
  <2>2. w.sync = u.sync /\ w.path = <<u.file, n>>
    BY DEF TypeOK, Requests
  <2>3. UNCHANGED node
    BY <1>2 DEF Name
  <2>4. w.sync \notin Overwrites => Free(w.path)
    BY <2>1, <2>2
  <2> QED BY <2>1, <2>3, <2>4 DEF NamedIsFree, Free
<1>3. ASSUME NEW u \in uploads, Write(u) PROVE NamedIsFree'
  <2> SUFFICES ASSUME NEW w \in uploads', w.at = "named", w.sync \notin Overwrites
               PROVE  Free(w.path)'
    BY DEF NamedIsFree
  <2>1. \A v \in uploads, x \in {"beaten", "written"} : [v EXCEPT !.at = x].at = x
    BY DEF TypeOK, Requests
  <2>2. w \in uploads \ {u} /\ ~ Beaten(w, u)
    BY <1>3, <2>1 DEF Write
  <2>3. w.path # u.path
    BY <2>2 DEF Beaten
  <2>4. w.path \in Paths /\ Free(w.path)
    BY <2>2 DEF NamedIsFree, TypeOK
  <2> QED BY <1>3, <2>3, <2>4 DEF Write, Free, TypeOK
<1>4. ASSUME NEW f \in Changing, Supersede(f) PROVE NamedIsFree'
  BY <1>4 DEF Supersede, NamedIsFree, Free
<1>5. CASE UNCHANGED vars
  BY <1>5 DEF vars, NamedIsFree, Free
<1> QED BY <1>1, <1>2, <1>3, <1>4, <1>5 DEF Next

LEMMA InitInv == Init => Inv
<1> SUFFICES ASSUME Init PROVE Inv
  OBVIOUS
<1>1. NoFile \in 0..NoFile /\ 0 \in 0..NoFile /\ 1 \in 1..(NFiles + 1) /\ 0 # NoFile
  BY SyncAssumption DEF NoFile
<1>2. TypeOK
  <2>1. archive \in [Files -> 0..NoFile] /\ node \in [Paths -> 0..NoFile]
    BY <1>1 DEF Init
  <2>2. /\ next \in [Syncs -> 1..(NFiles + 1)]
        /\ read \in [Syncs -> [Files -> 0..NoFile]]
        /\ acked \in [Syncs -> [Files -> Paths \cup {NoPath}]]
    BY <1>1 DEF Init
  <2> QED BY <2>1, <2>2 DEF Init, TypeOK
<1>3. CursorInLoop /\ VerifiedIsThere /\ NamedIsFree /\ TriesInOrder /\ UntroubledIsRight
  BY DEF Init, CursorInLoop, VerifiedIsThere, NamedIsFree, TriesInOrder, InOrder, AckedBehind,
         UntroubledIsRight, Right
<1> QED BY <1>2, <1>3 DEF Inv

-----------------------------------------------------------------------------
(* The theorems *)

(* The invariant is inductive, and holds with or without fairness.           *)
THEOREM InvHolds == Spec => []Inv
<1>1. Inv /\ [Next]_vars => Inv'
  BY TypeStep, CursorStep, VerifiedStep, NamedStep, TriesStep, RightStep DEF Inv
<1> QED BY InitInv, <1>1, PTL DEF Spec

(* An ok report means every listed PDF is at the path its entry names, with  *)
(* the bytes the sync read, or was written over after it was read back.      *)
THEOREM OkIsCopied == Spec => []OkMeansCopied
<1>1. Inv => OkMeansCopied
  BY DEF Inv, VerifiedIsThere, OkMeansCopied
<1> QED BY <1>1, InvHolds, PTL

(* Whatever the node, late uploads and the archive do, a sync reports a      *)
(* failure only for a missing route, a call of its own that failed or a file *)
(* of its own that another upload wrote over before it was read back.        *)
THEOREM FailuresHaveReasons == Spec => []FailsForAReason
<1>1. Inv => FailsForAReason
  BY DEF Inv, UntroubledIsRight, Right, FailsForAReason, TypeOK
<1> QED BY <1>1, InvHolds, PTL

(* A file on the node is replaced only as an overwriting sync asked, or by   *)
(* an upload whose name was taken after it had been chosen as free.          *)
THEOREM ReplacedAsAsked == Spec => NothingReplacedUnasked
<1>1. ASSUME Inv, [Next]_vars
      PROVE  [\A p \in Paths : (~ Free(p) /\ node'[p] # node[p]) =>
                \E u \in uploads : u.path = p /\ (u.sync \in Overwrites \/ u.at = "beaten")]_vars
  <2> SUFFICES ASSUME NEW p \in Paths, ~ Free(p), node'[p] # node[p]
               PROVE  \E u \in uploads :
                          u.path = p /\ (u.sync \in Overwrites \/ u.at = "beaten")
    OBVIOUS
  <2>1. PICK u \in uploads : Write(u)
    <3>1. node' # node
      OBVIOUS
    <3>2. ASSUME NEW s \in Syncs, SyncStep(s) \/ Retry(s) PROVE UNCHANGED node
      BY <3>2 DEF SyncStep, List, Ask, Acknowledged, Unanswered, Uploaded, ReadBack, Report,
                  Retry
    <3>3. ASSUME NEW u \in uploads, Name(u) PROVE UNCHANGED node
      BY <3>3 DEF Name
    <3>4. ASSUME NEW f \in Changing, Supersede(f) PROVE UNCHANGED node
      BY <3>4 DEF Supersede
    <3>5. UNCHANGED vars => UNCHANGED node
      BY DEF vars
    <3> QED BY <1>1, <3>1, <3>2, <3>3, <3>4, <3>5 DEF Next
  <2>2. u.path = p
    BY <2>1 DEF Write, Inv, TypeOK
  <2>3. u.at = "named" => u.sync \in Overwrites
    BY <1>1, <2>2 DEF Inv, NamedIsFree
  <2> QED BY <2>1, <2>2, <2>3 DEF Write
<1> QED BY <1>1, InvHolds, PTL DEF Spec, NothingReplacedUnasked

-----------------------------------------------------------------------------
(* Termination: what a sync still has to do. *)

(* The steps a sync has left in its try, at a place and a file.              *)
Ahead(there, f) ==
    IF there = "start" THEN 3 * NFiles + 6
    ELSE IF there = "upload" THEN 2 * (NFiles + 1 - f) + NFiles + 3
    ELSE IF there = "uploading" THEN 2 * (NFiles + 1 - f) + NFiles + 2
    ELSE IF there = "verify" THEN (NFiles + 1 - f) + 1
    ELSE 0

(* With those of the second try.                                             *)
ToDo(s) == (IF tries[s] = 0 THEN 3 * NFiles + 7 ELSE 0) + Ahead(pc[s], next[s])

LEMMA AheadIsNat ==
    \A there \in {"start", "upload", "uploading", "verify", "ok", "failed", "raised"},
       f \in 1..(NFiles + 1) : Ahead(there, f) \in 0..(3 * NFiles + 6)
BY SyncAssumption DEF Ahead

LEMMA ToDoIsNat == TypeOK => \A s \in Syncs : ToDo(s) \in Nat
<1> SUFFICES ASSUME TypeOK, NEW s \in Syncs PROVE ToDo(s) \in Nat
  OBVIOUS
<1>1. Ahead(pc[s], next[s]) \in 0..(3 * NFiles + 6)
  BY AheadIsNat DEF TypeOK
<1> QED BY <1>1, SyncAssumption DEF ToDo

(* Where a step of a sync leads it; the other syncs stay where they are.     *)
LEMMA SyncMoves ==
    ASSUME TypeOK, CursorInLoop, NEW s \in Syncs, SyncStep(s)
    PROVE  /\ tries' = tries
           /\ \A t \in Syncs : t # s => pc'[t] = pc[t] /\ next'[t] = next[t]
           /\ \/ pc[s] = "start" /\ pc'[s] \in {"upload", "failed", "raised"}
              \/ pc[s] = "upload" /\ pc'[s] = "uploading" /\ next'[s] = next[s]
              \/ pc[s] = "upload" /\ pc'[s] \in {"verify", "raised"}
              \/ pc[s] = "uploading" /\ pc'[s] = "upload" /\ next'[s] > next[s]
              \/ pc[s] = "verify" /\ pc'[s] = "verify" /\ next'[s] > next[s]
              \/ pc[s] = "verify" /\ pc'[s] \in {"ok", "failed", "raised"}
<1>0. /\ next[s] \in 1..(NFiles + 1)
      /\ listed[s] \in SUBSET Files /\ AckedFiles(s) \in SUBSET Files
  BY DEF TypeOK, AckedFiles
<1>1. CASE List(s)
  BY <1>1 DEF List, Forget, Goto, EndAs, TypeOK
<1>2. CASE Ask(s)
  BY <1>2 DEF Ask, Forget, Goto, TypeOK
<1>3. CASE Acknowledged(s) \/ Unanswered(s)
  <2>1. /\ pc' = [pc EXCEPT ![s] = "upload"] /\ pc[s] = "uploading" /\ tries' = tries
        /\ next' = [next EXCEPT ![s] = Following(next[s] + 1, listed[s])]
    BY <1>3 DEF Acknowledged, Unanswered, Goto
  <2>2. next[s] \in Files
    BY <1>0, <2>1 DEF CursorInLoop
  <2>3. Following(next[s] + 1, listed[s]) \in (next[s] + 1)..(NFiles + 1)
    BY <1>0, <2>2, FollowingAdvances
  <2>4. Following(next[s] + 1, listed[s]) > next[s]
    BY <1>0, <2>3, SyncAssumption
  <2> QED BY <2>1, <2>4 DEF TypeOK
<1>4. CASE Uploaded(s)
  BY <1>4 DEF Uploaded, Goto, TypeOK
<1>5. CASE ReadBack(s)
  <2>1. /\ pc[s] = "verify" /\ pc' = pc /\ tries' = tries /\ next[s] \in Files
        /\ next' = [next EXCEPT ![s] = Following(next[s] + 1, AckedFiles(s))]
    BY <1>5 DEF ReadBack
  <2>2. Following(next[s] + 1, AckedFiles(s)) \in (next[s] + 1)..(NFiles + 1)
    BY <1>0, <2>1, FollowingAdvances
  <2>3. Following(next[s] + 1, AckedFiles(s)) > next[s]
    BY <1>0, <2>2, SyncAssumption
  <2> QED BY <2>1, <2>3 DEF TypeOK
<1>6. CASE Report(s)
  BY <1>6 DEF Report, Forget, Goto, EndAs, TypeOK
<1> QED BY <1>1, <1>2, <1>3, <1>4, <1>5, <1>6 DEF SyncStep

(* Each of those leads on.                                                   *)
LEMMA AheadShrinks ==
    ASSUME NEW from, NEW to, NEW f \in 1..(NFiles + 1), NEW g \in 1..(NFiles + 1),
           \/ from = "start" /\ to \in {"upload", "failed", "raised"}
           \/ from = "upload" /\ to = "uploading" /\ g = f
           \/ from = "upload" /\ to \in {"verify", "raised"}
           \/ from = "uploading" /\ to = "upload" /\ g > f
           \/ from = "verify" /\ to = "verify" /\ g > f
           \/ from = "verify" /\ to \in {"ok", "failed", "raised"}
    PROVE  Ahead(to, g) < Ahead(from, f)
<1>0. NFiles \in Nat
  BY SyncAssumption
<1>1. CASE from = "start" /\ to \in {"upload", "failed", "raised"}
  BY <1>0, <1>1 DEF Ahead
<1>2. CASE from = "upload" /\ to = "uploading" /\ g = f
  BY <1>0, <1>2 DEF Ahead
<1>3. CASE from = "upload" /\ to \in {"verify", "raised"}
  BY <1>0, <1>3 DEF Ahead
<1>4. CASE from = "uploading" /\ to = "upload" /\ g > f
  BY <1>0, <1>4 DEF Ahead
<1>5. CASE from = "verify" /\ to = "verify" /\ g > f
  BY <1>0, <1>5 DEF Ahead
<1>6. CASE from = "verify" /\ to \in {"ok", "failed", "raised"}
  BY <1>0, <1>6 DEF Ahead
<1> QED BY <1>1, <1>2, <1>3, <1>4, <1>5, <1>6

(* A step of the sync itself, or the retry that starts it over.              *)
LEMMA SyncShrinks ==
    ASSUME TypeOK, TypeOK', CursorInLoop, NEW s \in Syncs, SyncStep(s) \/ Retry(s)
    PROVE  ToDo(s)' < ToDo(s) /\ \A t \in Syncs : t # s => ToDo(t)' = ToDo(t)
<1>0. /\ next[s] \in 1..(NFiles + 1) /\ next'[s] \in 1..(NFiles + 1) /\ NFiles \in Nat
      /\ Ahead(pc[s], next[s]) \in 0..(3 * NFiles + 6)
      /\ Ahead(pc'[s], next'[s]) \in 0..(3 * NFiles + 6)
  BY AheadIsNat, SyncAssumption DEF TypeOK
<1>1. CASE SyncStep(s)
  <2>1. tries' = tries /\ \A t \in Syncs : t # s => pc'[t] = pc[t] /\ next'[t] = next[t]
    BY <1>1, SyncMoves
  <2>2. Ahead(pc'[s], next'[s]) < Ahead(pc[s], next[s])
    <3>1. \/ pc[s] = "start" /\ pc'[s] \in {"upload", "failed", "raised"}
          \/ pc[s] = "upload" /\ pc'[s] = "uploading" /\ next'[s] = next[s]
          \/ pc[s] = "upload" /\ pc'[s] \in {"verify", "raised"}
          \/ pc[s] = "uploading" /\ pc'[s] = "upload" /\ next'[s] > next[s]
          \/ pc[s] = "verify" /\ pc'[s] = "verify" /\ next'[s] > next[s]
          \/ pc[s] = "verify" /\ pc'[s] \in {"ok", "failed", "raised"}
      BY <1>1, SyncMoves
    <3> QED BY <1>0, <3>1, AheadShrinks
  <2> QED BY <1>0, <2>1, <2>2 DEF ToDo
<1>2. CASE Retry(s)
  <2>1. /\ tries[s] = 0 /\ tries'[s] = 1 /\ next' = next
        /\ pc[s] \in {"failed", "raised"} /\ pc'[s] = "start"
        /\ \A t \in Syncs : t # s => pc'[t] = pc[t] /\ tries'[t] = tries[t]
    BY <1>2 DEF Retry, Goto, TypeOK
  <2>2. ToDo(s) = 3 * NFiles + 7 + Ahead(pc[s], next[s])
    BY <2>1 DEF ToDo
  <2>3. ToDo(s)' = 0 + Ahead(pc'[s], next'[s])
    BY <2>1 DEF ToDo
  <2>4. ToDo(s)' < ToDo(s)
    BY <1>0, <2>2, <2>3
  <2> QED BY <2>1, <2>4 DEF ToDo
<1> QED BY <1>1, <1>2

(* The safety part of SyncsEnd: whatever the node, late uploads and the      *)
(* archive do, every step of a sync lowers a number that nothing else        *)
(* raises, so that with its one retry a sync of n files makes at most        *)
(* 6 * n + 13 steps.                                                         *)
THEOREM SyncsGetOn ==
    Spec => /\ [](\A s \in Syncs : ToDo(s) \in Nat)
            /\ [][\A s \in Syncs :
                    /\ SyncStep(s) \/ Retry(s) => ToDo(s)' < ToDo(s)
                    /\ ToDo(s)' <= ToDo(s)]_vars
<1>1. TypeOK => \A s \in Syncs : ToDo(s) \in Nat
  BY ToDoIsNat
<1>2. Inv /\ Inv' /\ [Next]_vars =>
        [\A s \in Syncs : /\ SyncStep(s) \/ Retry(s) => ToDo(s)' < ToDo(s)
                          /\ ToDo(s)' <= ToDo(s)]_vars
  <2> SUFFICES ASSUME TypeOK, TypeOK', CursorInLoop, Next, NEW s \in Syncs
               PROVE  /\ SyncStep(s) \/ Retry(s) => ToDo(s)' < ToDo(s)
                      /\ ToDo(s)' <= ToDo(s)
    BY DEF Inv
  <2>1. ToDo(s) \in Nat /\ ToDo(s)' \in Nat
    <3>1. Ahead(pc'[s], next'[s]) \in 0..(3 * NFiles + 6)
      BY AheadIsNat DEF TypeOK
    <3> QED BY <3>1, ToDoIsNat, SyncAssumption DEF ToDo
  <2>2. SyncStep(s) \/ Retry(s) => ToDo(s)' < ToDo(s)
    BY SyncShrinks
  <2>3. ToDo(s)' <= ToDo(s)
    <3>1. ASSUME NEW t \in Syncs, SyncStep(t) \/ Retry(t) PROVE ToDo(s)' <= ToDo(s)
      <4>1. ToDo(t)' < ToDo(t) /\ (t # s => ToDo(s)' = ToDo(s))
        BY <3>1, SyncShrinks
      <4> QED BY <2>1, <4>1
    <3>2. ASSUME UNCHANGED syncVars PROVE ToDo(s)' <= ToDo(s)
      <4>1. ToDo(s)' = ToDo(s)
        BY <3>2 DEF syncVars, ToDo
      <4> QED BY <2>1, <4>1
    <3>3. ASSUME NEW u \in uploads, Name(u) \/ Write(u) PROVE UNCHANGED syncVars
      BY <3>3 DEF Name, Write
    <3>4. ASSUME NEW f \in Changing, Supersede(f) PROVE UNCHANGED syncVars
      BY <3>4 DEF Supersede
    <3> QED BY <3>1, <3>2, <3>3, <3>4 DEF Next
  <2> QED BY <2>2, <2>3
<1>3. Inv => TypeOK
  BY DEF Inv
<1> QED BY <1>1, <1>2, <1>3, InvHolds, PTL DEF Spec

-----------------------------------------------------------------------------
(* The archive. *)

(* Files that are in the archive, or were and are known to be lost.          *)
Accounted == pdfs \cup removed \cup spoiled

(* A request between the lock and its end holds the lock.                    *)
LockIsHeld == \A s \in Scans : at[s] \in Locked => lock = s

(* The candidates of a series wait for it, each in one series.               *)
CandidatesWait ==
    \A p \in Series : \A s \in series[p] :
        at[s] = "candidate" /\ \A q \in Series : s \in series[q] => q = p

(* A frame has a record or a document only through its own request.          *)
RecordsFollowRequests ==
    /\ \A r \in index : at[r.scan] \in {"log", "done"}
    /\ \A t \in Accounted : at[t] \in {"sidecar", "save", "log", "done"}

OneRecordPerId == \A q, r \in index : Ident[q.scan] = Ident[r.scan] => q = r

(* What the holder of the lock took from the index stays true of the index:  *)
(* its match, if any, is a record, and what it will save is the rest, or     *)
(* nothing when the index could not be read.                                 *)
HolderMatches ==
    \A s \in Scans :
        /\ at[s] \in {"enrich", "replace"} \cup Writing =>
              /\ held \subseteq index
              /\ \A r \in held : Same(r.scan, s) /\ \A q \in held : q = r
        /\ at[s] \in {"enrich", "replace"} => held # {}
        /\ at[s] \in {"enrich", "replace"} => loaded = index
        /\ at[s] \in Writing =>
              \/ loaded = {} /\ held = {}
              \/ /\ loaded = {q \in index : \A r \in held : Ident[q.scan] # Ident[r.scan]}
                 /\ held = {} => \A r \in index : ~ Same(r.scan, s)

(* What the holder has written, and will write.                              *)
HolderWrites ==
    \A s \in Scans :
        /\ at[s] \in {"sidecar", "save"} =>
              s \in Accounted /\ s \in staged \cup unkept \cup spoiled
        /\ at[s] \in Writing => Known[s] \subseteq meta /\ \A r \in held : r.meta \subseteq meta

(* A frame that is about to be deleted has no record and gets none, or is one *)
(* that pruning is known to have missed.                                     *)
DoomedAreOver ==
    /\ pruning = "idle" => doomed = {}
    /\ \A s \in doomed :
          \/ pruning = "series" /\ s \in late
          \/ pruning = "unlink" /\ s \in unkept
          \/ at[s] = "done" /\ \A r \in index : r.scan # s

(* The steps of a pruning. *)
Pruning == PruneIndex \/ PruneSeries \/ (\E s \in Scans : PruneFile(s)) \/ PruneEnd

Stages == Busy \cup {"new", "candidate", "done"}

LEMMA ArchiveInitType == ArchiveInit => ArchiveTypeOK
  BY ScansAssumption DEF ArchiveInit, ArchiveTypeOK

(* A step that only moves requests on.                                       *)
LEMMA MovesKeepType ==
    ASSUME ArchiveTypeOK, at' \in [Scans -> Stages],
           staged' \subseteq Scans, series' \in [Series -> SUBSET Scans],
           UNCHANGED <<index, files, log, work, prune, history>>,
           lock' \in Scans \cup {NoHolder}
    PROVE  ArchiveTypeOK'
  BY DEF ArchiveTypeOK, Stages, files, work, prune, history

LEMMA ProceedStays ==
    ASSUME ArchiveTypeOK, NEW s \in Scans, NEW there \in Stages, Proceed(s, there)
    PROVE  /\ at' \in [Scans -> Stages]
           /\ at'[s] = there
           /\ \A t \in Scans : t # s => at'[t] = at[t]
  BY DEF ArchiveTypeOK, Stages, Proceed

LEMMA FieldsOfScans == \A s \in Scans : Known[s] \subseteq Fields
  BY DEF Fields

LEMMA BrokenScans == ArchiveTypeOK => \A s \in Scans : Broken(s) \subseteq Scans
  BY DEF ArchiveTypeOK, Broken, Record

LEMMA ArchiveTypeStep == ArchiveTypeOK /\ [ArchiveNext]_archiveVars => ArchiveTypeOK'
<1> SUFFICES ASSUME ArchiveTypeOK, [ArchiveNext]_archiveVars PROVE ArchiveTypeOK'
  OBVIOUS
<1> USE DEF history, prune
<1>1. ASSUME NEW s \in Scans, Stage(s) \/ Reject(s) \/ Discard(s) PROVE ArchiveTypeOK'
  <2>1. at' \in [Scans -> Stages]
    BY <1>1, ProceedStays DEF Stage, Reject, Discard, Stages, Busy, Locked
  <2> QED
    BY <1>1, <2>1, MovesKeepType DEF Stage, Reject, Discard, ArchiveTypeOK
<1>2. ASSUME NEW s \in Scans, NEW p \in Series, Candidate(s, p) PROVE ArchiveTypeOK'
  <2>1. at' \in [Scans -> Stages]
    BY <1>2, ProceedStays DEF Candidate, Stages
  <2> QED
    BY <1>2, <2>1, MovesKeepType DEF Candidate, ArchiveTypeOK
<1>3. ASSUME NEW s \in Scans, NEW force, Capture(s, force) \/ Finish(s) PROVE ArchiveTypeOK'
  <2>1. at' \in [Scans -> Stages]
    BY <1>3, ProceedStays DEF Capture, Finish, Stages, Busy
  <2> QED
    BY <1>3, <2>1, MovesKeepType DEF Capture, Finish, ArchiveTypeOK
<1>4. ASSUME NEW p \in Series, NEW s \in Scans, NEW force, Take(p, s, force) PROVE ArchiveTypeOK'
  <2>1. at' \in [Scans -> Stages]
    BY <1>4 DEF Take, Stages, Busy, ArchiveTypeOK
  <2> QED
    BY <1>4, <2>1, MovesKeepType DEF Take, ArchiveTypeOK
<1>5. CASE Pruning
  <2>1. CASE PruneIndex
    <3>1. doomed' \subseteq Scans /\ late' \subseteq Scans
      BY <2>1 DEF PruneIndex, Indexed, ArchiveTypeOK, Record
    <3>2. pruning' = "series" /\ prunings' \in 0..MaxPrunings
      BY <2>1, ScansAssumption DEF PruneIndex, ArchiveTypeOK
    <3> QED
      BY <2>1, <3>1, <3>2 DEF PruneIndex, ArchiveTypeOK, files, work
  <2>2. CASE PruneSeries \/ PruneEnd \/ \E s \in Scans : PruneFile(s)
    BY <2>2 DEF PruneSeries, PruneFile, PruneEnd, ArchiveTypeOK, files, work
  <2> QED
    BY <1>5, <2>1, <2>2 DEF Pruning
<1>6. ASSUME NEW s \in Scans, Acquire(s) PROVE ArchiveTypeOK'
  <2>1. at' \in [Scans -> Stages]
    BY <1>6, ProceedStays DEF Acquire, Stages, Busy, Locked, Writing
  <2>2. loaded' \subseteq Record /\ held' \subseteq Record /\ meta' \subseteq Fields
    BY <1>6, FieldsOfScans DEF Acquire, Load, ArchiveTypeOK
  <2>3. Backfill(index) \subseteq {Ident[t] : t \in Scans}
    BY DEF Backfill, ArchiveTypeOK, Record
  <2>4. log' \subseteq log \cup Backfill(index)
    BY <1>6 DEF Acquire, Load, Backfill
  <2> QED
    BY <1>6, <2>1, <2>2, <2>3, <2>4 DEF Acquire, ArchiveTypeOK, Stages, files
<1>18. ASSUME NEW s \in Scans, FailToBegin(s) PROVE ArchiveTypeOK'
  <2>1. at' \in [Scans -> Stages]
    BY <1>18, ProceedStays DEF FailToBegin, Stages
  <2>2. Backfill(index) \subseteq {Ident[t] : t \in Scans}
    BY DEF Backfill, ArchiveTypeOK, Record
  <2> QED
    BY <1>18, <2>1, <2>2 DEF FailToBegin, ArchiveTypeOK, Stages, files, work
<1>7. ASSUME NEW s \in Scans, Enrich(s) PROVE ArchiveTypeOK'
  <2>1. at' \in [Scans -> Stages]
    BY <1>7, ProceedStays DEF Enrich, Stages, Busy, Locked
  <2>2. sidecar' \in [Scans -> SUBSET Fields] /\ index' \subseteq Record
    <3>1. PICK r \in held :
            IF FilledGaps(r.meta, Known[s]) = {} THEN UNCHANGED <<sidecar, index>>
            ELSE EnrichSidecar(r, FilledGaps(r.meta, Known[s])) /\ Save(loaded)
      BY <1>7 DEF Enrich
    <3>2. r.scan \in Scans /\ FilledGaps(r.meta, Known[s]) \subseteq Fields
      BY FieldsOfScans DEF ArchiveTypeOK, Record, FilledGaps
    <3>3. sidecar[r.scan] \cup FilledGaps(r.meta, Known[s]) \subseteq Fields
      BY <3>2 DEF ArchiveTypeOK
    <3> QED
      BY <3>1, <3>2, <3>3 DEF EnrichSidecar, Save, ArchiveTypeOK
  <2> QED
    BY <1>7, <2>1, <2>2 DEF Enrich, ArchiveTypeOK, Stages, work
<1>8. ASSUME NEW s \in Scans, Replace(s) PROVE ArchiveTypeOK'
  <2>1. at' \in [Scans -> Stages]
    BY <1>8, ProceedStays DEF Replace, Stages, Busy, Locked, Writing
  <2>2. /\ staged' \subseteq Scans /\ pdfs' \subseteq Scans
        /\ sidecar' \in [Scans -> SUBSET Fields]
        /\ loaded' \subseteq Record /\ meta' \subseteq Fields
    BY <1>8, FieldsOfScans DEF Replace, Merged, ArchiveTypeOK, Record
  <2> QED
    BY <1>8, <2>1, <2>2 DEF Replace, ArchiveTypeOK, Stages
<1>9. ASSUME NEW s \in Scans, WritePdf(s) PROVE ArchiveTypeOK'
  <2>1. at' \in [Scans -> Stages]
    BY <1>9, ProceedStays DEF WritePdf, Stages, Busy, Locked, Writing
  <2> QED
    BY <1>9, <2>1 DEF WritePdf, ArchiveTypeOK, Stages, work
<1>10. ASSUME NEW s \in Scans, WriteSidecar(s) PROVE ArchiveTypeOK'
  <2>1. at' \in [Scans -> Stages]
    BY <1>10, ProceedStays DEF WriteSidecar, Stages, Busy, Locked, Writing
  <2> QED
    BY <1>10, <2>1 DEF WriteSidecar, ArchiveTypeOK, Stages, work
<1>11. ASSUME NEW s \in Scans, SaveIndex(s) PROVE ArchiveTypeOK'
  <2>1. at' \in [Scans -> Stages]
    BY <1>11, ProceedStays DEF SaveIndex, Stages, Busy, Locked
  <2>2. index' \subseteq Record
    BY <1>11 DEF SaveIndex, Save, ArchiveTypeOK, Record
  <2>3. archived' \subseteq Scans
    BY <1>11 DEF SaveIndex, InSight, ArchiveTypeOK
  <2> QED
    BY <1>11, <2>1, <2>2, <2>3 DEF SaveIndex, ArchiveTypeOK, Stages, files, work
<1>12. ASSUME NEW s \in Scans, AppendLog(s) PROVE ArchiveTypeOK'
  <2>1. at' \in [Scans -> Stages]
    BY <1>12, ProceedStays DEF AppendLog, Stages
  <2> QED
    BY <1>12, <2>1 DEF AppendLog, Leave, ArchiveTypeOK, Stages, files
<1>13. ASSUME NEW s \in Scans, Fail(s) PROVE ArchiveTypeOK'
  <2>1. at' \in [Scans -> Stages]
    BY <1>13, ProceedStays DEF Fail, Stages
  <2> QED
    BY <1>13, <2>1, BrokenScans DEF Fail, Leave, ArchiveTypeOK, Stages, files
<1>14. CASE Reconcile
  BY <1>14 DEF Reconcile, Save, ArchiveTypeOK, files, work
<1>15. ASSUME NEW s \in Scans, UserRemoves(s) PROVE ArchiveTypeOK'
  BY <1>15 DEF UserRemoves, ArchiveTypeOK, work
<1>16. CASE Crash
  <2>1. at' \in [Scans -> Stages]
    BY <1>16 DEF Crash, Stages, ArchiveTypeOK
  <2>2. crashes' \in 0..MaxCrashes
    BY <1>16, ScansAssumption DEF Crash, ArchiveTypeOK
  <2> QED
    BY <1>16, <2>1, <2>2, BrokenScans DEF Crash, Leave, ArchiveTypeOK, Stages, files
<1>17. CASE UNCHANGED archiveVars
  BY <1>17 DEF archiveVars, ArchiveTypeOK
<1> QED
  BY <1>1, <1>2, <1>3, <1>4, <1>5, <1>6, <1>7, <1>8, <1>9, <1>10, <1>11, <1>12, <1>13,
     <1>14, <1>15, <1>16, <1>17, <1>18 DEF ArchiveNext, Request, Pruning

-----------------------------------------------------------------------------
(* One request moves, all others stay where they are: the form of most steps *)
(* of the archive.                                                           *)
Moves(s, from, to) ==
    /\ at[s] \in from /\ at'[s] \in to
    /\ \A t \in Scans : t # s => at'[t] = at[t]

LEMMA RequestMoves ==
    ASSUME ArchiveTypeOK, NEW s \in Scans
    PROVE  /\ Stage(s) => Moves(s, {"new"}, {"read"})
           /\ \A p \in Series : Candidate(s, p) => Moves(s, {"read"}, {"candidate"})
           /\ \A force \in BOOLEAN : Capture(s, force) => Moves(s, {"read"}, {"archive"})
           /\ Reject(s) => Moves(s, {"read"}, {"done"})
           /\ Finish(s) => Moves(s, {"taken"}, {"archive", "done"})
           /\ Acquire(s) => Moves(s, {"archive"}, {"enrich", "replace", "discard", "pdf"})
           /\ FailToBegin(s) => Moves(s, {"archive"}, {"done"})
           /\ Enrich(s) => Moves(s, {"enrich"}, {"discard"})
           /\ Discard(s) => Moves(s, {"discard"}, {"log"})
           /\ Replace(s) => Moves(s, {"replace"}, {"pdf"})
           /\ WritePdf(s) => Moves(s, {"pdf"}, {"sidecar"})
           /\ WriteSidecar(s) => Moves(s, {"sidecar"}, {"save"})
           /\ SaveIndex(s) => Moves(s, {"save"}, {"log"})
           /\ AppendLog(s) => Moves(s, {"log"}, {"done"})
           /\ Fail(s) => Moves(s, Writing \cup {"enrich", "log"}, {"done"})
<1> USE DEF Moves, Proceed, ArchiveTypeOK
<1>1. /\ Stage(s) => Moves(s, {"new"}, {"read"})
      /\ \A p \in Series : Candidate(s, p) => Moves(s, {"read"}, {"candidate"})
      /\ \A force \in BOOLEAN : Capture(s, force) => Moves(s, {"read"}, {"archive"})
      /\ Reject(s) => Moves(s, {"read"}, {"done"})
      /\ Finish(s) => Moves(s, {"taken"}, {"archive", "done"})
  BY DEF Stage, Candidate, Capture, Reject, Finish
<1>2. /\ Acquire(s) => Moves(s, {"archive"}, {"enrich", "replace", "discard", "pdf"})
      /\ FailToBegin(s) => Moves(s, {"archive"}, {"done"})
      /\ Enrich(s) => Moves(s, {"enrich"}, {"discard"})
      /\ Discard(s) => Moves(s, {"discard"}, {"log"})
      /\ Replace(s) => Moves(s, {"replace"}, {"pdf"})
  BY DEF Acquire, FailToBegin, Enrich, Discard, Replace
<1>3. /\ WritePdf(s) => Moves(s, {"pdf"}, {"sidecar"})
      /\ WriteSidecar(s) => Moves(s, {"sidecar"}, {"save"})
      /\ SaveIndex(s) => Moves(s, {"save"}, {"log"})
      /\ AppendLog(s) => Moves(s, {"log"}, {"done"})
      /\ Fail(s) => Moves(s, Writing \cup {"enrich", "log"}, {"done"})
  BY DEF WritePdf, WriteSidecar, SaveIndex, AppendLog, Fail
<1> QED
  BY <1>1, <1>2, <1>3

(* Two requests never hold the lock at once.                                 *)
LEMMA OneHolder ==
    ASSUME LockIsHeld, NEW s \in Scans, at[s] \in Locked
    PROVE  lock = s /\ \A t \in Scans : t # s => at[t] \notin Locked
  BY DEF LockIsHeld

LEMMA LockFree ==
    ASSUME LockIsHeld, lock = NoHolder PROVE \A s \in Scans : at[s] \notin Locked
  BY ScansAssumption DEF LockIsHeld

LEMMA LockStep ==
    ASSUME ArchiveTypeOK, LockIsHeld, CandidatesWait, [ArchiveNext]_archiveVars
    PROVE  LockIsHeld'
<1> USE DEF Locked, Writing, LockIsHeld
<1>1. ASSUME NEW s \in Scans, Stage(s) \/ Reject(s) \/ Finish(s) \/ FailToBegin(s)
      PROVE  LockIsHeld'
  BY <1>1, RequestMoves DEF Stage, Reject, Finish, FailToBegin, Moves
<1>2. ASSUME NEW s \in Scans, NEW p \in Series, Candidate(s, p) PROVE LockIsHeld'
  BY <1>2, RequestMoves DEF Candidate, Moves
<1>3. ASSUME NEW s \in Scans, NEW force \in BOOLEAN, Capture(s, force) PROVE LockIsHeld'
  BY <1>3, RequestMoves DEF Capture, Moves
<1>4. ASSUME NEW p \in Series, NEW s \in Scans, NEW force \in BOOLEAN, Take(p, s, force)
      PROVE  LockIsHeld'
  BY <1>4 DEF Take, CandidatesWait
<1>5. CASE Pruning \/ Reconcile
  BY <1>5 DEF Pruning, PruneIndex, PruneSeries, PruneFile, PruneEnd, Reconcile
<1>6. ASSUME NEW s \in Scans, Acquire(s) PROVE LockIsHeld'
  BY <1>6, LockFree, RequestMoves DEF Acquire, Moves
<1>7. ASSUME NEW s \in Scans, Enrich(s) \/ Discard(s) \/ Replace(s) PROVE LockIsHeld'
  BY <1>7, RequestMoves DEF Enrich, Discard, Replace, Moves
<1>8. ASSUME NEW s \in Scans, WritePdf(s) \/ WriteSidecar(s) \/ SaveIndex(s) PROVE LockIsHeld'
  BY <1>8, RequestMoves DEF WritePdf, WriteSidecar, SaveIndex, Moves
<1>9. ASSUME NEW s \in Scans, AppendLog(s) \/ Fail(s) PROVE LockIsHeld'
  BY <1>9, RequestMoves, OneHolder DEF AppendLog, Fail, Leave, Moves
<1>10. ASSUME NEW s \in Scans, UserRemoves(s) PROVE LockIsHeld'
  BY <1>10 DEF UserRemoves
<1>11. CASE Crash
  BY <1>11 DEF Crash
<1>12. CASE UNCHANGED archiveVars
  BY <1>12 DEF archiveVars
<1> QED
  BY <1>1, <1>2, <1>3, <1>4, <1>5, <1>6, <1>7, <1>8, <1>9, <1>10, <1>11, <1>12
     DEF ArchiveNext, Request, Pruning

LEMMA WaitStep ==
    ASSUME ArchiveTypeOK, CandidatesWait, [ArchiveNext]_archiveVars PROVE CandidatesWait'
<1> USE DEF CandidatesWait, Writing
<1>1. ASSUME NEW s \in Scans, at[s] # "candidate", series' = series,
             \A t \in Scans : t # s => at'[t] = at[t]
      PROVE  CandidatesWait'
  BY <1>1 DEF ArchiveTypeOK
<1>2. ASSUME NEW s \in Scans, Stage(s) \/ Reject(s) \/ Finish(s) \/ FailToBegin(s)
      PROVE  CandidatesWait'
  <2>1. at[s] # "candidate" /\ series' = series
    BY <1>2 DEF Stage, Reject, Finish, FailToBegin
  <2>2. \A t \in Scans : t # s => at'[t] = at[t]
    BY <1>2, RequestMoves DEF Moves
  <2> QED
    BY <1>1, <2>1, <2>2
<1>3. ASSUME NEW s \in Scans, NEW p \in Series, Candidate(s, p) PROVE CandidatesWait'
  <2>1. at[s] = "read" /\ at'[s] = "candidate" /\ \A t \in Scans : t # s => at'[t] = at[t]
    BY <1>3, RequestMoves DEF Moves
  <2>2. \A q \in Series : series'[q] = IF q = p THEN series[p] \cup {s} ELSE series[q]
    BY <1>3 DEF Candidate, ArchiveTypeOK
  <2>3. \A q \in Series : s \notin series[q] /\ series[q] \subseteq Scans
    BY <2>1 DEF ArchiveTypeOK
  <2>4. SUFFICES ASSUME NEW q \in Series, NEW t \in series'[q]
                 PROVE  at'[t] = "candidate" /\ \A o \in Series : t \in series'[o] => o = q
    OBVIOUS
  <2>5. CASE t = s
    BY <2>1, <2>2, <2>3, <2>5
  <2>6. CASE t # s
    BY <2>1, <2>2, <2>3, <2>6
  <2> QED
    BY <2>5, <2>6
<1>4. ASSUME NEW s \in Scans, NEW force \in BOOLEAN, Capture(s, force) PROVE CandidatesWait'
  BY <1>1, <1>4, RequestMoves DEF Capture, Moves
<1>5. ASSUME NEW p \in Series, NEW s \in Scans, NEW force \in BOOLEAN, Take(p, s, force)
      PROVE  CandidatesWait'
  <2>1. \A q \in Series : series'[q] = IF q = p THEN {} ELSE series[q]
    BY <1>5 DEF Take, ArchiveTypeOK
  <2>2. \A t \in Scans : t \notin series[p] => at'[t] = at[t]
    BY <1>5 DEF Take
  <2> QED
    BY <2>1, <2>2 DEF ArchiveTypeOK
<1>6. CASE Pruning \/ Reconcile
  BY <1>6 DEF Pruning, PruneIndex, PruneSeries, PruneFile, PruneEnd, Reconcile
<1>7. ASSUME NEW s \in Scans, Acquire(s) \/ Enrich(s) \/ Discard(s) \/ Replace(s)
      PROVE  CandidatesWait'
  BY <1>1, <1>7, RequestMoves DEF Acquire, Enrich, Discard, Replace, Moves
<1>8. ASSUME NEW s \in Scans, WritePdf(s) \/ WriteSidecar(s) \/ SaveIndex(s)
      PROVE  CandidatesWait'
  BY <1>1, <1>8, RequestMoves DEF WritePdf, WriteSidecar, SaveIndex, Moves
<1>9. ASSUME NEW s \in Scans, AppendLog(s) \/ Fail(s) PROVE CandidatesWait'
  BY <1>1, <1>9, RequestMoves DEF AppendLog, Fail, Moves
<1>10. ASSUME NEW s \in Scans, UserRemoves(s) PROVE CandidatesWait'
  BY <1>10 DEF UserRemoves
<1>11. CASE Crash
  BY <1>11 DEF Crash
<1>12. CASE UNCHANGED archiveVars
  BY <1>12 DEF archiveVars
<1> QED
  BY <1>2, <1>3, <1>4, <1>5, <1>6, <1>7, <1>8, <1>9, <1>10, <1>11, <1>12
     DEF ArchiveNext, Request, Pruning

-----------------------------------------------------------------------------
(* The index and the holder of the lock.                                     *)

ArchiveBase ==
    /\ ArchiveTypeOK /\ LockIsHeld /\ CandidatesWait
    /\ RecordsFollowRequests /\ OneRecordPerId /\ HolderMatches /\ HolderWrites
    /\ DoomedAreOver

(* What the holder will put in the index.                                    *)
Saved(s) == {r \in loaded : Ident[r.scan] # Ident[s]} \cup {[scan |-> s, meta |-> meta]}

LEMMA SavedRecords ==
    ASSUME ArchiveBase, NEW s \in Scans, at[s] = "save"
    PROVE  \A r \in Saved(s) :
               \/ r \in index /\ r \notin held /\ Ident[r.scan] # Ident[s]
               \/ r = [scan |-> s, meta |-> meta]
  BY DEF ArchiveBase, HolderMatches, Saved, Writing

LEMMA FollowStep ==
    ASSUME ArchiveBase, [ArchiveNext]_archiveVars PROVE RecordsFollowRequests'
<1> USE DEF RecordsFollowRequests, Accounted, history, files
<1>0. ArchiveTypeOK
  BY DEF ArchiveBase
(* A request that moves, to where a record may stand if it came from there.  *)
<1>1. ASSUME NEW s \in Scans, NEW from, NEW to, Moves(s, from, to),
             at[s] \in {"log", "done"} => at'[s] \in {"log", "done"},
             at[s] \in {"sidecar", "save", "log", "done"}
                 => at'[s] \in {"sidecar", "save", "log", "done"},
             \A r \in index' : r \in index \/ at'[r.scan] = "log",
             \A t \in Accounted' : t \in Accounted \/ at'[t] = "sidecar"
      PROVE  RecordsFollowRequests'
  <2>1. \A t \in Scans : at[t] \in {"log", "done"} => at'[t] \in {"log", "done"}
    BY <1>1 DEF Moves
  <2>2. \A t \in Scans : at[t] \in {"sidecar", "save", "log", "done"}
                            => at'[t] \in {"sidecar", "save", "log", "done"}
    BY <1>1 DEF Moves
  <2>3. \A r \in index : r.scan \in Scans
    BY <1>0 DEF ArchiveTypeOK, Record
  <2>4. \A t \in Accounted : t \in Scans
    BY <1>0 DEF ArchiveTypeOK
  <2>5. RecordsFollowRequests
    BY DEF ArchiveBase
  <2>6. \A r \in index' : at'[r.scan] \in {"log", "done"}
    BY <1>1, <2>1, <2>3, <2>5
  <2>7. \A t \in Accounted' : at'[t] \in {"sidecar", "save", "log", "done"}
    BY <1>1, <2>2, <2>4, <2>5
  <2> QED
    BY <2>6, <2>7
<1>2. ASSUME NEW s \in Scans, Stage(s) \/ Reject(s) \/ Finish(s) PROVE RecordsFollowRequests'
  <2>1. /\ at[s] \in {"new", "read", "taken"}
        /\ UNCHANGED <<index, pdfs, removed, spoiled>>
    BY <1>2 DEF Stage, Reject, Finish
  <2>2. \E from, to : Moves(s, from, to)
    BY <1>0, <1>2, RequestMoves
  <2> QED
    BY <1>1, <2>1, <2>2
<1>3. ASSUME NEW s \in Scans, NEW p \in Series, Candidate(s, p) PROVE RecordsFollowRequests'
  <2>1. at[s] = "read" /\ UNCHANGED <<index, pdfs, removed, spoiled>>
    BY <1>3 DEF Candidate
  <2> QED
    BY <1>0, <1>1, <1>3, <2>1, RequestMoves
<1>4. ASSUME NEW s \in Scans, NEW force \in BOOLEAN, Capture(s, force)
      PROVE  RecordsFollowRequests'
  <2>1. at[s] = "read" /\ UNCHANGED <<index, pdfs, removed, spoiled>>
    BY <1>4 DEF Capture
  <2> QED
    BY <1>0, <1>1, <1>4, <2>1, RequestMoves
<1>5. ASSUME NEW p \in Series, NEW s \in Scans, NEW force \in BOOLEAN, Take(p, s, force)
      PROVE  RecordsFollowRequests'
  <2>1. \A t \in Scans : at[t] # "candidate" => at'[t] = at[t]
    BY <1>5 DEF Take, ArchiveBase, CandidatesWait
  <2> QED
    BY <1>5, <2>1 DEF Take, ArchiveBase, ArchiveTypeOK, Record
<1>6. CASE Pruning
  BY <1>6 DEF Pruning, PruneIndex, PruneSeries, PruneFile, PruneEnd, ArchiveBase
<1>7. ASSUME NEW s \in Scans, Acquire(s) \/ Discard(s) \/ FailToBegin(s)
      PROVE  RecordsFollowRequests'
  <2>1. /\ at[s] \in {"archive", "discard"}
        /\ UNCHANGED <<index, pdfs, removed, spoiled>>
    BY <1>7 DEF Acquire, Discard, FailToBegin
  <2>2. \E from, to : Moves(s, from, to)
    BY <1>0, <1>7, RequestMoves
  <2> QED
    BY <1>1, <2>1, <2>2
<1>8. ASSUME NEW s \in Scans, Enrich(s) PROVE RecordsFollowRequests'
  <2>1. at[s] = "enrich" /\ index' = index /\ UNCHANGED <<pdfs, removed, spoiled>>
    BY <1>8 DEF Enrich, Save, ArchiveBase, HolderMatches
  <2> QED
    BY <1>0, <1>1, <1>8, <2>1, RequestMoves
<1>9. ASSUME NEW s \in Scans, Replace(s) PROVE RecordsFollowRequests'
  <2>1. /\ at[s] = "replace" /\ UNCHANGED <<index, removed, spoiled>>
        /\ pdfs' \subseteq pdfs
    BY <1>9 DEF Replace
  <2> QED
    BY <1>0, <1>1, <1>9, <2>1, RequestMoves
<1>10. ASSUME NEW s \in Scans, WritePdf(s) PROVE RecordsFollowRequests'
  <2>1. /\ at[s] = "pdf" /\ UNCHANGED <<index, removed, spoiled>>
        /\ pdfs' = pdfs \cup {s}
    BY <1>10 DEF WritePdf
  <2>2. Moves(s, {"pdf"}, {"sidecar"})
    BY <1>0, <1>10, RequestMoves
  <2>3. at'[s] = "sidecar"
    BY <2>2 DEF Moves
  <2> QED
    BY <1>1, <2>1, <2>2, <2>3
<1>11. ASSUME NEW s \in Scans, WriteSidecar(s) PROVE RecordsFollowRequests'
  <2>1. at[s] = "sidecar" /\ UNCHANGED <<index, pdfs, removed, spoiled>>
    BY <1>11 DEF WriteSidecar
  <2>2. Moves(s, {"sidecar"}, {"save"})
    BY <1>0, <1>11, RequestMoves
  <2>3. at'[s] = "save"
    BY <2>2 DEF Moves
  <2> QED
    BY <1>1, <2>1, <2>2, <2>3
<1>12. ASSUME NEW s \in Scans, SaveIndex(s) PROVE RecordsFollowRequests'
  <2>1. at[s] = "save" /\ index' = Saved(s) /\ UNCHANGED <<pdfs, removed, spoiled>>
    BY <1>12 DEF SaveIndex, Save, Saved
  <2>2. Moves(s, {"save"}, {"log"})
    BY <1>0, <1>12, RequestMoves
  <2>3. at'[s] = "log"
    BY <2>2 DEF Moves
  <2>4. \A r \in index' : r \in index \/ at'[r.scan] = "log"
    BY <2>1, <2>3, SavedRecords
  <2> QED
    BY <1>1, <2>1, <2>2, <2>3, <2>4
<1>13. ASSUME NEW s \in Scans, AppendLog(s) PROVE RecordsFollowRequests'
  <2>1. at[s] = "log" /\ UNCHANGED <<index, pdfs, removed, spoiled>>
    BY <1>13 DEF AppendLog
  <2>2. Moves(s, {"log"}, {"done"})
    BY <1>0, <1>13, RequestMoves
  <2>3. at'[s] = "done"
    BY <2>2 DEF Moves
  <2> QED
    BY <1>1, <2>1, <2>2, <2>3
(* What the holder has spoiled was the document of a record.                 *)
<1>14. ASSUME NEW s \in Scans, Fail(s) PROVE RecordsFollowRequests'
  <2>1. Moves(s, Writing \cup {"enrich", "log"}, {"done"})
    BY <1>0, <1>14, RequestMoves
  <2>2. at'[s] = "done" /\ \A t \in Scans : t # s => at'[t] = at[t]
    BY <2>1 DEF Moves
  <2>3. \A t \in Broken(s) : \E r \in index : t = r.scan
    BY DEF Broken, ArchiveBase, HolderMatches
  <2>4. UNCHANGED <<index, pdfs, removed>> /\ spoiled' = spoiled \cup Broken(s)
    BY <1>14 DEF Fail
  <2>5. RecordsFollowRequests /\ \A t \in Accounted : t \in Scans
    BY DEF ArchiveBase, ArchiveTypeOK
  <2>6. \A r \in index : r.scan \in Scans
    BY <1>0 DEF ArchiveTypeOK, Record
  <2> QED
    BY <2>2, <2>3, <2>4, <2>5, <2>6
<1>15. CASE Reconcile
  BY <1>15 DEF Reconcile, Save, ArchiveBase
<1>16. ASSUME NEW s \in Scans, UserRemoves(s) PROVE RecordsFollowRequests'
  BY <1>16 DEF UserRemoves, ArchiveBase
<1>17. CASE Crash
  <2>1. \A t \in Scans : at[t] # "new" => at'[t] = "done"
    BY <1>17 DEF Crash
  <2>2. \A s \in Scans : \A t \in Broken(s) : \E r \in index : t = r.scan
    BY DEF Broken, ArchiveBase, HolderMatches
  <2>3. \A r \in index : r.scan \in Scans
    BY <1>0 DEF ArchiveTypeOK, Record
  <2>4. RecordsFollowRequests /\ \A t \in Accounted : t \in Scans
    BY DEF ArchiveBase, ArchiveTypeOK
  <2>5. UNCHANGED <<index, pdfs, removed>> /\ spoiled' = spoiled \cup UNION {Broken(s) : s \in Scans}
    BY <1>17 DEF Crash
  <2> QED
    BY <2>1, <2>2, <2>3, <2>4, <2>5
<1>18. CASE UNCHANGED archiveVars
  BY <1>18 DEF archiveVars, ArchiveBase
<1> QED
  BY <1>2, <1>3, <1>4, <1>5, <1>6, <1>7, <1>8, <1>9, <1>10, <1>11, <1>12, <1>13, <1>14,
     <1>15, <1>16, <1>17, <1>18 DEF ArchiveNext, Request, Pruning

(* The index is only changed by the holder of the lock, as it saves, or by   *)
(* reconciliation while nobody holds it.                                     *)
LEMMA IndexSteps ==
    ASSUME ArchiveBase, [ArchiveNext]_archiveVars
    PROVE  \/ index' = index /\ UNCHANGED archived
           \/ \E s \in Scans : SaveIndex(s) /\ at[s] = "save" /\ index' = Saved(s)
           \/ Reconcile /\ index' \subseteq index
<1> USE DEF history, files
<1>1. ASSUME NEW s \in Scans, Enrich(s) PROVE index' = index /\ UNCHANGED archived
  BY <1>1 DEF Enrich, Save, ArchiveBase, HolderMatches
<1>2. ASSUME NEW s \in Scans, SaveIndex(s) PROVE at[s] = "save" /\ index' = Saved(s)
  BY <1>2 DEF SaveIndex, Save, Saved
<1>3. CASE Reconcile
  BY <1>3 DEF Reconcile, Save
<1>4. ASSUME NEW s \in Scans,
             \/ Stage(s) \/ Reject(s) \/ Finish(s) \/ Acquire(s) \/ FailToBegin(s)
             \/ Discard(s) \/ Replace(s)
      PROVE  index' = index /\ UNCHANGED archived
  BY <1>4 DEF Stage, Reject, Finish, Acquire, FailToBegin, Discard, Replace
<1>5. ASSUME NEW s \in Scans,
             WritePdf(s) \/ WriteSidecar(s) \/ AppendLog(s) \/ Fail(s) \/ UserRemoves(s)
      PROVE  index' = index /\ UNCHANGED archived
  BY <1>5 DEF WritePdf, WriteSidecar, AppendLog, Fail, UserRemoves
<1>6. ASSUME NEW s \in Scans, NEW p \in Series, NEW force \in BOOLEAN,
             Candidate(s, p) \/ Capture(s, force) \/ Take(p, s, force)
      PROVE  index' = index /\ UNCHANGED archived
  BY <1>6 DEF Candidate, Capture, Take
<1>7. CASE Pruning \/ Crash
  BY <1>7 DEF Pruning, PruneIndex, PruneSeries, PruneFile, PruneEnd, Crash
<1>8. CASE UNCHANGED archiveVars
  BY <1>8 DEF archiveVars
<1>9. ASSUME NEW s \in Scans, Request(s)
      PROVE  (index' = index /\ UNCHANGED archived) \/ SaveIndex(s)
  <2>1. ASSUME NEW p \in Series, Candidate(s, p) PROVE index' = index /\ UNCHANGED archived
    BY <2>1 DEF Candidate
  <2>2. ASSUME NEW force \in BOOLEAN, Capture(s, force)
        PROVE  index' = index /\ UNCHANGED archived
    BY <2>2 DEF Capture
  <2> QED
    BY <1>1, <1>4, <1>5, <1>9, <2>1, <2>2 DEF Request
<1> QED
  BY <1>2, <1>3, <1>4, <1>5, <1>6, <1>7, <1>8, <1>9 DEF ArchiveNext, Pruning

LEMMA IdsStep ==
    ASSUME ArchiveBase, [ArchiveNext]_archiveVars PROVE OneRecordPerId'
<1> USE DEF OneRecordPerId
<1>1. OneRecordPerId
  BY DEF ArchiveBase
<1>2. ASSUME NEW s \in Scans, at[s] = "save", index' = Saved(s) PROVE OneRecordPerId'
  BY <1>1, <1>2, SavedRecords
<1> QED
  BY <1>1, <1>2, IndexSteps

-----------------------------------------------------------------------------
(* Requests that stand between the lock and the save.                        *)
Holding == Locked \ {"log"}

LEMMA NobodyHolds ==
    ASSUME \A t \in Scans : at'[t] \notin Holding PROVE HolderMatches' /\ HolderWrites'
  BY DEF HolderMatches, HolderWrites, Holding, Locked, Writing

(* A step does not lose the frame of a document that is being written.       *)
WritersKeepFrames ==
    \A t \in Scans :
        at'[t] \in {"sidecar", "save"} /\ t \in staged \cup unkept \cup spoiled
            => t \in staged' \cup unkept' \cup spoiled'

LEMMA HolderKept ==
    ASSUME ArchiveBase, UNCHANGED <<index, loaded, held, meta>>,
           \A t \in Scans : at'[t] \in Holding => at'[t] = at[t],
           \A t \in Accounted : t \in Accounted',
           WritersKeepFrames
    PROVE  HolderMatches' /\ HolderWrites'
<1>1. HolderMatches'
  BY DEF ArchiveBase, HolderMatches, Holding, Locked, Writing, Same
<1>2. HolderWrites'
  BY DEF ArchiveBase, HolderWrites, Holding, Locked, Writing, WritersKeepFrames
<1> QED
  BY <1>1, <1>2

LEMMA HolderStep ==
    ASSUME ArchiveBase, [ArchiveNext]_archiveVars PROVE HolderMatches' /\ HolderWrites'
<1> USE DEF history, files, work
<1>0. /\ ArchiveTypeOK /\ LockIsHeld /\ CandidatesWait /\ HolderMatches /\ HolderWrites
      /\ DoomedAreOver
  BY DEF ArchiveBase
<1>1. ASSUME NEW s \in Scans, Stage(s) \/ Reject(s) \/ Finish(s) \/ FailToBegin(s)
      PROVE  HolderMatches' /\ HolderWrites'
  <2>1. at'[s] \notin Holding /\ \A t \in Scans : t # s => at'[t] = at[t]
    BY <1>0, <1>1, RequestMoves DEF Moves, Holding, Locked, Writing
  <2>2. /\ UNCHANGED <<index, loaded, held, meta, pdfs, removed, spoiled, unkept>>
        /\ staged \ {s} \subseteq staged'
    BY <1>1 DEF Stage, Reject, Finish, FailToBegin
  <2>3. at'[s] \notin {"sidecar", "save"}
    BY <2>1 DEF Holding, Locked, Writing
  <2>4. UNCHANGED <<index, loaded, held, meta>>
    BY <2>2
  <2>5. \A t \in Accounted : t \in Accounted'
    BY <2>2 DEF Accounted
  <2>6. \A t \in Scans : at'[t] \in Holding => at'[t] = at[t]
    BY <2>1
  <2>7. WritersKeepFrames
    BY <2>1, <2>2, <2>3 DEF WritersKeepFrames
  <2> QED
    BY <2>4, <2>5, <2>6, <2>7, HolderKept
<1>2. ASSUME NEW s \in Scans, NEW p \in Series, Candidate(s, p)
      PROVE  HolderMatches' /\ HolderWrites'
  <2>1. at'[s] \notin Holding /\ \A t \in Scans : t # s => at'[t] = at[t]
    BY <1>0, <1>2, RequestMoves DEF Moves, Holding, Locked, Writing
  <2>2. UNCHANGED <<index, loaded, held, meta, pdfs, removed, spoiled, unkept, staged>>
    BY <1>2 DEF Candidate
  <2>3. UNCHANGED <<index, loaded, held, meta>>
    BY <2>2
  <2>4. \A t \in Accounted : t \in Accounted'
    BY <2>2 DEF Accounted
  <2>5. \A t \in Scans : at'[t] \in Holding => at'[t] = at[t]
    BY <2>1
  <2>6. WritersKeepFrames
    BY <2>2 DEF WritersKeepFrames
  <2> QED
    BY <2>3, <2>4, <2>5, <2>6, HolderKept
<1>3. ASSUME NEW s \in Scans, NEW force \in BOOLEAN, Capture(s, force)
      PROVE  HolderMatches' /\ HolderWrites'
  <2>1. at'[s] \notin Holding /\ \A t \in Scans : t # s => at'[t] = at[t]
    BY <1>0, <1>3, RequestMoves DEF Moves, Holding, Locked, Writing
  <2>2. UNCHANGED <<index, loaded, held, meta, pdfs, removed, spoiled, unkept, staged>>
    BY <1>3 DEF Capture
  <2>3. UNCHANGED <<index, loaded, held, meta>>
    BY <2>2
  <2>4. \A t \in Accounted : t \in Accounted'
    BY <2>2 DEF Accounted
  <2>5. \A t \in Scans : at'[t] \in Holding => at'[t] = at[t]
    BY <2>1
  <2>6. WritersKeepFrames
    BY <2>2 DEF WritersKeepFrames
  <2> QED
    BY <2>3, <2>4, <2>5, <2>6, HolderKept
<1>4. ASSUME NEW p \in Series, NEW s \in Scans, NEW force \in BOOLEAN, Take(p, s, force)
      PROVE  HolderMatches' /\ HolderWrites'
  <2>1. \A t \in Scans : at'[t] \in Holding => at'[t] = at[t]
    BY <1>4 DEF Take, Holding, Locked, Writing
  <2>2. UNCHANGED <<index, loaded, held, meta, pdfs, removed, spoiled, unkept, staged>>
    BY <1>4 DEF Take
  <2>3. UNCHANGED <<index, loaded, held, meta>>
    BY <2>2
  <2>4. \A t \in Accounted : t \in Accounted'
    BY <2>2 DEF Accounted
  <2>5. \A t \in Scans : at'[t] \in Holding => at'[t] = at[t]
    BY <2>1
  <2>6. WritersKeepFrames
    BY <2>2 DEF WritersKeepFrames
  <2> QED
    BY <2>3, <2>4, <2>5, <2>6, HolderKept
(* A frame that is deleted under a request is known to have been missed.     *)
<1>5. CASE Pruning
  <2>1. /\ UNCHANGED <<index, loaded, held, meta, pdfs, removed, spoiled, at>>
        /\ unkept \subseteq unkept'
    BY <1>5 DEF Pruning, PruneIndex, PruneSeries, PruneFile, PruneEnd
  <2>2. \A t \in Scans : t \in staged => t \in staged' \/ PruneFile(t)
    BY <1>5 DEF Pruning, PruneIndex, PruneSeries, PruneFile, PruneEnd
  <2>3. ASSUME NEW t \in Scans, PruneFile(t), at[t] # "done" PROVE t \in unkept
    BY <1>0, <2>3 DEF PruneFile, DoomedAreOver
  <2>4. WritersKeepFrames
    BY <2>1, <2>2, <2>3 DEF WritersKeepFrames
  <2>5. UNCHANGED <<index, loaded, held, meta>>
    BY <2>1
  <2>6. \A t \in Accounted : t \in Accounted'
    BY <2>1 DEF Accounted
  <2>7. \A t \in Scans : at'[t] \in Holding => at'[t] = at[t]
    BY <2>1
  <2> QED
    BY <2>4, <2>5, <2>6, <2>7, HolderKept
<1>6. ASSUME NEW s \in Scans, Acquire(s) PROVE HolderMatches' /\ HolderWrites'
  <2>1. /\ at[s] = "archive" /\ lock = NoHolder
        /\ UNCHANGED <<index, staged, pdfs, removed, spoiled, unkept>>
        /\ meta' = Known[s]
        /\ \/ /\ at'[s] \in {"replace", "enrich"} /\ loaded' = index
              /\ \E r \in index : Same(r.scan, s) /\ held' = {r}
           \/ /\ loaded' = {} \/ (loaded' = index /\ ~\E r \in index : Same(r.scan, s))
              /\ held' = {}
              /\ at'[s] \in {"discard", "pdf"}
    BY <1>0, <1>6 DEF Acquire, Load, Proceed, ArchiveTypeOK
  <2>2. \A t \in Scans : t # s => at'[t] \notin Locked
    BY <1>0, <1>6, <2>1, RequestMoves, LockFree DEF Moves
  <2>3. HolderMatches'
    BY <2>1, <2>2 DEF HolderMatches, Same, Locked, Writing
  <2>4. HolderWrites'
    BY <2>1, <2>2 DEF HolderWrites, Locked, Writing
  <2> QED
    BY <2>3, <2>4
<1>7. ASSUME NEW s \in Scans, Enrich(s) PROVE HolderMatches' /\ HolderWrites'
  <2>1. /\ at[s] = "enrich" /\ index' = index
        /\ UNCHANGED <<loaded, held, meta, pdfs, removed, spoiled, staged, unkept>>
    BY <1>0, <1>7 DEF Enrich, Save, HolderMatches
  <2>2. at'[s] = "discard" /\ \A t \in Scans : t # s => at'[t] \notin Locked
    BY <1>0, <1>7, <2>1, RequestMoves, OneHolder DEF Moves, Locked
  <2>3. HolderMatches'
    BY <1>0, <2>1, <2>2 DEF HolderMatches, Locked, Writing
  <2>4. HolderWrites'
    BY <2>2 DEF HolderWrites, Locked, Writing
  <2> QED
    BY <2>3, <2>4
<1>8. ASSUME NEW s \in Scans, Discard(s) \/ SaveIndex(s) PROVE HolderMatches' /\ HolderWrites'
  <2>1. at[s] \in {"discard", "save"} /\ at'[s] = "log"
    BY <1>0, <1>8, RequestMoves DEF Moves
  <2>2. \A t \in Scans : t # s => at'[t] \notin Locked
    BY <1>0, <1>8, <2>1, RequestMoves, OneHolder DEF Moves, Locked, Writing
  <2> QED
    BY <2>1, <2>2, NobodyHolds DEF Holding
<1>9. ASSUME NEW s \in Scans, Replace(s) PROVE HolderMatches' /\ HolderWrites'
  <2>1. PICK r \in held :
          /\ loaded' = {q \in loaded : Ident[q.scan] # Ident[r.scan]}
          /\ meta' = r.meta \cup Known[s]
    BY <1>9 DEF Replace, Merged
  <2>2. at[s] = "replace" /\ UNCHANGED <<index, held>>
    BY <1>9 DEF Replace
  <2>3. at'[s] = "pdf" /\ \A t \in Scans : t # s => at'[t] \notin Locked
    BY <1>0, <1>9, <2>2, RequestMoves, OneHolder DEF Moves, Locked, Writing
  <2>4. /\ held \subseteq index /\ loaded = index
        /\ \A q \in held : q = r /\ Same(q.scan, s)
    BY <1>0, <2>1, <2>2 DEF HolderMatches
  <2>5. loaded' = {q \in index : \A o \in held : Ident[q.scan] # Ident[o.scan]}
    BY <2>1, <2>4
  <2>6. HolderMatches'
    BY <2>1, <2>2, <2>3, <2>4, <2>5 DEF HolderMatches, Locked, Writing, Same
  <2>7. HolderWrites'
    BY <2>1, <2>2, <2>3, <2>4 DEF HolderWrites, Locked, Writing
  <2> QED
    BY <2>6, <2>7
<1>10. ASSUME NEW s \in Scans, WritePdf(s) PROVE HolderMatches' /\ HolderWrites'
  <2>1. /\ at[s] = "pdf" /\ s \in staged /\ pdfs' = pdfs \cup {s}
        /\ UNCHANGED <<index, loaded, held, meta, removed, spoiled, staged, unkept>>
    BY <1>10 DEF WritePdf
  <2>2. at'[s] = "sidecar" /\ \A t \in Scans : t # s => at'[t] \notin Locked
    BY <1>0, <1>10, <2>1, RequestMoves, OneHolder DEF Moves, Locked, Writing
  <2>3. HolderMatches'
    BY <1>0, <2>1, <2>2 DEF HolderMatches, Locked, Writing, Same
  <2>4. HolderWrites'
    BY <1>0, <2>1, <2>2 DEF HolderWrites, Locked, Writing, Accounted
  <2> QED
    BY <2>3, <2>4
<1>11. ASSUME NEW s \in Scans, WriteSidecar(s) PROVE HolderMatches' /\ HolderWrites'
  <2>1. /\ at[s] = "sidecar"
        /\ UNCHANGED <<index, loaded, held, meta, pdfs, removed, spoiled, staged, unkept>>
    BY <1>11 DEF WriteSidecar
  <2>2. at'[s] = "save" /\ \A t \in Scans : t # s => at'[t] \notin Locked
    BY <1>0, <1>11, <2>1, RequestMoves, OneHolder DEF Moves, Locked, Writing
  <2>3. HolderMatches'
    BY <1>0, <2>1, <2>2 DEF HolderMatches, Locked, Writing, Same
  <2>4. HolderWrites'
    BY <1>0, <2>1, <2>2 DEF HolderWrites, Locked, Writing, Accounted
  <2> QED
    BY <2>3, <2>4
<1>12. ASSUME NEW s \in Scans, AppendLog(s) \/ Fail(s) PROVE HolderMatches' /\ HolderWrites'
  <2>1. at[s] \in Writing \cup {"enrich", "log"} /\ at'[s] = "done"
    BY <1>0, <1>12, RequestMoves DEF Moves
  <2>2. \A t \in Scans : t # s => at'[t] \notin Locked
    BY <1>0, <1>12, <2>1, RequestMoves, OneHolder DEF Moves, Locked, Writing
  <2> QED
    BY <2>1, <2>2, NobodyHolds DEF Holding, Locked, Writing
<1>13. CASE Reconcile
  BY <1>0, <1>13, LockFree, NobodyHolds DEF Reconcile, Holding
<1>14. ASSUME NEW s \in Scans, UserRemoves(s) PROVE HolderMatches' /\ HolderWrites'
  <2>1. /\ UNCHANGED <<index, loaded, held, meta, at, staged, unkept, spoiled>>
        /\ pdfs' = pdfs \ {s} /\ removed' = removed \cup {s}
    BY <1>14 DEF UserRemoves
  <2>2. UNCHANGED <<index, loaded, held, meta>>
    BY <2>1
  <2>3. \A t \in Accounted : t \in Accounted'
    BY <2>1 DEF Accounted
  <2>4. \A t \in Scans : at'[t] \in Holding => at'[t] = at[t]
    BY <2>1
  <2>5. WritersKeepFrames
    BY <2>1 DEF WritersKeepFrames
  <2> QED
    BY <2>2, <2>3, <2>4, <2>5, HolderKept
<1>15. CASE Crash
  BY <1>15, NobodyHolds DEF Crash, Holding, Locked, Writing
<1>16. CASE UNCHANGED archiveVars
  <2>1. UNCHANGED <<index, loaded, held, meta, at, staged, unkept, spoiled, pdfs, removed>>
    BY <1>16 DEF archiveVars
  <2>2. UNCHANGED <<index, loaded, held, meta>>
    BY <2>1
  <2>3. \A t \in Accounted : t \in Accounted'
    BY <2>1 DEF Accounted
  <2>4. \A t \in Scans : at'[t] \in Holding => at'[t] = at[t]
    BY <2>1
  <2>5. WritersKeepFrames
    BY <2>1 DEF WritersKeepFrames
  <2> QED
    BY <2>2, <2>3, <2>4, <2>5, HolderKept
<1> QED
  BY <1>1, <1>2, <1>3, <1>4, <1>5, <1>6, <1>7, <1>8, <1>9, <1>10, <1>11, <1>12, <1>13,
     <1>14, <1>15, <1>16 DEF ArchiveNext, Request, Pruning

LEMMA DoneStays ==
    ASSUME ArchiveBase, [ArchiveNext]_archiveVars, NEW t \in Scans, at[t] = "done"
    PROVE  at'[t] = "done"
<1>0. ArchiveTypeOK
  BY DEF ArchiveBase
<1>1. ASSUME NEW s \in Scans, Stage(s) \/ Request(s) PROVE at'[t] = "done"
  <2>1. \E from, to : "done" \notin from /\ Moves(s, from, to)
    BY <1>0, <1>1, RequestMoves DEF Request, Writing
  <2> QED
    BY <2>1 DEF Moves
<1>2. ASSUME NEW p \in Series, NEW s \in Scans, NEW force \in BOOLEAN, Take(p, s, force)
      PROVE  at'[t] = "done"
  BY <1>2 DEF Take, ArchiveBase, CandidatesWait
<1>3. CASE Pruning \/ Reconcile \/ Crash \/ \E s \in Scans : UserRemoves(s)
  BY <1>3 DEF Pruning, PruneIndex, PruneSeries, PruneFile, PruneEnd, Reconcile, Crash, UserRemoves
<1>4. CASE UNCHANGED archiveVars
  BY <1>4 DEF archiveVars
<1> QED
  BY <1>1, <1>2, <1>3, <1>4 DEF ArchiveNext, Pruning

(* The record of a frame whose request is over was saved by that request.    *)
LEMMA RecordsNotLater ==
    ASSUME ArchiveBase, [ArchiveNext]_archiveVars, NEW t \in Scans, at[t] = "done",
           \A r \in index : r.scan # t
    PROVE  \A r \in index' : r.scan # t
<1>1. ASSUME NEW s \in Scans, at[s] = "save", index' = Saved(s)
      PROVE  \A r \in index' : r.scan # t
  BY <1>1, SavedRecords
<1> QED
  BY <1>1, IndexSteps

LEMMA PruneSteps ==
    ASSUME [ArchiveNext]_archiveVars
    PROVE  UNCHANGED <<prune, unkept>> \/ Pruning \/ Crash
<1> USE DEF history
<1>1. ASSUME NEW s \in Scans, Stage(s) \/ UserRemoves(s) PROVE UNCHANGED <<prune, unkept>>
  BY <1>1 DEF Stage, UserRemoves
<1>2. ASSUME NEW s \in Scans, Request(s) PROVE UNCHANGED <<prune, unkept>>
  BY <1>2 DEF Request, Candidate, Capture, Reject, Finish, Acquire, FailToBegin, Enrich,
     Discard, Replace, WritePdf, WriteSidecar, SaveIndex, AppendLog, Fail
<1>3. ASSUME NEW p \in Series, NEW s \in Scans, NEW force \in BOOLEAN, Take(p, s, force)
      PROVE  UNCHANGED <<prune, unkept>>
  BY <1>3 DEF Take
<1>4. CASE Reconcile \/ UNCHANGED archiveVars
  BY <1>4 DEF Reconcile, archiveVars, prune
<1> QED
  BY <1>1, <1>2, <1>3, <1>4 DEF ArchiveNext, Pruning

LEMMA DoomedStep ==
    ASSUME ArchiveBase, [ArchiveNext]_archiveVars PROVE DoomedAreOver'
<1>0. DoomedAreOver /\ doomed \subseteq Scans
  BY DEF ArchiveBase, ArchiveTypeOK
<1>1. \A t \in Scans : at[t] = "done" /\ (\A r \in index : r.scan # t) =>
         at'[t] = "done" /\ \A r \in index' : r.scan # t
  BY DoneStays, RecordsNotLater
<1>2. CASE UNCHANGED <<prune, unkept>>
  BY <1>0, <1>1, <1>2 DEF DoomedAreOver, prune
<1>3. CASE PruneIndex
  <2>1. PICK old \in SUBSET staged, kept \in {Indexed, {}} :
          /\ doomed' = old \ kept
          /\ late' = {s \in doomed' : at[s] # "done"} \cup (Indexed \ kept)
    BY <1>3 DEF PruneIndex
  <2>2. pruning' = "series" /\ UNCHANGED <<at, index>>
    BY <1>3 DEF PruneIndex
  <2>3. \A s \in doomed' : s \in late' \/ (at[s] = "done" /\ \A r \in index : r.scan # s)
    BY <2>1 DEF Indexed
  <2> QED
    BY <2>2, <2>3 DEF DoomedAreOver
<1>4. CASE PruneSeries
  BY <1>0, <1>4 DEF PruneSeries, DoomedAreOver
<1>5. ASSUME NEW s \in Scans, PruneFile(s) PROVE DoomedAreOver'
  BY <1>0, <1>5 DEF PruneFile, DoomedAreOver, history
<1>6. CASE PruneEnd \/ Crash
  BY <1>6 DEF PruneEnd, Crash, DoomedAreOver
<1> QED
  BY <1>2, <1>3, <1>4, <1>5, <1>6, PruneSteps DEF Pruning

LEMMA BaseStep == ArchiveBase /\ [ArchiveNext]_archiveVars => ArchiveBase'
  BY ArchiveTypeStep, LockStep, WaitStep, FollowStep, IdsStep, HolderStep, DoomedStep
     DEF ArchiveBase

LEMMA InitBase == ArchiveInit => ArchiveBase
<1> SUFFICES ASSUME ArchiveInit PROVE ArchiveBase
  OBVIOUS
<1>1. ArchiveTypeOK
  BY ArchiveInitType
<1>2. /\ LockIsHeld /\ CandidatesWait /\ RecordsFollowRequests /\ OneRecordPerId
      /\ HolderMatches /\ HolderWrites /\ DoomedAreOver
  BY DEF ArchiveInit, DoomedAreOver, LockIsHeld, CandidatesWait, RecordsFollowRequests, OneRecordPerId,
         HolderMatches, HolderWrites, Accounted, Locked, Writing
<1> QED
  BY <1>1, <1>2 DEF ArchiveBase

-----------------------------------------------------------------------------
(* Records and their files.                                                  *)

(* The frame that was staged for a record, or what became of it.             *)
FrameKnown == staged \cup unkept \cup spoiled

RecordFilesInv == ArchiveBase /\ RecordsHaveTheirPdf /\ FramesOfRecordsStay

(* A step that saves nothing and takes no file of a record away.             *)
LEMMA RecordFilesKept ==
    ASSUME RecordFilesInv, index' \subseteq index,
           \A r \in index : r.scan \in Accounted => r.scan \in Accounted' \/ BeingReplaced(r)',
           \A r \in index : r.scan \in FrameKnown => r.scan \in FrameKnown' \/ BeingReplaced(r)',
           \A r \in index : BeingReplaced(r) =>
               BeingReplaced(r)' \/ (r.scan \in Accounted' /\ r.scan \in FrameKnown')
    PROVE  RecordsHaveTheirPdf' /\ FramesOfRecordsStay'
  BY DEF RecordFilesInv, RecordsHaveTheirPdf, FramesOfRecordsStay, Accounted, FrameKnown

(* What is being replaced stays so under steps that leave the holder alone.  *)
LEMMA ReplacementStays ==
    ASSUME UNCHANGED <<lock, held>>, \A t \in Scans : at[t] \in Writing => at'[t] \in Writing
    PROVE  \A r \in index : BeingReplaced(r) => BeingReplaced(r)'
  BY DEF BeingReplaced

(* A record is not that of a request that is still under way.                *)
LEMMA NotYetRecorded ==
    ASSUME ArchiveBase, NEW s \in Scans, at[s] \notin {"log", "done"}
    PROVE  \A r \in index : r.scan # s
  BY DEF ArchiveBase, RecordsFollowRequests

(* Records with one frame are one record.                                    *)
LEMMA OneRecordPerFrame ==
    ASSUME ArchiveBase PROVE \A q, r \in index : q.scan = r.scan => q = r
  BY DEF ArchiveBase, OneRecordPerId

LEMMA RecordFilesStep ==
    ASSUME RecordFilesInv, [ArchiveNext]_archiveVars
    PROVE  RecordsHaveTheirPdf' /\ FramesOfRecordsStay'
<1> USE DEF history, files, work
<1>0. /\ ArchiveBase /\ ArchiveTypeOK /\ LockIsHeld /\ CandidatesWait /\ HolderMatches
      /\ DoomedAreOver
  BY DEF ArchiveBase, RecordFilesInv
<1>1. ASSUME NEW s \in Scans,
             Stage(s) \/ Reject(s) \/ Finish(s) \/ FailToBegin(s) \/ Discard(s)
      PROVE  RecordsHaveTheirPdf' /\ FramesOfRecordsStay'
  <2>1. /\ UNCHANGED <<index, held, lock, pdfs, removed, spoiled, unkept>>
        /\ staged \ {s} \subseteq staged'
    BY <1>1 DEF Stage, Reject, Finish, FailToBegin, Discard
  <2>2. /\ at[s] \notin Writing \cup {"log", "done"}
        /\ \A t \in Scans : t # s => at'[t] = at[t]
    BY <1>0, <1>1, RequestMoves DEF Moves, Writing
  <2>3. \A r \in index : BeingReplaced(r) => BeingReplaced(r)'
    BY <2>1, <2>2, ReplacementStays
  <2>4. \A r \in index : r.scan # s
    BY <1>0, <2>2, NotYetRecorded
  <2>5. \A r \in index : r.scan \in FrameKnown => r.scan \in FrameKnown'
    BY <2>1, <2>4 DEF FrameKnown
  <2>6. \A r \in index : r.scan \in Accounted => r.scan \in Accounted'
    BY <2>1 DEF Accounted
  <2> QED
    BY <2>1, <2>3, <2>5, <2>6, RecordFilesKept
<1>2. ASSUME NEW s \in Scans,
             (\E p \in Series : Candidate(s, p)) \/ (\E force \in BOOLEAN : Capture(s, force))
      PROVE  RecordsHaveTheirPdf' /\ FramesOfRecordsStay'
  <2>1. UNCHANGED <<index, held, lock, pdfs, removed, spoiled, unkept, staged>>
    BY <1>2 DEF Candidate, Capture
  <2>2. at[s] = "read" /\ \A t \in Scans : t # s => at'[t] = at[t]
    BY <1>0, <1>2, RequestMoves DEF Moves
  <2>3. \A r \in index : BeingReplaced(r) => BeingReplaced(r)'
    BY <2>1, <2>2, ReplacementStays DEF Writing
  <2> QED
    BY <2>1, <2>3, RecordFilesKept DEF FrameKnown, Accounted
<1>3. ASSUME NEW p \in Series, NEW s \in Scans, NEW force \in BOOLEAN, Take(p, s, force)
      PROVE  RecordsHaveTheirPdf' /\ FramesOfRecordsStay'
  <2>1. UNCHANGED <<index, held, lock, pdfs, removed, spoiled, unkept, staged>>
    BY <1>3 DEF Take
  <2>2. \A t \in Scans : at[t] # "candidate" => at'[t] = at[t]
    BY <1>0, <1>3 DEF Take, CandidatesWait
  <2>3. \A r \in index : BeingReplaced(r) => BeingReplaced(r)'
    BY <2>1, <2>2, ReplacementStays DEF Writing
  <2> QED
    BY <2>1, <2>3, RecordFilesKept DEF FrameKnown, Accounted
(* What pruning deletes is no frame of a record, or known to be missed.      *)
<1>4. CASE Pruning
  <2>1. /\ UNCHANGED <<index, held, lock, pdfs, removed, spoiled, at>>
        /\ unkept \subseteq unkept'
    BY <1>4 DEF Pruning, PruneIndex, PruneSeries, PruneFile, PruneEnd
  <2>2. \A t \in staged : t \in staged' \/ PruneFile(t)
    BY <1>4 DEF Pruning, PruneIndex, PruneSeries, PruneFile, PruneEnd
  <2>3. \A r \in index : PruneFile(r.scan) => r.scan \in unkept
    BY <1>0 DEF PruneFile, DoomedAreOver
  <2>4. \A r \in index : r.scan \in FrameKnown => r.scan \in FrameKnown'
    BY <2>1, <2>2, <2>3 DEF FrameKnown
  <2>5. \A r \in index : BeingReplaced(r) => BeingReplaced(r)'
    BY <2>1, ReplacementStays
  <2> QED
    BY <2>1, <2>4, <2>5, RecordFilesKept DEF Accounted
<1>5. ASSUME NEW s \in Scans, Acquire(s) PROVE RecordsHaveTheirPdf' /\ FramesOfRecordsStay'
  <2>1. UNCHANGED <<index, pdfs, removed, spoiled, unkept, staged>> /\ lock = NoHolder
    BY <1>5 DEF Acquire
  <2>2. \A r \in index : ~ BeingReplaced(r)
    BY <2>1, ScansAssumption DEF BeingReplaced
  <2> QED
    BY <2>1, <2>2, RecordFilesKept DEF FrameKnown, Accounted
<1>6. ASSUME NEW s \in Scans, Enrich(s) PROVE RecordsHaveTheirPdf' /\ FramesOfRecordsStay'
  <2>1. /\ UNCHANGED <<held, lock, pdfs, removed, spoiled, unkept, staged>>
        /\ index' = index
    BY <1>0, <1>6 DEF Enrich, Save, HolderMatches
  <2>2. at[s] = "enrich" /\ \A t \in Scans : t # s => at'[t] = at[t]
    BY <1>0, <1>6, RequestMoves DEF Moves
  <2>3. \A r \in index : BeingReplaced(r) => BeingReplaced(r)'
    BY <2>1, <2>2, ReplacementStays DEF Writing
  <2> QED
    BY <2>1, <2>3, RecordFilesKept DEF FrameKnown, Accounted
(* The files that go are those of the one record that is being replaced.     *)
<1>7. ASSUME NEW s \in Scans, Replace(s) PROVE RecordsHaveTheirPdf' /\ FramesOfRecordsStay'
  <2>1. PICK h \in held : staged' = staged \ {h.scan} /\ pdfs' = pdfs \ {h.scan}
    BY <1>7 DEF Replace
  <2>2. at[s] = "replace" /\ UNCHANGED <<index, held, lock, removed, spoiled, unkept>>
    BY <1>7 DEF Replace
  <2>3. lock = s /\ at'[s] = "pdf" /\ \A t \in Scans : t # s => at'[t] = at[t]
    BY <1>0, <1>7, <2>2, RequestMoves, OneHolder DEF Moves, Locked
  <2>4. BeingReplaced(h)'
    BY <2>1, <2>2, <2>3 DEF BeingReplaced, Writing
  <2>5. h \in index
    BY <1>0, <2>1, <2>2 DEF HolderMatches
  <2>6. \A r \in index : r.scan = h.scan => BeingReplaced(r)'
    BY <1>0, <2>4, <2>5, OneRecordPerFrame
  <2>7. \A r \in index : BeingReplaced(r) => BeingReplaced(r)'
    BY <2>2, <2>3, ReplacementStays DEF Writing
  <2>8. \A r \in index : r.scan \in Accounted => r.scan \in Accounted' \/ BeingReplaced(r)'
    BY <2>1, <2>2, <2>6 DEF Accounted
  <2>9. \A r \in index : r.scan \in FrameKnown => r.scan \in FrameKnown' \/ BeingReplaced(r)'
    BY <2>1, <2>2, <2>6 DEF FrameKnown
  <2> QED
    BY <2>2, <2>7, <2>8, <2>9, RecordFilesKept
<1>8. ASSUME NEW s \in Scans, WritePdf(s) \/ WriteSidecar(s)
      PROVE  RecordsHaveTheirPdf' /\ FramesOfRecordsStay'
  <2>1. /\ UNCHANGED <<index, held, lock, removed, spoiled, unkept, staged>>
        /\ pdfs \subseteq pdfs'
    BY <1>8 DEF WritePdf, WriteSidecar
  <2>2. at'[s] \in Writing /\ \A t \in Scans : t # s => at'[t] = at[t]
    BY <1>0, <1>8, RequestMoves DEF Moves, Writing
  <2>3. \A r \in index : BeingReplaced(r) => BeingReplaced(r)'
    BY <2>1, <2>2, ReplacementStays
  <2>4. \A r \in index : r.scan \in Accounted => r.scan \in Accounted'
    BY <2>1 DEF Accounted
  <2> QED
    BY <2>1, <2>3, <2>4, RecordFilesKept DEF FrameKnown
(* The new record has its files; what is left of the others was not being    *)
(* replaced.                                                                 *)
<1>9. ASSUME NEW s \in Scans, SaveIndex(s) PROVE RecordsHaveTheirPdf' /\ FramesOfRecordsStay'
  <2>1. /\ at[s] = "save" /\ index' = Saved(s)
        /\ UNCHANGED <<pdfs, removed, spoiled, staged, unkept>>
    BY <1>9 DEF SaveIndex, Save, Saved
  <2>2. lock = s
    BY <1>0, <2>1 DEF LockIsHeld, Locked, Writing
  <2>3. \A r \in index : r \notin held => ~ BeingReplaced(r)
    BY DEF BeingReplaced
  <2>4. s \in Accounted /\ s \in FrameKnown
    BY <1>0, <2>1 DEF ArchiveBase, HolderWrites, FrameKnown
  <2>5. \A r \in index' : r.scan \in Accounted /\ r.scan \in FrameKnown
    BY <1>0, <2>1, <2>3, <2>4, SavedRecords
       DEF RecordFilesInv, RecordsHaveTheirPdf, FramesOfRecordsStay, Accounted, FrameKnown
  <2> QED
    BY <2>1, <2>5 DEF RecordsHaveTheirPdf, FramesOfRecordsStay, Accounted, FrameKnown
<1>10. ASSUME NEW s \in Scans, AppendLog(s) PROVE RecordsHaveTheirPdf' /\ FramesOfRecordsStay'
  <2>1. at[s] = "log" /\ UNCHANGED <<index, pdfs, removed, spoiled, staged, unkept>>
    BY <1>10 DEF AppendLog
  <2>2. \A r \in index : ~ BeingReplaced(r)
    BY <1>0, <2>1, OneHolder DEF BeingReplaced, Locked, Writing
  <2> QED
    BY <2>1, <2>2, RecordFilesKept DEF FrameKnown, Accounted
(* A replacement that breaks off spoils the document it had deleted.         *)
<1>11. ASSUME NEW s \in Scans, Fail(s) PROVE RecordsHaveTheirPdf' /\ FramesOfRecordsStay'
  <2>1. /\ UNCHANGED <<index, pdfs, removed, staged, unkept>>
        /\ spoiled' = spoiled \cup Broken(s) /\ at[s] \in Writing \cup {"enrich", "log"}
    BY <1>11 DEF Fail
  <2>2. lock = s
    BY <1>0, <2>1 DEF LockIsHeld, Locked
  <2>3. \A r \in index : BeingReplaced(r) => r.scan \in spoiled'
    BY <2>1, <2>2 DEF BeingReplaced, Broken
  <2>4. \A r \in index : /\ r.scan \in Accounted => r.scan \in Accounted'
                         /\ r.scan \in FrameKnown => r.scan \in FrameKnown'
                         /\ r.scan \in spoiled' => r.scan \in Accounted' /\ r.scan \in FrameKnown'
    BY <2>1 DEF Accounted, FrameKnown
  <2> QED
    BY <2>1, <2>3, <2>4, RecordFilesKept
<1>12. CASE Reconcile
  <2>1. /\ index' \subseteq index /\ lock = NoHolder
        /\ UNCHANGED <<pdfs, removed, spoiled, staged, unkept>>
    BY <1>12 DEF Reconcile, Save
  <2>2. \A r \in index : ~ BeingReplaced(r)
    BY <2>1, ScansAssumption DEF BeingReplaced
  <2> QED
    BY <2>1, <2>2, RecordFilesKept DEF FrameKnown, Accounted
<1>13. ASSUME NEW s \in Scans, UserRemoves(s)
       PROVE  RecordsHaveTheirPdf' /\ FramesOfRecordsStay'
  <2>1. /\ UNCHANGED <<index, held, lock, at, spoiled, staged, unkept>>
        /\ pdfs' = pdfs \ {s} /\ removed' = removed \cup {s}
    BY <1>13 DEF UserRemoves
  <2>2. \A r \in index : BeingReplaced(r) => BeingReplaced(r)'
    BY <2>1, ReplacementStays
  <2>3. \A r \in index : r.scan \in Accounted => r.scan \in Accounted'
    BY <2>1 DEF Accounted
  <2> QED
    BY <2>1, <2>2, <2>3, RecordFilesKept DEF FrameKnown
<1>14. CASE Crash
  <2>1. /\ UNCHANGED <<index, pdfs, removed, staged, unkept>>
        /\ spoiled' = spoiled \cup UNION {Broken(s) : s \in Scans}
    BY <1>14 DEF Crash
  <2>2. \A r \in index : BeingReplaced(r) => r.scan \in spoiled'
    BY <2>1 DEF BeingReplaced, Broken
  <2>3. \A r \in index : /\ r.scan \in Accounted => r.scan \in Accounted'
                         /\ r.scan \in FrameKnown => r.scan \in FrameKnown'
                         /\ r.scan \in spoiled' => r.scan \in Accounted' /\ r.scan \in FrameKnown'
    BY <2>1 DEF Accounted, FrameKnown
  <2> QED
    BY <2>1, <2>2, <2>3, RecordFilesKept
<1>15. CASE UNCHANGED archiveVars
  <2>1. UNCHANGED <<index, held, lock, at, pdfs, removed, spoiled, staged, unkept>>
    BY <1>15 DEF archiveVars
  <2>2. \A r \in index : BeingReplaced(r) => BeingReplaced(r)'
    BY <2>1, ReplacementStays
  <2> QED
    BY <2>1, <2>2, RecordFilesKept DEF FrameKnown, Accounted
<1> QED
  BY <1>1, <1>2, <1>3, <1>4, <1>5, <1>6, <1>7, <1>8, <1>9, <1>10, <1>11, <1>12, <1>13,
     <1>14, <1>15 DEF ArchiveNext, Request, Pruning

-----------------------------------------------------------------------------
(* Papers.  Ids identify papers, so frames match when their papers do.       *)

(* A paper has, or had, a document.                                          *)
PaperSeen(paper) ==
    \/ \E t \in Accounted : Paper[t] = paper
    \/ \E r \in index : BeingReplaced(r) /\ Paper[r.scan] = paper

LoggedIsSeen ==
    \A s \in Scans : Ident[s] \in log \/ at[s] = "log" => PaperSeen(Paper[s])

(* The document a duplicate was matched with, by the index or by the log.    *)
DuplicatesSeen ==
    \A s \in Scans : at[s] = "discard" => \E t \in Accounted : t # s /\ Same(s, t)

(* A frame that was archived has a record of its paper as long as it counts. *)
ArchivedHaveRecords == \A s \in archived : \E r \in index : Paper[s] = Paper[r.scan]

LEMMA SameIsSamePaper == \A s, t \in Scans : Same(s, t) <=> Paper[s] = Paper[t]
  BY IdsAssumption DEF Same

RecordsInv ==
    /\ RecordFilesInv /\ OneRecordPerPaper /\ ArchivedHaveRecords
    /\ ReplacingKeepsFields /\ archived \subseteq Scans

(* The record that is saved is the only one of its paper, and has all that   *)
(* the one it replaces had.                                                  *)
LEMMA SavedPapers ==
    ASSUME RecordsInv, NEW s \in Scans, at[s] = "save"
    PROVE  /\ \A r \in Saved(s) : r.scan # s => r \in index /\ Paper[r.scan] # Paper[s]
           /\ \A r \in Saved(s) : r.scan = s => r = [scan |-> s, meta |-> meta]
           /\ \A r \in loaded \cup held :
                  r \in Saved(s) \/ (r \in held /\ Paper[r.scan] = Paper[s])
<1> USE DEF RecordsInv, RecordFilesInv, ArchiveBase
<1>1. \A r \in index : r.scan \in Scans
  BY DEF ArchiveTypeOK, Record
<1>0. CASE loaded = {} /\ held = {}
  BY <1>0 DEF Saved
<1> SUFFICES ASSUME ~(loaded = {} /\ held = {})
             PROVE  /\ \A r \in Saved(s) : r.scan # s => r \in index /\ Paper[r.scan] # Paper[s]
                    /\ \A r \in Saved(s) : r.scan = s => r = [scan |-> s, meta |-> meta]
                    /\ \A r \in loaded \cup held :
                           r \in Saved(s) \/ (r \in held /\ Paper[r.scan] = Paper[s])
  BY <1>0
<1>2. /\ held \subseteq index
      /\ \A r \in held : Paper[r.scan] = Paper[s] /\ \A q \in held : q = r
      /\ held = {} => \A r \in index : Paper[r.scan] # Paper[s]
      /\ loaded = {q \in index : \A r \in held : Ident[q.scan] # Ident[r.scan]}
  BY <1>1, SameIsSamePaper DEF HolderMatches, Writing
<1>3. \A r \in index : r \notin held => Paper[r.scan] # Paper[s] /\ r \in loaded
  <2> SUFFICES ASSUME NEW r \in index, r \notin held
               PROVE  Paper[r.scan] # Paper[s] /\ r \in loaded
    OBVIOUS
  <2>1. \A h \in held : Paper[h.scan] # Paper[r.scan]
    BY <1>1, <1>2, SameIsSamePaper DEF OneRecordPerPaper
  <2>2. \A h \in held : Ident[h.scan] # Ident[r.scan]
    BY <1>1, <1>2, <2>1, IdsAssumption
  <2> QED
    BY <1>2, <2>1, <2>2
<1>4. \A r \in index : r.scan # s
  BY NotYetRecorded
<1>5. \A r \in loaded : r \in index /\ r \notin held
  BY <1>2
<1>6. \A r \in index : Paper[r.scan] # Paper[s] => Ident[r.scan] # Ident[s]
  BY <1>1, IdsAssumption
<1>7. ASSUME NEW r \in Saved(s), r.scan # s PROVE r \in index /\ Paper[r.scan] # Paper[s]
  BY <1>3, <1>5, <1>7 DEF Saved
<1>8. ASSUME NEW r \in Saved(s), r.scan = s PROVE r = [scan |-> s, meta |-> meta]
  BY <1>4, <1>5, <1>8 DEF Saved
<1>9. ASSUME NEW r \in index, r \notin held PROVE r \in Saved(s)
  BY <1>3, <1>6, <1>9 DEF Saved
<1> QED
  BY <1>2, <1>5, <1>7, <1>8, <1>9

LEMMA RecordsStep ==
    ASSUME RecordsInv, [ArchiveNext]_archiveVars
    PROVE  OneRecordPerPaper' /\ ArchivedHaveRecords' /\ ReplacingKeepsFields'
<1> USE DEF OneRecordPerPaper, ArchivedHaveRecords, ReplacingKeepsFields, Same
<1>0. OneRecordPerPaper /\ ArchivedHaveRecords /\ ReplacingKeepsFields /\ archived \subseteq Scans
  BY DEF RecordsInv
<1>1. CASE index' = index /\ UNCHANGED archived
  BY <1>0, <1>1
<1>2. ASSUME NEW s \in Scans, SaveIndex(s), at[s] = "save", index' = Saved(s)
      PROVE  OneRecordPerPaper' /\ ArchivedHaveRecords' /\ ReplacingKeepsFields'
  <2>1. archived' = InSight \cup {s} /\ InSight \subseteq archived
    BY <1>2 DEF SaveIndex, InSight
  <2>2. /\ \A r \in index' : r.scan # s => r \in index /\ Paper[r.scan] # Paper[s]
        /\ \A r \in index' : r.scan = s => r = [scan |-> s, meta |-> meta]
        /\ \A r \in loaded \cup held :
               r \in index' \/ (r \in held /\ Paper[r.scan] = Paper[s])
    BY <1>2, SavedPapers
  <2>9. \A t \in InSight : \E q \in index :
           Paper[t] = Paper[q.scan] /\ q \in loaded \cup held
    BY <1>0 DEF InSight
  <2>3. [scan |-> s, meta |-> meta] \in index'
    BY <1>2 DEF Saved
  <2>4. Known[s] \subseteq meta /\ \A r \in held : r.meta \subseteq meta
    BY <1>2 DEF RecordsInv, RecordFilesInv, ArchiveBase, HolderWrites, Writing
  <2>5. \A r \in index' : r.scan \in Scans
    BY <2>2, <1>0 DEF RecordsInv, RecordFilesInv, ArchiveBase, ArchiveTypeOK, Record
  <2>6. OneRecordPerPaper'
    <3> SUFFICES ASSUME NEW q \in index', NEW r \in index', Same(q.scan, r.scan)
                 PROVE  q = r
      BY DEF OneRecordPerPaper
    <3>1. Paper[q.scan] = Paper[r.scan]
      BY <2>5, SameIsSamePaper
    <3> QED
      BY <1>0, <2>2, <3>1
  <2>7. ArchivedHaveRecords'
    <3> SUFFICES ASSUME NEW t \in archived' PROVE \E r \in index' : Paper[t] = Paper[r.scan]
      BY DEF ArchivedHaveRecords
    <3> QED
      BY <2>1, <2>2, <2>3, <2>9
  <2>8. ReplacingKeepsFields'
    <3> SUFFICES ASSUME NEW t \in archived', NEW r \in index', Paper[t] = Paper[r.scan]
                 PROVE  Known[t] \subseteq r.meta
      BY DEF ReplacingKeepsFields
    <3>1. CASE r.scan # s
      BY <1>0, <2>1, <2>2, <3>1
    <3>2. CASE r.scan = s /\ t = s
      BY <2>2, <2>4, <3>2
    <3>3. CASE r.scan = s /\ t # s
      <4>1. t \in InSight /\ t \in archived
        BY <2>1, <3>3
      <4>2. PICK q \in index : Paper[t] = Paper[q.scan] /\ q \in loaded \cup held
        BY <2>9, <4>1
      <4>3. q \in held
        <5>1. q.scan # s
          BY <1>2, NotYetRecorded DEF RecordsInv, RecordFilesInv
        <5>2. Paper[q.scan] = Paper[s]
          BY <3>3, <4>2
        <5> QED
          BY <2>2, <4>2, <5>1, <5>2
      <4>4. Known[t] \subseteq q.meta /\ q.meta \subseteq meta
        BY <1>0, <2>4, <4>1, <4>2, <4>3
      <4> QED
        BY <2>2, <3>3, <4>4
    <3> QED
      BY <3>1, <3>2, <3>3
  <2> QED
    BY <2>6, <2>7, <2>8
<1>3. CASE Reconcile /\ index' \subseteq index
  <2>1. archived' = {s \in archived : \E r \in index' : Paper[s] = Paper[r.scan]}
    BY <1>3 DEF Reconcile
  <2> QED
    BY <1>0, <1>3, <2>1
<1>4. ArchiveBase
  BY DEF RecordsInv, RecordFilesInv
<1> QED
  BY <1>1, <1>2, <1>3, <1>4, IndexSteps

(* Only a replacement takes a document out without accounting for it.        *)
LEMMA AccountedStep ==
    ASSUME [ArchiveNext]_archiveVars, \A s \in Scans : ~ Replace(s)
    PROVE  Accounted \subseteq Accounted'
<1> USE DEF Accounted, history, files
<1>1. ASSUME NEW s \in Scans, Stage(s) \/ Reject(s) \/ Finish(s) \/ FailToBegin(s) \/ Acquire(s) \/ Enrich(s)
      PROVE  Accounted \subseteq Accounted'
  BY <1>1 DEF Stage, Reject, Finish, FailToBegin, Acquire, Enrich
<1>2. ASSUME NEW s \in Scans, Discard(s) \/ WritePdf(s) \/ WriteSidecar(s) \/ SaveIndex(s)
      PROVE  Accounted \subseteq Accounted'
  BY <1>2 DEF Discard, WritePdf, WriteSidecar, SaveIndex
<1>3. ASSUME NEW s \in Scans, AppendLog(s) \/ Fail(s) \/ UserRemoves(s)
      PROVE  Accounted \subseteq Accounted'
  BY <1>3 DEF AppendLog, Fail, UserRemoves
<1>4. ASSUME NEW s \in Scans,
             (\E p \in Series : Candidate(s, p)) \/ (\E force \in BOOLEAN : Capture(s, force))
      PROVE  Accounted \subseteq Accounted'
  BY <1>4 DEF Candidate, Capture
<1>5. ASSUME NEW p \in Series, NEW s \in Scans, NEW force \in BOOLEAN, Take(p, s, force)
      PROVE  Accounted \subseteq Accounted'
  BY <1>5 DEF Take
<1>6. CASE Pruning \/ Reconcile \/ Crash
  BY <1>6 DEF Pruning, PruneIndex, PruneSeries, PruneFile, PruneEnd, Reconcile, Crash
<1>7. CASE UNCHANGED archiveVars
  BY <1>7 DEF archiveVars
<1> QED
  BY <1>1, <1>2, <1>3, <1>4, <1>5, <1>6, <1>7 DEF ArchiveNext, Request, Pruning

(* A replacement goes on, breaks off, or is saved.                           *)
LEMMA ReplacementStep ==
    ASSUME RecordsInv, [ArchiveNext]_archiveVars, NEW r \in index, BeingReplaced(r)
    PROVE  \/ r \in index' /\ BeingReplaced(r)'
           \/ r.scan \in Accounted'
           \/ \E s \in Scans : SaveIndex(s) /\ r \in held
<1> USE DEF history, files, work
<1>0. ArchiveTypeOK /\ LockIsHeld /\ CandidatesWait
  BY DEF RecordsInv, RecordFilesInv, ArchiveBase
<1>1. PICK h \in Scans : lock = h /\ at[h] \in Writing /\ r \in held
  BY DEF BeingReplaced
<1>2. \A t \in Scans : t # h => at[t] \notin Locked
  BY <1>0, <1>1, OneHolder DEF Locked
<1>3. ASSUME UNCHANGED <<index, lock, held>>, at'[h] \in Writing
      PROVE  r \in index' /\ BeingReplaced(r)'
  BY <1>1, <1>3 DEF BeingReplaced
<1>4. ASSUME NEW s \in Scans, Stage(s) \/ Reject(s) \/ Finish(s) \/ FailToBegin(s)
      PROVE  r \in index' /\ BeingReplaced(r)'
  <2>1. UNCHANGED <<index, lock, held>>
    BY <1>4 DEF Stage, Reject, Finish, FailToBegin
  <2>2. at'[h] = at[h]
    BY <1>0, <1>1, <1>4, RequestMoves DEF Moves, Writing
  <2> QED
    BY <1>1, <1>3, <2>1, <2>2
<1>5. ASSUME NEW s \in Scans,
             (\E p \in Series : Candidate(s, p)) \/ (\E force \in BOOLEAN : Capture(s, force))
      PROVE  r \in index' /\ BeingReplaced(r)'
  <2>1. UNCHANGED <<index, lock, held>>
    BY <1>5 DEF Candidate, Capture
  <2>2. at'[h] = at[h]
    BY <1>0, <1>1, <1>5, RequestMoves DEF Moves, Writing
  <2> QED
    BY <1>1, <1>3, <2>1, <2>2
<1>6. ASSUME NEW p \in Series, NEW s \in Scans, NEW force \in BOOLEAN, Take(p, s, force)
      PROVE  r \in index' /\ BeingReplaced(r)'
  <2>1. UNCHANGED <<index, lock, held>>
    BY <1>6 DEF Take
  <2>2. at'[h] = at[h]
    BY <1>0, <1>1, <1>6 DEF Take, CandidatesWait, Writing
  <2> QED
    BY <1>1, <1>3, <2>1, <2>2
<1>7. ASSUME NEW s \in Scans, Acquire(s) PROVE FALSE
  BY <1>1, <1>7, ScansAssumption DEF Acquire
<1>8. ASSUME NEW s \in Scans,
             Enrich(s) \/ Discard(s) \/ Replace(s) \/ AppendLog(s)
      PROVE  FALSE
  <2>1. at[s] \in {"enrich", "discard", "replace", "log"}
    BY <1>8 DEF Enrich, Discard, Replace, AppendLog
  <2> QED
    BY <1>1, <1>2, <2>1 DEF Locked, Writing
<1>9. ASSUME NEW s \in Scans, WritePdf(s) \/ WriteSidecar(s)
      PROVE  r \in index' /\ BeingReplaced(r)'
  <2>1. UNCHANGED <<index, lock, held>> /\ at[s] \in Writing
    BY <1>9 DEF WritePdf, WriteSidecar, Writing
  <2>2. at'[s] \in Writing /\ s = h
    BY <1>0, <1>2, <1>9, <2>1, RequestMoves DEF Moves, Writing, Locked
  <2> QED
    BY <1>3, <2>1, <2>2
<1>10. ASSUME NEW s \in Scans, SaveIndex(s) PROVE \E t \in Scans : SaveIndex(t) /\ r \in held
  BY <1>1, <1>10
<1>11. ASSUME NEW s \in Scans, Fail(s) PROVE r.scan \in Accounted'
  <2>1. at[s] \in Writing \cup {"enrich", "log"} /\ spoiled' = spoiled \cup Broken(s)
    BY <1>11 DEF Fail
  <2>2. s = h
    BY <1>2, <2>1 DEF Locked
  <2> QED
    BY <1>1, <2>1, <2>2 DEF Broken, Accounted
<1>12. ASSUME NEW s \in Scans, UserRemoves(s) PROVE r \in index' /\ BeingReplaced(r)'
  BY <1>1, <1>3, <1>12 DEF UserRemoves
<1>13. CASE Pruning
  BY <1>1, <1>3, <1>13 DEF Pruning, PruneIndex, PruneSeries, PruneFile, PruneEnd
<1>14. CASE Reconcile
  BY <1>1, <1>14, ScansAssumption DEF Reconcile
<1>15. CASE Crash
  BY <1>1, <1>15 DEF Crash, Broken, Accounted
<1>16. CASE UNCHANGED archiveVars
  BY <1>1, <1>3, <1>16 DEF archiveVars
<1> QED
  BY <1>4, <1>5, <1>6, <1>7, <1>8, <1>9, <1>10, <1>11, <1>12, <1>13, <1>14, <1>15, <1>16
     DEF ArchiveNext, Request, Pruning

SeenInv == RecordsInv /\ LoggedIsSeen /\ DuplicatesSeen

(* A paper that was seen is seen for ever.                                   *)
LEMMA SeenStays ==
    ASSUME RecordsInv, [ArchiveNext]_archiveVars, NEW paper, PaperSeen(paper)
    PROVE  PaperSeen(paper)'
<1>0. ArchiveBase /\ ArchiveTypeOK
  BY DEF RecordsInv, RecordFilesInv, ArchiveBase
<1>1. ASSUME NEW t \in Accounted, Paper[t] = paper PROVE PaperSeen(paper)'
  <2>1. CASE t \in Accounted'
    BY <1>1, <2>1 DEF PaperSeen
  <2>2. CASE t \notin Accounted'
    <3>1. PICK s \in Scans : Replace(s)
      BY <2>2, AccountedStep
    <3>2. PICK r \in held : pdfs' = pdfs \ {r.scan}
      BY <3>1 DEF Replace
    <3>3. at[s] = "replace" /\ UNCHANGED <<index, held, lock, removed, spoiled>>
      BY <3>1 DEF Replace, history
    <3>4. lock = s /\ at'[s] = "pdf"
      BY <1>0, <3>1, <3>3, RequestMoves DEF ArchiveBase, LockIsHeld, Locked, Moves
    <3>5. r \in index /\ t = r.scan
      BY <1>0, <2>2, <3>2, <3>3 DEF ArchiveBase, HolderMatches, Accounted
    <3>6. r \in index' /\ BeingReplaced(r)'
      BY <3>2, <3>3, <3>4, <3>5 DEF BeingReplaced, Writing
    <3> QED
      BY <1>1, <3>5, <3>6 DEF PaperSeen
  <2> QED
    BY <2>1, <2>2
<1>2. ASSUME NEW r \in index, BeingReplaced(r), Paper[r.scan] = paper PROVE PaperSeen(paper)'
  <2>1. CASE r \in index' /\ BeingReplaced(r)'
    BY <1>2, <2>1 DEF PaperSeen
  <2>2. CASE r.scan \in Accounted'
    BY <1>2, <2>2 DEF PaperSeen
  <2>3. ASSUME NEW s \in Scans, SaveIndex(s), r \in held PROVE PaperSeen(paper)'
    <3>1. at[s] = "save" /\ UNCHANGED <<pdfs, removed, spoiled>>
      BY <2>3 DEF SaveIndex, files
    <3>2. s \in Accounted /\ Same(r.scan, s) /\ r.scan \in Scans
      BY <1>0, <2>3, <3>1
         DEF ArchiveBase, HolderWrites, HolderMatches, Writing, ArchiveTypeOK, Record
    <3>3. s \in Accounted' /\ Paper[s] = paper
      BY <1>2, <3>1, <3>2, SameIsSamePaper DEF Accounted
    <3> QED
      BY <3>3 DEF PaperSeen
  <2> QED
    BY <1>2, <2>1, <2>2, <2>3, ReplacementStep
<1> QED
  BY <1>1, <1>2 DEF PaperSeen

(* What is logged, and who comes to log it.                                  *)
LEMMA LogSteps ==
    ASSUME ArchiveBase, [ArchiveNext]_archiveVars
    PROVE  /\ \/ log' = log
              \/ lock = NoHolder /\ log' \subseteq log \cup Backfill(index)
              \/ \E s \in Scans : AppendLog(s) /\ at[s] = "log" /\ log' = log \cup {Ident[s]}
           /\ \A s \in Scans : at'[s] = "log" => at[s] = "log" \/ Discard(s) \/ SaveIndex(s)
           /\ \A s \in Scans :
                  at'[s] = "discard" => at[s] = "discard" \/ Enrich(s) \/ Acquire(s)
<1> DEFINE Logs == \/ log' = log
                   \/ lock = NoHolder /\ log' \subseteq log \cup Backfill(index)
                   \/ \E s \in Scans :
                          AppendLog(s) /\ at[s] = "log" /\ log' = log \cup {Ident[s]}
           Quiet == \A t \in Scans : at'[t] \in {"log", "discard"} => at'[t] = at[t]
           Comes == \A t \in Scans :
                        /\ at'[t] = "log" => at[t] = "log" \/ Discard(t) \/ SaveIndex(t)
                        /\ at'[t] = "discard" => at[t] = "discard" \/ Enrich(t) \/ Acquire(t)
<1> USE DEF history, files, work
<1>0. ArchiveTypeOK
  BY DEF ArchiveBase
<1>1. ASSUME NEW s \in Scans, Stage(s) \/ Reject(s) \/ Finish(s) PROVE Logs /\ Quiet
  <2>1. log' = log
    BY <1>1 DEF Stage, Reject, Finish
  <2>2. at'[s] \notin {"log", "discard"} /\ \A t \in Scans : t # s => at'[t] = at[t]
    BY <1>0, <1>1, RequestMoves DEF Moves
  <2> QED
    BY <2>1, <2>2
<1>2. ASSUME NEW s \in Scans,
             (\E p \in Series : Candidate(s, p)) \/ (\E force \in BOOLEAN : Capture(s, force))
      PROVE  Logs /\ Quiet
  <2>1. log' = log
    BY <1>2 DEF Candidate, Capture
  <2>2. at'[s] \notin {"log", "discard"} /\ \A t \in Scans : t # s => at'[t] = at[t]
    BY <1>0, <1>2, RequestMoves DEF Moves
  <2> QED
    BY <2>1, <2>2
<1>3. ASSUME NEW p \in Series, NEW s \in Scans, NEW force \in BOOLEAN, Take(p, s, force)
      PROVE  Logs /\ Quiet
  BY <1>3 DEF Take
<1>13. ASSUME NEW s \in Scans, FailToBegin(s) PROVE Logs /\ Quiet
  <2>1. Logs
    BY <1>13 DEF FailToBegin
  <2>2. at'[s] = "done" /\ \A t \in Scans : t # s => at'[t] = at[t]
    BY <1>0, <1>13, RequestMoves DEF Moves
  <2> QED
    BY <2>1, <2>2
<1>4. ASSUME NEW s \in Scans, Acquire(s) PROVE Logs /\ Comes
  <2>1. Logs
    BY <1>4 DEF Acquire, Load, Backfill
  <2>2. at'[s] # "log" /\ \A t \in Scans : t # s => at'[t] = at[t]
    BY <1>0, <1>4, RequestMoves DEF Moves
  <2> QED
    BY <1>4, <2>1, <2>2
<1>5. ASSUME NEW s \in Scans, Enrich(s) \/ Discard(s) \/ SaveIndex(s) PROVE Logs /\ Comes
  <2>1. log' = log
    BY <1>5 DEF Enrich, Discard, SaveIndex
  <2>2. /\ at'[s] = IF Enrich(s) THEN "discard" ELSE "log"
        /\ \A t \in Scans : t # s => at'[t] = at[t]
    BY <1>0, <1>5, RequestMoves DEF Moves
  <2> QED
    BY <1>5, <2>1, <2>2
<1>6. ASSUME NEW s \in Scans, Replace(s) \/ WritePdf(s) \/ WriteSidecar(s) \/ Fail(s)
      PROVE  Logs /\ Quiet
  <2>1. log' = log
    BY <1>6 DEF Replace, WritePdf, WriteSidecar, Fail
  <2>2. at'[s] \notin {"log", "discard"} /\ \A t \in Scans : t # s => at'[t] = at[t]
    BY <1>0, <1>6, RequestMoves DEF Moves
  <2> QED
    BY <2>1, <2>2
<1>7. ASSUME NEW s \in Scans, AppendLog(s) PROVE Logs /\ Quiet
  <2>1. Logs
    BY <1>7 DEF AppendLog
  <2>2. at'[s] = "done" /\ \A t \in Scans : t # s => at'[t] = at[t]
    BY <1>0, <1>7, RequestMoves DEF Moves
  <2> QED
    BY <2>1, <2>2
<1>8. ASSUME NEW s \in Scans, UserRemoves(s) PROVE Logs /\ Quiet
  BY <1>8 DEF UserRemoves
<1>9. CASE Pruning \/ Reconcile \/ Crash
  BY <1>9 DEF Pruning, PruneIndex, PruneSeries, PruneFile, PruneEnd, Reconcile, Crash
<1>10. CASE UNCHANGED archiveVars
  BY <1>10 DEF archiveVars
<1>11. Quiet => Comes
  OBVIOUS
<1>12. Logs /\ (Quiet \/ Comes)
  BY <1>1, <1>2, <1>3, <1>4, <1>5, <1>6, <1>7, <1>8, <1>9, <1>10, <1>13
     DEF ArchiveNext, Request, Pruning
<1> QED
  BY <1>11, <1>12

LEMMA SeenStep ==
    ASSUME SeenInv, [ArchiveNext]_archiveVars PROVE LoggedIsSeen' /\ DuplicatesSeen'
<1>0. /\ RecordsInv /\ ArchiveBase /\ ArchiveTypeOK /\ LockIsHeld
      /\ LoggedIsSeen /\ DuplicatesSeen /\ RecordsHaveTheirPdf
  BY DEF SeenInv, RecordsInv, RecordFilesInv, ArchiveBase
<1>1. \A t \in Accounted : t \in Scans
  BY <1>0 DEF Accounted, ArchiveTypeOK
<1>2. LoggedIsSeen'
  <2> SUFFICES ASSUME NEW s \in Scans, Ident[s] \in log' \/ at'[s] = "log"
               PROVE  PaperSeen(Paper[s])'
    BY DEF LoggedIsSeen
  <2>1. ASSUME PaperSeen(Paper[s]) PROVE PaperSeen(Paper[s])'
    BY <1>0, <2>1, SeenStays
  <2>2. CASE Ident[s] \in log
    BY <1>0, <2>1, <2>2 DEF LoggedIsSeen
  <2>3. ASSUME lock = NoHolder, Ident[s] \in Backfill(index) PROVE PaperSeen(Paper[s])'
    <3>1. PICK r \in index : Ident[s] = Ident[r.scan]
      BY <2>3 DEF Backfill
    <3>3. r.scan \in Accounted
      BY <1>0, <2>3, ScansAssumption DEF RecordsHaveTheirPdf, BeingReplaced, Accounted
    <3>4. Paper[s] = Paper[r.scan]
      BY <1>1, <3>1, <3>3, IdsAssumption
    <3> QED
      BY <2>1, <3>3, <3>4 DEF PaperSeen
  <2>4. ASSUME NEW u \in Scans, at[u] = "log", Ident[s] = Ident[u] PROVE PaperSeen(Paper[s])'
    <3>1. PaperSeen(Paper[u]) /\ Paper[u] = Paper[s]
      BY <1>0, <2>4, IdsAssumption DEF LoggedIsSeen
    <3> QED
      BY <2>1, <3>1
  <2>5. CASE Discard(s)
    <3>1. PICK t \in Accounted : Same(s, t)
      BY <1>0, <2>5 DEF Discard, DuplicatesSeen
    <3>2. Paper[t] = Paper[s]
      BY <1>1, <3>1, SameIsSamePaper
    <3> QED
      BY <2>1, <3>2 DEF PaperSeen
  <2>6. CASE SaveIndex(s)
    <3>1. s \in Accounted
      BY <1>0, <2>6 DEF SaveIndex, ArchiveBase, HolderWrites
    <3> QED
      BY <2>1, <3>1 DEF PaperSeen
  <2> QED
    BY <1>0, <2>2, <2>3, <2>4, <2>5, <2>6, LogSteps
<1>3. DuplicatesSeen'
  <2> SUFFICES ASSUME NEW s \in Scans, at'[s] = "discard"
               PROVE  \E t \in Accounted' : t # s /\ Same(s, t)
    BY DEF DuplicatesSeen, Same
  <2>1. CASE at[s] = "discard"
    <3>1. \A u \in Scans : ~ Replace(u)
      BY <1>0, <2>1, OneHolder DEF Replace, Locked
    <3> QED
      BY <1>0, <2>1, <3>1, AccountedStep DEF DuplicatesSeen
  <2>2. CASE Enrich(s)
    <3>1. at[s] = "enrich" /\ UNCHANGED <<pdfs, removed, spoiled>>
      BY <2>2 DEF Enrich, history
    <3>2. PICK r \in held : r \in index /\ Same(r.scan, s)
      BY <1>0, <3>1 DEF ArchiveBase, HolderMatches
    <3>3. ~ BeingReplaced(r) /\ r.scan # s
      <4>1. \A t \in Scans : at[t] \notin Writing
        BY <1>0, <3>1, OneHolder DEF Locked, Writing
      <4>2. r.scan # s
        BY <1>0, <3>1, <3>2, NotYetRecorded
      <4> QED
        BY <4>1, <4>2 DEF BeingReplaced
    <3>4. r.scan \in Accounted
      BY <1>0, <3>2, <3>3 DEF RecordsHaveTheirPdf, Accounted
    <3>5. Accounted' = Accounted
      BY <3>1 DEF Accounted
    <3> QED
      BY <3>2, <3>3, <3>4, <3>5 DEF Same
  <2>3. CASE Acquire(s)
    <3>1. at[s] = "archive" /\ lock = NoHolder /\ UNCHANGED <<pdfs, removed, spoiled>>
      BY <2>3 DEF Acquire, history, files
    <3>2. Ident[s] \in log
      BY <1>0, <2>3 DEF Acquire, Proceed, Logged, ArchiveTypeOK
    <3>3. PaperSeen(Paper[s])
      BY <1>0, <3>2 DEF LoggedIsSeen
    <3>4. PICK t \in Accounted : Paper[t] = Paper[s]
      BY <3>1, <3>3, ScansAssumption DEF PaperSeen, BeingReplaced
    <3>5. t # s
      BY <1>0, <3>1 DEF ArchiveBase, RecordsFollowRequests
    <3>6. Accounted' = Accounted
      BY <3>1 DEF Accounted
    <3> QED
      BY <3>4, <3>5, <3>6 DEF Same
  <2> QED
    BY <1>0, <2>1, <2>2, <2>3, LogSteps
<1> QED
  BY <1>2, <1>3

-----------------------------------------------------------------------------
LEMMA SeenInvStep == SeenInv /\ [ArchiveNext]_archiveVars => SeenInv'
<1> SUFFICES ASSUME SeenInv, [ArchiveNext]_archiveVars PROVE SeenInv'
  OBVIOUS
<1>1. RecordsInv /\ RecordFilesInv /\ ArchiveBase
  BY DEF SeenInv, RecordsInv, RecordFilesInv
<1>2. RecordFilesInv'
  BY <1>1, BaseStep, RecordFilesStep DEF RecordFilesInv
<1>3. archived' \subseteq Scans
  BY <1>2 DEF RecordFilesInv, ArchiveBase, ArchiveTypeOK
<1>4. RecordsInv'
  BY <1>1, <1>2, <1>3, RecordsStep DEF RecordsInv
<1> QED
  BY <1>4, SeenStep DEF SeenInv

LEMMA SeenInvInit == ArchiveInit => SeenInv
<1> SUFFICES ASSUME ArchiveInit PROVE SeenInv
  OBVIOUS
<1>1. index = {} /\ archived = {} /\ log = {} /\ \A s \in Scans : at[s] = "new"
  BY DEF ArchiveInit
<1> QED
  BY <1>1, InitBase DEF SeenInv, RecordsInv, RecordFilesInv, RecordsHaveTheirPdf,
     FramesOfRecordsStay, OneRecordPerPaper, ArchivedHaveRecords, ReplacingKeepsFields,
     LoggedIsSeen, DuplicatesSeen

(* Theorem: the inductive invariant of the archive: its lock, its series,    *)
(* what the holder of the lock knows of the index, the files of the records, *)
(* and the papers the log has seen.                                          *)
THEOREM ArchiveInvariant == ArchiveSpec => []SeenInv
  BY SeenInvInit, SeenInvStep, PTL DEF ArchiveSpec

(* Theorem: the variables of the archive keep their types.                   *)
THEOREM ArchiveTypeCorrect == ArchiveSpec => []ArchiveTypeOK
<1>1. SeenInv => ArchiveTypeOK
  BY DEF SeenInv, RecordsInv, RecordFilesInv, ArchiveBase
<1> QED
  BY <1>1, ArchiveInvariant, PTL

(* Theorem: for any frames, series and requests at once, the index has one   *)
(* record per paper, crash or error or not.                                  *)
THEOREM PapersAreFiledOnce == ArchiveSpec => []OneRecordPerPaper
<1>1. SeenInv => OneRecordPerPaper
  BY DEF SeenInv, RecordsInv
<1> QED
  BY <1>1, ArchiveInvariant, PTL

(* Theorem: a record without its PDF was emptied by the user, or by a        *)
(* replacement that is under way or broke off.                               *)
THEOREM RecordsPointAtPdfs == ArchiveSpec => []RecordsHaveTheirPdf
<1>1. SeenInv => RecordsHaveTheirPdf
  BY DEF SeenInv, RecordsInv, RecordFilesInv
<1> QED
  BY <1>1, ArchiveInvariant, PTL

(* Theorem: pruning, rejection and the removal of duplicates spare the       *)
(* frames of records, but for those whose request or whose record the        *)
(* pruning could not see when it read what to keep.                          *)
THEOREM RecordsKeepFrames == ArchiveSpec => []FramesOfRecordsStay
<1>1. SeenInv => FramesOfRecordsStay
  BY DEF SeenInv, RecordsInv, RecordFilesInv
<1> QED
  BY <1>1, ArchiveInvariant, PTL

(* Theorem: no sequence of replacements loses a field that was recognised    *)
(* on a frame of the paper while it had a record, until a request archives   *)
(* without having read the index.                                            *)
THEOREM ReplacementsKeepFields == ArchiveSpec => []ReplacingKeepsFields
<1>1. SeenInv => ReplacingKeepsFields
  BY DEF SeenInv, RecordsInv
<1> QED
  BY <1>1, ArchiveInvariant, PTL

(* Theorem: a frame is thrown away as a duplicate only of a document that is *)
(* in the archive, or was and is known to be lost.                           *)
THEOREM DuplicatesHaveAnOriginal == ArchiveSpec => DuplicatesAreKept
<1>1. ASSUME SeenInv, NEW s \in Scans, at[s] = "discard"
      PROVE  \E t \in pdfs \cup removed \cup spoiled : t # s /\ Same(s, t)
  BY <1>1 DEF SeenInv, DuplicatesSeen, Accounted
<1>2. SeenInv /\ [ArchiveNext]_archiveVars =>
        [\A s \in Scans : (at[s] = "discard" /\ s \in staged \ staged') =>
            \E t \in pdfs \cup removed \cup spoiled : t # s /\ Same(s, t)]_archiveVars
  BY <1>1
<1> QED
  BY <1>2, ArchiveInvariant, PTL DEF ArchiveSpec, DuplicatesAreKept
=============================================================================
