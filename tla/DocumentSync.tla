---------------------------- MODULE DocumentSync ----------------------------
(***************************************************************************)
(* Copying the document archive to a node: sync_documents_to_node of       *)
(* urirun_scanner/document_sync.py lists the PDFs, uploads them one by one *)
(* (fs write-b64), reads each back, and reports; the chat may run a failed *)
(* sync once more.  The node runs every upload in a process of its own,    *)
(* which finds a name and then moves the file to it; a call that timed out *)
(* on the host may still run there.  Meanwhile the archive may replace or  *)
(* remove a PDF.                                                           *)
(*                                                                         *)
(* The bytes of a PDF are its version; the copies of a file on the node    *)
(* are numbered, 0 being the name it was asked for.                        *)
(***************************************************************************)
EXTENDS Naturals, FiniteSets

CONSTANTS
    Syncs,        \* syncs of the archive to the node
    NFiles,       \* the PDFs, in the order of their names
    Overwrites,   \* the syncs that were asked to overwrite
    Changing,     \* bound: the PDFs that change
    MaxVersion,   \* bound: how often one does
    MaxCopies,    \* bound: the copies of a file
    MaxLate,      \* bound: the uploads that run on though nobody waits any more
    Repeated      \* the syncs of the chat, which repeats one that failed, once

ASSUME SyncAssumption ==
    /\ NFiles \in Nat /\ MaxVersion \in Nat /\ MaxCopies \in Nat /\ MaxLate \in Nat
    /\ Changing \subseteq 1..NFiles /\ Overwrites \subseteq Syncs /\ Repeated \subseteq Syncs

Files == 1..NFiles
Paths == Files \X (0..MaxCopies)
NoFile == MaxVersion + 1
NoPath == <<0, 0>>

VARIABLES
    archive,      \* the version of each PDF on the host, or NoFile
    node,         \* the version at each path of the node, or NoFile
    uploads,      \* the uploads that may still run, if never, or whose answer is awaited
    pc,           \* where each sync is
    tries,        \* how often the chat has repeated it
    listed,       \* the PDFs it listed
    next,         \* the one it uploads or reads back
    read,         \* the version it read of each
    acked,        \* the path the node acknowledged for each, or NoPath
    verified,     \* those it read back
    replaced,     \* paths a later upload wrote after they were read back
    troubled      \* syncs with a call that failed, or a file another upload wrote over

syncVars == <<pc, tries, listed, next, read, acked, verified>>
vars == <<archive, node, uploads, syncVars, replaced, troubled>>

Init ==
    /\ archive = [f \in Files |-> 0]
    /\ node = [p \in Paths |-> NoFile]
    /\ uploads = {}
    /\ pc = [s \in Syncs |-> "start"]
    /\ tries = [s \in Syncs |-> 0]
    /\ listed = [s \in Syncs |-> {}]
    /\ next = [s \in Syncs |-> 1]
    /\ read = [s \in Syncs |-> [f \in Files |-> NoFile]]
    /\ acked = [s \in Syncs |-> [f \in Files |-> NoPath]]
    /\ verified = [s \in Syncs |-> {}]
    /\ replaced = [s \in Syncs |-> {}]
    /\ troubled = {}

Goto(s, there) == pc' = [pc EXCEPT ![s] = there]

(* The loops over the files: the next one of a set, or past the last.        *)
Following(f, S) ==
    IF \E g \in S : g >= f THEN CHOOSE g \in S : g >= f /\ \A k \in S : k >= f => g <= k
    ELSE NFiles + 1

-----------------------------------------------------------------------------
(* The sync. *)

(* What the sync knows of the files it found, its results being gone.        *)
Forget(s, found) ==
    /\ listed' = [listed EXCEPT ![s] = found]
    /\ next' = [next EXCEPT ![s] = Following(1, found)]
    /\ read' = [read EXCEPT ![s] = [f \in Files |-> NoFile]]
    /\ acked' = [acked EXCEPT ![s] = [f \in Files |-> NoPath]]
    /\ verified' = [verified EXCEPT ![s] = {}]
    /\ replaced' = [replaced EXCEPT ![s] = {}]

(* _log_and_chat_report guards the log but not the chat: when that cannot be *)
(* written the sync raises, whatever its report was to say.                  *)
EndAs(s, verdict) == Goto(s, verdict) \/ Goto(s, "raised")

(* The routes are checked before anything is sent: a node that lacks them    *)
(* ends the sync with a report that names every file as failed.              *)
List(s) ==
    /\ pc[s] = "start"
    /\ LET found == {f \in Files : archive[f] # NoFile}
       IN  \/ Forget(s, found) /\ Goto(s, "upload") /\ troubled' = troubled \ {s}
           \/ /\ Forget(s, {}) /\ EndAs(s, "failed") /\ found # {}
              /\ troubled' = troubled \cup {s}
    /\ UNCHANGED <<archive, node, uploads, tries>>

Upload(s, f) ==
    [sync |-> s, try |-> tries[s], file |-> f, version |-> archive[f],
     at |-> "asked", path |-> NoPath]
Awaited(s) == {u \in uploads : u.sync = s /\ u.try = tries[s] /\ u.file = next[s]}

Late == {u \in uploads : pc[u.sync] # "uploading" \/ u \notin Awaited(u.sync)}

(* _upload_file reads the PDF outside its try: one that is gone by then, or  *)
(* cannot be read, ends the whole sync, without a report.                    *)
Ask(s) ==
    /\ pc[s] = "upload" /\ next[s] \in Files
    /\ \/ /\ archive[next[s]] # NoFile
          /\ uploads' = uploads \cup {Upload(s, next[s])}
          /\ read' = [read EXCEPT ![s][next[s]] = archive[next[s]]]
          /\ Goto(s, "uploading")
          /\ UNCHANGED <<listed, next, acked, verified, replaced>>
       \/ Goto(s, "raised") /\ Forget(s, {}) /\ UNCHANGED uploads
    /\ UNCHANGED <<archive, node, tries, troubled>>

(* The node's answer names the file it wrote, whose checksum is compared.    *)
Acknowledged(s) ==
    /\ pc[s] = "uploading"
    /\ \E u \in Awaited(s) :
        /\ u.at = "written"
        /\ acked' = [acked EXCEPT ![s][next[s]] = u.path]
        /\ uploads' = uploads \ {u}
    /\ next' = [next EXCEPT ![s] = Following(next[s] + 1, listed[s])]
    /\ Goto(s, "upload")
    /\ UNCHANGED <<archive, node, tries, listed, read, verified, replaced, troubled>>

\* Mutant: the next file is the same one.
UnansweredAgain(s) ==
    /\ pc[s] = "uploading"
    /\ Goto(s, "upload")
    /\ UNCHANGED <<archive, node, uploads, tries, listed, next, read, acked, verified, replaced,
                   troubled>>

(* No answer in time, or an error: the file counts as failed.  The upload is *)
(* lost, or done with its answer lost, or may still run at any later time.   *)
Unanswered(s) ==
    /\ pc[s] = "uploading"
    /\ \/ uploads' = uploads \ Awaited(s)
       \/ /\ \A u \in Awaited(s) : u.at # "written"
          /\ Cardinality(Late) < MaxLate
          /\ UNCHANGED uploads
    /\ troubled' = troubled \cup {s}
    /\ next' = [next EXCEPT ![s] = Following(next[s] + 1, listed[s])]
    /\ Goto(s, "upload")
    /\ UNCHANGED <<archive, node, tries, listed, read, acked, verified, replaced>>

AckedFiles(s) == {f \in listed[s] : acked[s][f] # NoPath}

(* All are uploaded: those that were acknowledged are read back.             *)
Uploaded(s) ==
    /\ pc[s] = "upload" /\ next[s] \notin Files
    /\ next' = [next EXCEPT ![s] = Following(1, AckedFiles(s))]
    /\ Goto(s, "verify")
    /\ UNCHANGED <<archive, node, uploads, tries, listed, read, acked, verified, replaced, troubled>>

\* Mutant: an acknowledged file is taken for a copied one.
ReadNothingBack(s) ==
    /\ pc[s] = "verify" /\ next[s] \in Files
    /\ verified' = [verified EXCEPT ![s] = @ \cup {next[s]}]
    /\ next' = [next EXCEPT ![s] = Following(next[s] + 1, AckedFiles(s))]
    /\ UNCHANGED <<archive, node, uploads, pc, tries, listed, read, acked, replaced, troubled>>

\* Mutant: the file is looked for at the name that was asked for.
ReadBackAsked(s) ==
    /\ pc[s] = "verify" /\ next[s] \in Files
    /\ \/ /\ node[<<next[s], 0>>] = read[s][next[s]]
          /\ verified' = [verified EXCEPT ![s] = @ \cup {next[s]}]
       \/ node[<<next[s], 0>>] # read[s][next[s]] /\ UNCHANGED verified
    /\ next' = [next EXCEPT ![s] = Following(next[s] + 1, AckedFiles(s))]
    /\ UNCHANGED <<archive, node, uploads, pc, tries, listed, read, acked, replaced, troubled>>

(* The file at the acknowledged path is verified when its checksum is that   *)
(* of the bytes that were sent; the read may also fail.                      *)
ReadBack(s) ==
    /\ pc[s] = "verify" /\ next[s] \in Files
    /\ \/ /\ node[acked[s][next[s]]] = read[s][next[s]]
          /\ verified' = [verified EXCEPT ![s] = @ \cup {next[s]}]
          /\ UNCHANGED troubled
       \/ node[acked[s][next[s]]] # read[s][next[s]] /\ UNCHANGED <<verified, troubled>>
       \/ troubled' = troubled \cup {s} /\ UNCHANGED verified
    /\ next' = [next EXCEPT ![s] = Following(next[s] + 1, AckedFiles(s))]
    /\ UNCHANGED <<archive, node, uploads, pc, tries, listed, read, acked, replaced>>

(* file_transfer_verification: every listed file acknowledged and verified.  *)
Report(s) ==
    /\ pc[s] = "verify" /\ next[s] \notin Files
    /\ \/ /\ verified[s] = listed[s] /\ EndAs(s, "ok")
          /\ UNCHANGED <<listed, next, read, acked, verified, replaced>>
       \/ /\ verified[s] # listed[s] /\ EndAs(s, "failed")
          /\ Forget(s, {})
    /\ UNCHANGED <<archive, node, uploads, tries, troubled>>

(* The chat repeats a sync that failed or raised when urifix offers that.    *)
Retry(s) ==
    /\ pc[s] \in {"failed", "raised"} /\ s \in Repeated /\ tries[s] = 0
    /\ tries' = [tries EXCEPT ![s] = @ + 1]
    /\ Goto(s, "start")
    /\ UNCHANGED <<archive, node, uploads, listed, next, read, acked, verified, replaced, troubled>>

-----------------------------------------------------------------------------
(* The node: write_b64 in a process of its own. *)

Free(p) == node[p] = NoFile

\* Mutant: the name that was asked for is taken though a file has it.
NameAsAsked(u) ==
    /\ u.at = "asked"
    /\ uploads' = (uploads \ {u}) \cup {[u EXCEPT !.at = "named", !.path = <<u.file, 0>>]}
    /\ UNCHANGED <<archive, node, syncVars, replaced, troubled>>

(* _unique_path: the first free name, or the name itself when overwriting.   *)
Name(u) ==
    /\ u.at = "asked"
    /\ \E n \in 0..MaxCopies :
        /\ \/ u.sync \in Overwrites /\ n = 0
           \/ /\ u.sync \notin Overwrites /\ Free(<<u.file, n>>)
              /\ \A m \in 0..MaxCopies : m < n => ~ Free(<<u.file, m>>)
        /\ uploads' = (uploads \ {u}) \cup {[u EXCEPT !.at = "named", !.path = <<u.file, n>>]}
    /\ UNCHANGED <<archive, node, syncVars, replaced, troubled>>

(* Others that have the same name in mind and do not know that it is taken.  *)
Beaten(v, u) == v # u /\ v.at = "named" /\ v.path = u.path

(* A sync whose upload of some file has written this path, and which has not *)
(* ended yet.                                                                *)
WroteTo(s, path) ==
    \/ \E f \in listed[s] : acked[s][f] = path
    \/ \E v \in Awaited(s) : v.at = "written" /\ v.path = path

(* The temporary file replaces whatever is at that name by now; an answer    *)
(* nobody waits for any more is lost.                                        *)
Write(u) ==
    /\ u.at \in {"named", "beaten"}
    /\ node' = [node EXCEPT ![u.path] = u.version]
    /\ uploads' =
        {IF Beaten(v, u) THEN [v EXCEPT !.at = "beaten"] ELSE v : v \in uploads \ {u}}
            \cup {[v EXCEPT !.at = "written"] :
                    v \in {u} \ Late}
    /\ replaced' = [s \in Syncs |->
        IF \E f \in verified[s] : acked[s][f] = u.path THEN replaced[s] \cup {u.path}
        ELSE replaced[s]]
    /\ troubled' = troubled \cup {s \in Syncs : WroteTo(s, u.path) /\ node[u.path] # u.version}
    /\ UNCHANGED <<archive, syncVars>>

(* The archive replaces the PDF of a document or takes it away.              *)
Supersede(f) ==
    /\ archive[f] < MaxVersion
    /\ \E v \in {archive[f] + 1, NoFile} : archive' = [archive EXCEPT ![f] = v]
    /\ UNCHANGED <<node, uploads, syncVars, replaced, troubled>>

SyncStep(s) ==
    List(s) \/ Ask(s) \/ Acknowledged(s) \/ Unanswered(s) \/ Uploaded(s) \/ ReadBack(s)
        \/ Report(s)

Next ==
    \/ \E s \in Syncs : SyncStep(s) \/ Retry(s)
    \/ \E u \in uploads : Name(u) \/ Write(u)
    \/ \E f \in Changing : Supersede(f)

Spec == Init /\ [][Next]_vars

(* Every call of a sync returns or times out.                                *)
FairSpec == Spec /\ \A s \in Syncs : WF_vars(SyncStep(s))

-----------------------------------------------------------------------------
(* Properties *)

Requests ==
    [sync : Syncs, try : {0, 1}, file : Files, version : 0..NoFile,
     at : {"asked", "named", "beaten", "written"}, path : Paths \cup {NoPath}]

(* The type invariant; an upload that chose a name has a path.               *)
TypeOK ==
    /\ archive \in [Files -> 0..NoFile] /\ node \in [Paths -> 0..NoFile]
    /\ uploads \subseteq Requests
    /\ \A u \in uploads : u.at # "asked" => u.path \in Paths
    /\ pc \in [Syncs -> {"start", "upload", "uploading", "verify", "ok", "failed", "raised"}]
    /\ tries \in [Syncs -> {0, 1}]
    /\ next \in [Syncs -> 1..(NFiles + 1)]
    /\ listed \in [Syncs -> SUBSET Files] /\ verified \in [Syncs -> SUBSET Files]
    /\ troubled \subseteq Syncs /\ replaced \in [Syncs -> SUBSET Paths]
    /\ read \in [Syncs -> [Files -> 0..NoFile]]
    /\ acked \in [Syncs -> [Files -> Paths \cup {NoPath}]]

(* When a sync reports ok, every PDF it listed is on the node, at the path   *)
(* its entry names and with the bytes it read, though uploads meet at one    *)
(* name, answers are lost and the sync is a retry: unless another upload,    *)
(* perhaps one of its own first try that was late, wrote the path since.     *)
OkMeansCopied ==
    \A s \in Syncs : pc[s] = "ok" =>
        \A f \in listed[s] :
            node[acked[s][f]] = read[s][f] \/ acked[s][f] \in replaced[s]

(* A file on the node gives way to another only for an upload that was asked *)
(* to overwrite, or one that took its name while the name was still free.    *)
NothingReplacedUnasked ==
    [][\A p \in Paths :
        (~ Free(p) /\ node'[p] # node[p]) =>
            \E u \in uploads :
                u.path = p /\ (u.sync \in Overwrites \/ u.at = "beaten")]_vars

(* A sync reports a failure only when a route was missing, one of its calls  *)
(* failed, or another upload wrote over a file of its own before it was read *)
(* back: names the node had to change, PDFs that change under way and late   *)
(* uploads elsewhere do not make it fail.                                    *)
FailsForAReason == \A s \in Syncs : pc[s] = "failed" => s \in troubled

(* Every sync ends.                                                          *)
SyncsEnd == \A s \in Syncs : pc[s] = "upload" ~> pc[s] \in {"ok", "failed", "raised"}
=============================================================================
