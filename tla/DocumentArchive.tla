-------------------------- MODULE DocumentArchive --------------------------
(***************************************************************************)
(* The phone scanner and the document archive of the host                  *)
(* (urirun_scanner/scanner_bridge.py, document_sync.py).  A photographed   *)
(* frame is staged on disk, read, and either archived at once or kept as a *)
(* candidate of a series whose best frame a later request archives.  The   *)
(* archive keeps one document per paper: a PDF and a sidecar on disk, a    *)
(* record in the index, a line in the scanned-id log.  Requests run on     *)
(* threads of the dashboard; a lock of the process guards the archive, but *)
(* not the staging directory, the user's own files, or a crash.            *)
(*                                                                         *)
(* A frame stands for its original and its crop, and names the PDF and the *)
(* sidecar made from it; its metadata is the set of fields it recognises.  *)
(***************************************************************************)
EXTENDS Naturals, FiniteSets

CONSTANTS
    Scans,        \* the frames that are photographed
    Series,       \* the series a scanning page opens
    Paper,        \* the sheet a frame shows
    Ident,        \* the document id computed from a frame's text
    Known,        \* the metadata fields recognised on a frame
    Score,        \* the quality of a frame
    MinScore,     \* the quality below which a frame is turned down
    MaxCrashes,   \* bound: how often the host process dies
    MaxPrunings,  \* bound: how often the staging directory is pruned
    MaxOld,       \* bound: how many frames are old enough to be pruned
    NoHolder      \* nobody holds the index lock

ASSUME ScansAssumption ==
    /\ DOMAIN Paper = Scans /\ DOMAIN Ident = Scans
    /\ \A s \in Scans : Known[s] # {}
    /\ Score \in [Scans -> Nat] /\ MinScore \in Nat /\ MaxCrashes \in Nat /\ MaxPrunings \in Nat /\ MaxOld \in Nat
    /\ NoHolder \notin Scans

(* The document id is a digest of the recognised text, or of the image when  *)
(* there is no text (docid_for_file): frames with one id show one paper.     *)
ASSUME IdsAssumption == \A s, t \in Scans : Ident[s] = Ident[t] => Paper[s] = Paper[t]

VARIABLES
    staged,       \* frames in the staging directory
    series,       \* SCANNER_BEST_SESSIONS: the candidates of each series
    index,        \* index.json: records [scan, meta]
    pdfs,         \* frames whose PDF is in the archive
    sidecar,      \* the fields in each JSON sidecar; {} where there is none
    log,          \* document ids in scanned.id.jsonl
    lock,         \* _DOCUMENT_INDEX_LOCK
    at,           \* where the request about each frame stands
    loaded,       \* the index as the holder of the lock loaded it
    held,         \* the record the holder's frame was matched with, as a set
    meta,         \* the metadata the holder will archive
    pruning,      \* where prune_scanner_staging stands
    doomed,       \* the frames it will delete, by what it has read so far
    late,         \* frames it may miss: at work, or unread, at its first look
    prunings,     \* how often it was pruned
    crashes,      \* how often the process died
    removed,      \* frames whose archive files the user took away
    spoiled,      \* frames whose document a broken replacement destroyed
    unkept,       \* frames a pruning missed for one of these two reasons
    archived      \* frames whose paper's record has been in sight ever since

archiveVars == <<staged, series, index, pdfs, sidecar, log, lock, at, loaded,
          held, meta, pruning, doomed, late, prunings, crashes, removed, spoiled,
          unkept, archived>>
history == <<crashes, removed, spoiled, unkept, archived>>
prune == <<pruning, doomed, late, prunings>>
files == <<pdfs, sidecar>>
work == <<loaded, held, meta>>

Fields == UNION {Known[s] : s \in Scans}
Record == [scan : Scans, meta : SUBSET Fields]
Writing == {"pdf", "sidecar", "save"}
Locked == Writing \cup {"enrich", "discard", "replace", "log"}
Busy == Locked \cup {"read", "taken", "archive"}

(* The locals of a request end with it. *)
Leave == lock' = NoHolder /\ loaded' = {} /\ held' = {} /\ meta' = {}
Proceed(s, there) == at' = [at EXCEPT ![s] = there]
Completeness(m) == Cardinality(m)
Good(s) == Score[s] >= MinScore

ArchiveInit ==
    /\ staged = {} /\ series = [b \in Series |-> {}]
    /\ index = {} /\ pdfs = {} /\ sidecar = [s \in Scans |-> {}] /\ log = {}
    /\ lock = NoHolder /\ at = [s \in Scans |-> "new"]
    /\ loaded = {} /\ held = {} /\ meta = {}
    /\ pruning = "idle" /\ doomed = {} /\ late = {} /\ prunings = 0
    /\ crashes = 0 /\ removed = {} /\ spoiled = {} /\ unkept = {} /\ archived = {}

-----------------------------------------------------------------------------
(* The scanner: frames, series and the staging directory. *)

(* scanner_capture writes the frame before it reads it. *)
Stage(s) ==
    /\ at[s] = "new"
    /\ staged' = staged \cup {s}
    /\ Proceed(s, "read")
    /\ UNCHANGED <<series, index, files, log, lock, work, prune, history>>

(* A candidate joins its series under the series lock (scanner_best_update). *)
Candidate(s, b) ==
    /\ at[s] = "read"
    /\ series' = [series EXCEPT ![b] = @ \cup {s}]
    /\ Proceed(s, "candidate")
    /\ UNCHANGED <<staged, index, files, log, lock, work, prune, history>>

(* A frame captured to be archived at once; "force" overrides the quality. *)
Capture(s, force) ==
    /\ at[s] = "read" /\ (force \/ Good(s))
    /\ Proceed(s, "archive")
    /\ UNCHANGED <<staged, series, index, files, log, lock, work, prune, history>>

Reject(s) ==
    /\ at[s] = "read" /\ ~Good(s)
    /\ staged' = staged \ {s}
    /\ Proceed(s, "done")
    /\ UNCHANGED <<series, index, files, log, lock, work, prune, history>>

Best(b, s) == s \in series[b] /\ \A t \in series[b] : Score[t] <= Score[s]

(* scanner_best_finish pops the series (scanner_best_take) and goes on with  *)
(* its best frame, the others are left to pruning.                           *)
Take(b, s, force) ==
    /\ Best(b, s)
    /\ series' = [series EXCEPT ![b] = {}]
    /\ at' = [t \in Scans |-> IF t \notin series[b] THEN at[t]
                              ELSE IF t = s /\ (force \/ Good(s)) THEN "taken" ELSE "done"]
    /\ UNCHANGED <<staged, index, files, log, lock, work, prune, history>>

(* "best candidate file is missing" ends the request. *)
Finish(s) ==
    /\ at[s] = "taken"
    /\ Proceed(s, IF s \in staged THEN "archive" ELSE "done")
    /\ UNCHANGED <<staged, series, index, files, log, lock, work, prune, history>>

Candidates == UNION {series[b] : b \in Series}

\* Mutant: only the frames of open series are kept.
NothingIndexed == {}

Indexed == {r.scan : r \in index}

(* prune_scanner_staging, run by every capture and every finish at least a   *)
(* minute apart, collects the paths to keep first from the index and then    *)
(* from the series (staging_keep_paths), and deletes what is left one by one.*)
(* Nothing bounds how long a request or a series lasts, so any frame that is *)
(* in the directory may be old enough.  An index or a series that cannot be  *)
(* read keeps nothing.                                                       *)
PruneIndex ==
    /\ pruning = "idle" /\ prunings < MaxPrunings /\ prunings' = prunings + 1
    /\ \E old \in SUBSET staged, kept \in {Indexed, {}} :
         /\ Cardinality(old) <= MaxOld
         /\ doomed' = old \ kept
         /\ late' = {s \in doomed' : at[s] # "done"} \cup (Indexed \ kept)
    /\ pruning' = "series"
    /\ UNCHANGED <<staged, series, index, files, log, lock, at, work, history>>

PruneSeries ==
    /\ pruning = "series"
    /\ \E kept \in {Candidates, {}} : doomed' = doomed \ kept
    /\ unkept' = unkept \cup (doomed' \cap late)
    /\ late' = {} /\ pruning' = "unlink"
    /\ UNCHANGED <<staged, series, index, files, log, lock, at, work,
                   prunings, crashes, removed, spoiled, archived>>

PruneFile(s) ==
    /\ pruning = "unlink" /\ s \in doomed
    /\ staged' = staged \ {s}
    /\ doomed' = doomed \ {s}
    /\ UNCHANGED <<series, index, files, log, lock, at, work, pruning, late, prunings, history>>

(* The rest could not be deleted. *)
PruneEnd ==
    /\ pruning = "unlink"
    /\ doomed' = {} /\ pruning' = "idle"
    /\ UNCHANGED <<staged, series, index, files, log, lock, at, work, late, prunings, history>>

-----------------------------------------------------------------------------
(* The archive: archive_scanned_document, under the index lock. *)

Same(s, t) == Paper[s] = Paper[t] \/ Ident[s] = Ident[t]

(* Of two frames of one paper the fuller one gives the values and the other  *)
(* fills the blanks.                                                         *)
Merged(old, new) == old \cup new
FilledGaps(old, new) == new \ old

Logged(s) == Ident[s] \in log
Backfill(records) == {Ident[r.scan] : r \in records}

(* load_document_index answers an empty index when the file cannot be read. *)
Load == loaded' \in {index, {}}
Save(records) == index' = records

(* The fields a new frame adds are written to the sidecar, which is made     *)
(* anew when it is not there.                                                *)
EnrichSidecar(r, found) == sidecar' = [sidecar EXCEPT ![r.scan] = @ \cup found]

FilesExist(s) == s \in pdfs \/ sidecar[s] # {}

\* Mutant: the id is logged before the document is written.
AcquireLoggingFirst(s) ==
    /\ at[s] = "archive" /\ lock = NoHolder /\ lock' = s
    /\ loaded' = index /\ log' = log \cup {Ident[s]} /\ meta' = Known[s]
    /\ held' = {r \in index : Same(r.scan, s)}
    /\ Proceed(s, IF held' # {} THEN "enrich" ELSE IF Ident[s] \in log THEN "discard" ELSE "pdf")
    /\ UNCHANGED <<staged, series, index, files, prune, history>>

(* Load the index, complete the log from it, look for the document in the    *)
(* index and then in the log, where lines that cannot be read are passed     *)
(* over; a match in the index is replaced only by a better frame.            *)
Acquire(s) ==
    /\ at[s] = "archive" /\ lock = NoHolder
    /\ lock' = s
    /\ Load
    /\ log' = log \cup Backfill(loaded')
    /\ meta' = Known[s]
    /\ \/ \E r \in loaded' :
            /\ Same(r.scan, s)
            /\ held' = {r}
            /\ Proceed(s, IF Completeness(Known[s]) > Completeness(r.meta)
                       THEN "replace" ELSE "enrich")
       \/ /\ ~\E r \in loaded' : Same(r.scan, s)
          /\ held' = {}
          /\ \/ Logged(s) /\ Proceed(s, "discard")
             \/ Proceed(s, "pdf")
    /\ UNCHANGED <<staged, series, index, files, prune, history>>

(* The frame cannot be read, or the log cannot be completed. *)
FailToBegin(s) ==
    /\ at[s] = "archive" /\ lock = NoHolder
    /\ \E written \in SUBSET Backfill(index) : log' = log \cup written
    /\ Proceed(s, "done")
    /\ UNCHANGED <<staged, series, index, files, lock, work, prune, history>>

(* archive_redundant_duplicate: the fields only the new frame recognised go  *)
(* to the sidecar.  They are set on the copy find_duplicate_document made of *)
(* the record, so the index is saved as it was loaded.                       *)
Enrich(s) ==
    /\ at[s] = "enrich"
    /\ \E r \in held :
         LET found == FilledGaps(r.meta, Known[s]) IN
         IF found = {} THEN UNCHANGED <<sidecar, index>>
         ELSE EnrichSidecar(r, found) /\ Save(loaded)
    /\ Proceed(s, "discard")
    /\ UNCHANGED <<staged, series, pdfs, log, lock, work, prune, history>>

(* The frame of the duplicate is deleted. *)
Discard(s) ==
    /\ at[s] = "discard"
    /\ staged' = staged \ {s}
    /\ Proceed(s, "log")
    /\ UNCHANGED <<series, index, files, log, lock, work, prune, history>>

\* Mutant: the old record is left in the index.
ReplaceOnDiskOnly(s) ==
    /\ at[s] = "replace"
    /\ \E r \in held :
         /\ staged' = staged \ {r.scan} /\ pdfs' = pdfs \ {r.scan}
         /\ sidecar' = [sidecar EXCEPT ![r.scan] = {}]
         /\ meta' = r.meta \cup Known[s]
    /\ Proceed(s, "pdf")
    /\ UNCHANGED <<series, index, log, lock, loaded, held, prune, history>>

\* Mutant: the old document's fields are not taken over.
ReplaceUnmerged(s) ==
    /\ at[s] = "replace"
    /\ \E r \in held :
         /\ staged' = staged \ {r.scan} /\ pdfs' = pdfs \ {r.scan}
         /\ sidecar' = [sidecar EXCEPT ![r.scan] = {}]
         /\ loaded' = loaded \ {r}
    /\ Proceed(s, "pdf")
    /\ UNCHANGED <<series, index, log, lock, held, meta, prune, history>>

(* supersede_archived_document: the old document's frame, PDF and sidecar    *)
(* are deleted before anything of the new one is written.                    *)
Replace(s) ==
    /\ at[s] = "replace"
    /\ \E r \in held :
         /\ staged' = staged \ {r.scan}
         /\ pdfs' = pdfs \ {r.scan}
         /\ sidecar' = [sidecar EXCEPT ![r.scan] = {}]
         /\ loaded' = {q \in loaded : Ident[q.scan] # Ident[r.scan]}
         /\ meta' = Merged(r.meta, Known[s])
    /\ Proceed(s, "pdf")
    /\ UNCHANGED <<series, index, log, lock, held, prune, history>>

WritePdf(s) ==
    /\ at[s] = "pdf" /\ s \in staged
    /\ pdfs' = pdfs \cup {s}
    /\ Proceed(s, "sidecar")
    /\ UNCHANGED <<staged, series, index, sidecar, log, lock, work, prune, history>>

WriteSidecar(s) ==
    /\ at[s] = "sidecar"
    /\ sidecar' = [sidecar EXCEPT ![s] = meta]
    /\ Proceed(s, "save")
    /\ UNCHANGED <<staged, series, index, pdfs, log, lock, work, prune, history>>

(* The frames whose paper's record the holder of the lock knows: all, unless *)
(* it could not read the index, whose records its save drops.                *)
InSight == {t \in archived : \A r \in index : Paper[r.scan] = Paper[t] => r \in loaded \cup held}

\* Mutant: the index is read again and the removal undone.
SaveReadIndex(s) ==
    /\ at[s] = "save"
    /\ index' = {r \in index : Ident[r.scan] # Ident[s]} \cup {[scan |-> s, meta |-> meta]}
    /\ archived' = InSight \cup {s}
    /\ Proceed(s, "log")
    /\ UNCHANGED <<staged, series, files, log, lock, work, prune,
                   crashes, removed, spoiled, unkept>>

SaveIndex(s) ==
    /\ at[s] = "save"
    /\ Save({r \in loaded : Ident[r.scan] # Ident[s]} \cup {[scan |-> s, meta |-> meta]})
    /\ archived' = InSight \cup {s}
    /\ Proceed(s, "log")
    /\ UNCHANGED <<staged, series, files, log, lock, work, prune,
                   crashes, removed, spoiled, unkept>>

(* The log line of a scan, a replacement or a duplicate; the lock is left. *)
AppendLog(s) ==
    /\ at[s] = "log"
    /\ log' = log \cup {Ident[s]}
    /\ Leave
    /\ Proceed(s, "done")
    /\ UNCHANGED <<staged, series, index, files, prune, history>>

Broken(s) == IF lock = s /\ at[s] \in Writing THEN {r.scan : r \in held} ELSE {}

\* Mutant: an error leaves the lock held.
FailHoldingTheLock(s) ==
    /\ at[s] \in Writing \cup {"enrich", "log"}
    /\ Proceed(s, "done")
    /\ spoiled' = spoiled \cup Broken(s)
    /\ UNCHANGED <<staged, series, index, files, log, lock, work, prune,
                   crashes, removed, unkept, archived>>

(* An image that cannot be read or a disk that is full raises; the lock is   *)
(* released, nothing is undone and the request answers the error.            *)
Fail(s) ==
    /\ at[s] \in Writing \cup {"enrich", "log"}
    /\ Leave
    /\ Proceed(s, "done")
    /\ spoiled' = spoiled \cup Broken(s)
    /\ UNCHANGED <<staged, series, index, files, log, prune,
                   crashes, removed, unkept, archived>>

-----------------------------------------------------------------------------
(* reconcile_document_index drops the records whose files are both gone. *)
Reconcile ==
    /\ lock = NoHolder
    /\ \E r \in index : ~FilesExist(r.scan)
    /\ Save({r \in index : FilesExist(r.scan)})
    /\ archived' = {s \in archived : \E r \in index' : Paper[s] = Paper[r.scan]}
    /\ UNCHANGED <<staged, series, files, log, lock, at, work, prune,
                   crashes, removed, spoiled, unkept>>

(* External: the user moves a PDF away, with its sidecar or without it. *)
UserRemoves(s) ==
    /\ s \in pdfs
    /\ pdfs' = pdfs \ {s}
    /\ removed' = removed \cup {s}
    /\ sidecar' \in {sidecar, [sidecar EXCEPT ![s] = {}]}
    /\ UNCHANGED <<staged, series, index, log, lock, at, work, prune,
                   crashes, spoiled, unkept, archived>>

(* The host process dies and is started again: requests, series and the lock *)
(* are gone, the files stay as they are.                                     *)
Crash ==
    /\ crashes < MaxCrashes
    /\ crashes' = crashes + 1
    /\ at' = [s \in Scans |-> IF at[s] = "new" THEN "new" ELSE "done"]
    /\ spoiled' = spoiled \cup UNION {Broken(s) : s \in Scans}
    /\ series' = [b \in Series |-> {}] /\ Leave
    /\ pruning' = "idle" /\ doomed' = {} /\ late' = {}
    /\ UNCHANGED <<staged, index, files, log, prunings, removed, unkept, archived>>

Request(s) ==
    \/ \E b \in Series : Candidate(s, b)
    \/ \E force \in BOOLEAN : Capture(s, force)
    \/ Reject(s) \/ Finish(s) \/ Acquire(s) \/ FailToBegin(s)
    \/ Enrich(s) \/ Discard(s) \/ Replace(s)
    \/ WritePdf(s) \/ WriteSidecar(s) \/ SaveIndex(s) \/ AppendLog(s)
    \/ Fail(s)

ArchiveNext ==
    \/ \E s \in Scans : Stage(s) \/ Request(s) \/ UserRemoves(s) \/ PruneFile(s)
    \/ \E b \in Series, s \in Scans, force \in BOOLEAN : Take(b, s, force)
    \/ PruneIndex \/ PruneSeries \/ PruneEnd \/ Reconcile \/ Crash

ArchiveSpec == ArchiveInit /\ [][ArchiveNext]_archiveVars

(* A thread that can take its next step takes it; pages, users, pruning and  *)
(* crashes owe nothing.                                                      *)
FairArchiveSpec == ArchiveSpec /\ \A s \in Scans : WF_archiveVars(Request(s))

-----------------------------------------------------------------------------
(* The type invariant.                                                       *)
ArchiveTypeOK ==
    /\ staged \subseteq Scans /\ pdfs \subseteq Scans
    /\ series \in [Series -> SUBSET Scans]
    /\ index \subseteq Record /\ loaded \subseteq Record /\ held \subseteq Record
    /\ sidecar \in [Scans -> SUBSET Fields]
    /\ log \subseteq {Ident[s] : s \in Scans}
    /\ lock \in Scans \cup {NoHolder}
    /\ at \in [Scans -> Busy \cup {"new", "candidate", "done"}]
    /\ meta \subseteq Fields
    /\ prunings \in 0..MaxPrunings /\ crashes \in 0..MaxCrashes
    /\ removed \subseteq Scans /\ spoiled \subseteq Scans
    /\ pruning \in {"idle", "series", "unlink"}
    /\ doomed \subseteq Scans /\ late \subseteq Scans
    /\ unkept \subseteq Scans /\ archived \subseteq Scans

(* However requests overlap, the index never lists one paper twice: each     *)
(* request looks for the document and saves its record under one hold of the *)
(* lock.                                                                     *)
OneRecordPerPaper ==
    \A q, r \in index : Same(q.scan, r.scan) => q = r

(* The holder of the lock has deleted this record's document and not yet     *)
(* saved the index with the one that replaces it.                            *)
BeingReplaced(r) == \E s \in Scans : lock = s /\ at[s] \in Writing /\ r \in held

(* A record whose PDF is gone is one the user moved away, one that is being  *)
(* replaced, or one whose replacement broke off: no other path of the code   *)
(* leaves the index pointing at nothing, wherever a crash or an error falls. *)
RecordsHaveTheirPdf ==
    \A r \in index :
        r.scan \in pdfs \cup removed \cup spoiled \/ BeingReplaced(r)

(* A frame is thrown away as a duplicate only when a PDF of its paper is in  *)
(* the archive, or one was there and the user or a broken replacement took   *)
(* it; the scanned-id log alone, which outlives records, proves nothing else.*)
DuplicatesAreKept ==
    [][\A s \in Scans : (at[s] = "discard" /\ s \in staged \ staged') =>
          \E t \in pdfs \cup removed \cup spoiled : t # s /\ Same(s, t)]_archiveVars

(* What the docstring of archive_redundant_duplicate says of the frames it    *)
(* throws away: the document they match is in the archive, unless the user   *)
(* took it out.                                                              *)
DuplicatesHaveADocument ==
    [][\A s \in Scans : (at[s] = "discard" /\ s \in staged \ staged') =>
          \E t \in pdfs \cup removed : t # s /\ Same(s, t)]_archiveVars

(* What an archived frame recognised stays in its paper's record through     *)
(* every later replacement, as long as no request archived while the index   *)
(* could not be read: such a save starts the index anew.                     *)
ReplacingKeepsFields ==
    \A s \in archived, r \in index : Paper[s] = Paper[r.scan] => Known[s] \subseteq r.meta

(* The frame of a record stays in the staging directory, however long a      *)
(* pruning takes from reading what to keep to deleting the rest.  It may     *)
(* take only a frame whose request was not over when it read the index, or   *)
(* whose record or series it could not read.                                 *)
FramesOfRecordsStay ==
    \A r \in index :
        r.scan \in staged \cup unkept \cup spoiled \/ BeingReplaced(r)

(* Every request ends, whatever fails: the lock is never left behind. *)
RequestsEnd == \A s \in Scans : (at[s] \in Busy) ~> (at[s] \notin Busy)
=============================================================================
