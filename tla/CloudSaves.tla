----------------------------- MODULE CloudSaves -----------------------------
(***************************************************************************)
(* Cloud Save V2 of hydra-server (src/cloud_saves.rs, the jobs of          *)
(* src/jobs.rs and the admin routes that touch the same tables), for one   *)
(* user: every query of that code filters by user_id, so two users share   *)
(* nothing but the job that visits them in turn.                           *)
(*                                                                         *)
(* A handler is a sequence of awaits.  SQLite runs one statement, or one   *)
(* transaction, atomically; between two awaits any other request may run,  *)
(* and the request itself may vanish (client gone, database error, process *)
(* killed).  So a request is a record with a program counter, one step per *)
(* statement, transaction or file operation that another step can observe, *)
(* and RequestFails at every counter.                                      *)
(*                                                                         *)
(* A hash stands for the pair (hash, size): uploads are verified against   *)
(* the hash, so a manifest row with a wrong size is one whose pair is      *)
(* never on disk, and commit refuses both in the same way.                 *)
(***************************************************************************)
EXTENDS Naturals, FiniteSets

CONSTANTS
    Games,        \* (shop, object_id) pairs
    Hashes,       \* content addresses of the files a save is made of
    SnapIds,      \* uuids prepare-snapshot may draw
    Handlers,     \* slots for in-flight HTTP requests
    Jobs,         \* slots for background jobs; a slot in both sets runs
                  \* a request or a job, never two things at once
    Operations,   \* the entry points a configuration exercises
    AutoDeleteChoices, \* values auto_delete_saves may start with
    MaxVersion,   \* bound on version numbers
    MaxFailures   \* bound on requests that die midway

ASSUME GamesAssumption == Games # {}
ASSUME BoundsAssumption == MaxVersion \in Nat /\ MaxFailures \in Nat
ASSUME ChoicesAssumption == AutoDeleteChoices \subseteq BOOLEAN

Requests == Handlers \cup Jobs

VARIABLES
    status,       \* cloud_save_snapshots.status; "unused" before the INSERT
    game,         \* its shop and object_id
    version,      \* its version
    manifest,     \* the hashes its cloud_save_snapshot_files rows name
    announced,    \* its aggregate_hash: the manifest prepare was given
    expired,      \* snapshots created more than 24 hours ago
    blobRows,     \* cloud_save_blobs
    disk,         \* files under cloud-saves/{user}/
    uploadUrls,   \* hashes with a signed PUT url handed out
    autoDelete,   \* the auto_delete_saves limit of this user
    req,          \* the state of each request
    failures      \* requests that died midway (bounded by MaxFailures)

snapshotVars == <<status, game, version, manifest, announced, expired>>
storeVars    == <<blobRows, disk>>
vars == <<status, game, version, manifest, announced, expired, blobRows, disk,
          uploadUrls, autoDelete, req, failures>>

Statuses == {"unused", "pending", "committed", "superseded", "deleted"}

-----------------------------------------------------------------------------
(* Queries the handlers share.                                             *)

Existing      == {s \in SnapIds : status[s] \in {"pending", "committed", "superseded"}}
OfGame(g)     == {s \in Existing : game[s] = g}
Current(g)    == {s \in OfGame(g) : status[s] = "committed"}
Retained(g)   == {s \in OfGame(g) : status[s] = "superseded"}
StalePending  == {s \in expired : status[s] = "pending"}

(* MAX(version) over a set of rows, 0 when there is none: what COALESCE    *)
(* and unwrap_or give.                                                     *)
HighestVersion(S) ==
    IF S = {} THEN 0
    ELSE version[CHOOSE s \in S : \A t \in S : version[t] <= version[s]]

(* collect_orphan_blobs selects by manifest row of any snapshot, pending   *)
(* and retained ones included.                                             *)
NamedByCurrent ==  \* mutant: retained versions do not count
    UNION {manifest[s] : s \in {t \in SnapIds : status[t] = "committed"}}
Referenced == UNION {manifest[s] : s \in Existing}
Orphans == blobRows \ Referenced

-----------------------------------------------------------------------------
(* The states of a request.                                                *)

Idle == [pc |-> "idle"]
ReadCurrentOf(g, b, F) == [pc |-> "read_current", game |-> g, base |-> b, files |-> F]
Deleting(ids, sweep, then) ==
    [pc |-> "delete_files", ids |-> ids, sweep |-> sweep, then |-> then]
Skipping(then) == then  \* mutant: no collection
Collecting(then) == [pc |-> "gc_select", then |-> then]

Goto(r, state) == req' = [req EXCEPT ![r] = state]
Begins(r, op)  == op \in Operations /\ req[r] = Idle
At(r, pc)      == req[r].pc = pc

Init ==
    /\ status = [s \in SnapIds |-> "unused"]
    /\ game = [s \in SnapIds |-> CHOOSE g \in Games : TRUE]
    /\ version = [s \in SnapIds |-> 0]
    /\ manifest = [s \in SnapIds |-> {}]
    /\ announced = [s \in SnapIds |-> {}]
    /\ expired = {}
    /\ blobRows = {}
    /\ disk = {}
    /\ uploadUrls = {}
    /\ autoDelete \in AutoDeleteChoices
    /\ req = [r \in Requests |-> Idle]
    /\ failures = 0

-----------------------------------------------------------------------------
(* The sweep of stale pending snapshots: first thing prepare does, and a   *)
(* job of its own.  Nothing to sweep means no collection either.           *)

SweepNothing(r, then) == Goto(r, then)  \* mutant: returns with the list in hand

SweepStale(r, then) ==
    Goto(r, IF StalePending = {} THEN then ELSE Deleting(StalePending, TRUE, then))

(* One DELETE of the manifest rows and one of the snapshot, per id, outside *)
(* any transaction and by id alone.                                        *)
DeleteFiles(r) ==
    /\ At(r, "delete_files")
    /\ \E s \in req[r].ids :
        /\ manifest' = [manifest EXCEPT ![s] = {}]
        /\ Goto(r, [pc |-> "delete_row", ids |-> req[r].ids, snap |-> s,
                    sweep |-> req[r].sweep, then |-> req[r].then])
    /\ UNCHANGED <<status, game, version, announced, expired, storeVars,
                   uploadUrls, autoDelete, failures>>

(* The foreign key of cloud_save_snapshot_files cascades.                  *)
DeleteRow(r) ==
    /\ At(r, "delete_row")
    /\ LET s == req[r].snap
           rest == req[r].ids \ {s} IN
        /\ status' = [status EXCEPT ![s] = "deleted"]
        /\ manifest' = [manifest EXCEPT ![s] = {}]
        /\ Goto(r, IF rest = {} THEN Collecting(req[r].then)
                   ELSE Deleting(rest, req[r].sweep, req[r].then))
    /\ UNCHANGED <<game, version, announced, expired, storeVars,
                   uploadUrls, autoDelete, failures>>

(* collect_orphan_blobs: one SELECT, then for every hash it returned the   *)
(* file and the row, in that order, without looking again.                 *)
GcSelect(r) ==
    /\ At(r, "gc_select")
    /\ Goto(r, IF Orphans = {} THEN req[r].then
               ELSE [pc |-> "gc_file", orphans |-> Orphans, then |-> req[r].then])
    /\ UNCHANGED <<snapshotVars, storeVars, uploadUrls, autoDelete, failures>>

GcFile(r) ==
    /\ At(r, "gc_file")
    /\ \E h \in req[r].orphans :
        /\ disk' = disk \ {h}
        /\ Goto(r, [pc |-> "gc_row", orphans |-> req[r].orphans, hash |-> h,
                    then |-> req[r].then])
    /\ UNCHANGED <<snapshotVars, blobRows, uploadUrls, autoDelete, failures>>

GcRow(r) ==
    /\ At(r, "gc_row")
    /\ LET h == req[r].hash
           rest == req[r].orphans \ {h} IN
        /\ blobRows' = blobRows \ {h}
        /\ Goto(r, IF rest = {} THEN req[r].then
                   ELSE [pc |-> "gc_file", orphans |-> rest, then |-> req[r].then])
    /\ UNCHANGED <<snapshotVars, disk, uploadUrls, autoDelete, failures>>

-----------------------------------------------------------------------------
(* POST prepare-snapshot: sweep, compare baseVersion with the current      *)
(* version, look up the blobs already held, insert row and manifest in one *)
(* transaction, hand out an upload url for the rest.                       *)

Prepare(r, g, b, F) ==
    /\ Begins(r, "prepare")
    /\ SweepStale(r, ReadCurrentOf(g, b, F))
    /\ UNCHANGED <<snapshotVars, storeVars, uploadUrls, autoDelete, failures>>

PrepareReadCurrent(r) ==
    /\ At(r, "read_current")
    /\ Goto(r, IF req[r].base # HighestVersion(Current(req[r].game))
               THEN Idle  \* 409, "cloud save has changed on another device"
               ELSE [pc |-> "lookup", game |-> req[r].game, base |-> req[r].base,
                     files |-> req[r].files])
    /\ UNCHANGED <<snapshotVars, storeVars, uploadUrls, autoDelete, failures>>

(* A row counts only while its file is there.                              *)
Held(F) == F \cap blobRows \cap disk

(* The per-hash lookups are one step: they only decide which urls the      *)
(* answer carries.                                                         *)
PrepareLookup(r) ==
    /\ At(r, "lookup")
    /\ Goto(r, [pc |-> "insert", game |-> req[r].game, base |-> req[r].base,
                files |-> req[r].files, held |-> Held(req[r].files)])
    /\ UNCHANGED <<snapshotVars, storeVars, uploadUrls, autoDelete, failures>>

ManifestRows(q) == q.files

PrepareInsert(r) ==
    /\ At(r, "insert")
    /\ \E s \in SnapIds :
        /\ status[s] = "unused"
        /\ req[r].base < MaxVersion
        /\ status' = [status EXCEPT ![s] = "pending"]
        /\ game' = [game EXCEPT ![s] = req[r].game]
        /\ version' = [version EXCEPT ![s] = req[r].base + 1]
        /\ manifest' = [manifest EXCEPT ![s] = ManifestRows(req[r])]
        /\ announced' = [announced EXCEPT ![s] = req[r].files]
    /\ uploadUrls' = uploadUrls \cup (req[r].files \ req[r].held)
    /\ Goto(r, Idle)
    /\ UNCHANGED <<expired, storeVars, autoDelete, failures>>

(* The quota, whose bytes are not counted here, refuses the upload.  It is  *)
(* also how a prepare ends once the ids or the version numbers run out.    *)
PrepareRefused(r) ==
    /\ At(r, "insert")
    /\ Goto(r, Idle)
    /\ UNCHANGED <<snapshotVars, storeVars, uploadUrls, autoDelete, failures>>

(* PUT /storage/{token} for a blob: the bytes are hashed while they stream *)
(* into a temporary file that is renamed into place; no row is written.  A *)
(* url is good for an hour, which is not measured.                         *)
Upload(h) ==
    /\ "upload" \in Operations
    /\ h \in uploadUrls
    /\ disk' = disk \cup {h}
    /\ UNCHANGED <<snapshotVars, blobRows, uploadUrls, autoDelete, req, failures>>

-----------------------------------------------------------------------------
(* POST commit-snapshot.                                                   *)

CommitSkipsManifest(r, s) ==  \* mutant: verifies files it never read
    /\ Begins(r, "commit")
    /\ status[s] = "pending"
    /\ Goto(r, [pc |-> "verify", snap |-> s])
    /\ UNCHANGED <<snapshotVars, storeVars, uploadUrls, autoDelete, failures>>

CommitReadPending(r, s) ==
    /\ Begins(r, "commit")
    /\ status[s] = "pending"  \* else 404
    /\ Goto(r, [pc |-> "read_manifest", snap |-> s])
    /\ UNCHANGED <<snapshotVars, storeVars, uploadUrls, autoDelete, failures>>

CommitReadManifest(r) ==
    /\ At(r, "read_manifest")
    /\ Goto(r, [pc |-> "verify", snap |-> req[r].snap, rows |-> manifest[req[r].snap]])
    /\ UNCHANGED <<snapshotVars, storeVars, uploadUrls, autoDelete, failures>>

(* One file at a time: stat it, refuse the commit when it is missing.      *)
AssumedLanded(h) == TRUE  \* mutant: no stat
Landed(h) == h \in disk

CommitVerify(r) ==
    /\ At(r, "verify")
    /\ \E h \in req[r].rows :
        Goto(r, IF Landed(h)
                THEN [pc |-> "register", snap |-> req[r].snap, rows |-> req[r].rows, hash |-> h]
                ELSE Idle)  \* 400, pending-snapshot-incomplete
    /\ UNCHANGED <<snapshotVars, storeVars, uploadUrls, autoDelete, failures>>

CommitRegistersForever(r) ==  \* mutant: the loop never advances
    /\ At(r, "register")
    /\ blobRows' = blobRows \cup {req[r].hash}
    /\ Goto(r, [pc |-> "verify", snap |-> req[r].snap, rows |-> req[r].rows])
    /\ UNCHANGED <<snapshotVars, disk, uploadUrls, autoDelete, failures>>

CommitRegister(r) ==
    /\ At(r, "register")
    /\ blobRows' = blobRows \cup {req[r].hash}
    /\ Goto(r, [pc |-> "verify", snap |-> req[r].snap, rows |-> req[r].rows \ {req[r].hash}])
    /\ UNCHANGED <<snapshotVars, disk, uploadUrls, autoDelete, failures>>

(* Inside the transaction: what the commit of g replaces, and of it what   *)
(* automatic deletion drops.                                               *)
Dropped(g, auto) == IF auto THEN Current(g) \cup Retained(g) ELSE {}

DropsFilesFirst(r) ==  \* mutant: the files of the manifests go before the transaction
    /\ At(r, "verify")
    /\ req[r].rows = {}
    /\ manifest' = [s \in SnapIds |-> IF s \in Dropped(game[req[r].snap], autoDelete) THEN {}
                                       ELSE manifest[s]]
    /\ Goto(r, [pc |-> "commit_tx", snap |-> req[r].snap, auto |-> autoDelete])
    /\ UNCHANGED <<status, game, version, announced, expired, storeVars, uploadUrls,
                   autoDelete, failures>>

CommitReadLimits(r) ==
    /\ At(r, "verify")
    /\ req[r].rows = {}
    /\ Goto(r, [pc |-> "commit_tx", snap |-> req[r].snap, auto |-> autoDelete])
    /\ UNCHANGED <<snapshotVars, storeVars, uploadUrls, autoDelete, failures>>

DemotesNothing(g, auto) == {}  \* mutant
DemotesPending(g, auto) == IF auto THEN {} ELSE OfGame(g)  \* mutant: any status
Demoted(g, auto) == IF auto THEN {} ELSE Current(g)

(* The last UPDATE names the snapshot by id alone: it takes any row still  *)
(* there, whatever its status, and a missing row goes unnoticed.           *)
Promoted(s) == {s} \cap Existing

CommitTx(r) ==
    /\ At(r, "commit_tx")
    /\ LET s == req[r].snap
           g == game[s]
           dropped == Dropped(g, req[r].auto) IN
        /\ status' = [x \in SnapIds |->
                        IF x \in dropped THEN "deleted"
                        ELSE IF x \in Promoted(s) THEN "committed"
                        ELSE IF x \in Demoted(g, req[r].auto) THEN "superseded"
                        ELSE status[x]]
        /\ manifest' = [x \in SnapIds |-> IF x \in dropped THEN {} ELSE manifest[x]]
    /\ Goto(r, Collecting(Idle))
    /\ UNCHANGED <<game, version, announced, expired, storeVars,
                   uploadUrls, autoDelete, failures>>

-----------------------------------------------------------------------------
(* Deletes and the restore of a retained version.                          *)

(* DELETE snapshots?shop=&objectId=: every snapshot of the game, pending   *)
(* ones too.  The collection runs even when there was nothing to delete.   *)
DeleteGame(r, g) ==
    /\ Begins(r, "delete_game")
    /\ Goto(r, IF OfGame(g) = {} THEN Collecting(Idle) ELSE Deleting(OfGame(g), FALSE, Idle))
    /\ UNCHANGED <<snapshotVars, storeVars, uploadUrls, autoDelete, failures>>

(* DELETE /admin/api/cloud-saves/{id}: any status.                         *)
AdminDelete(r, s) ==
    /\ Begins(r, "admin_delete")
    /\ s \in Existing
    /\ Goto(r, Deleting({s}, FALSE, Idle))
    /\ UNCHANGED <<snapshotVars, storeVars, uploadUrls, autoDelete, failures>>

(* DELETE snapshots/{id}.  The status read before the transaction decides  *)
(* nothing the guarded DELETEs inside it do not decide again.              *)
DeleteRetained(r, s) ==
    /\ Begins(r, "delete_retained")
    /\ status[s] = "superseded"  \* else 400, 404 or 409
    /\ status' = [status EXCEPT ![s] = "deleted"]
    /\ manifest' = [manifest EXCEPT ![s] = {}]
    /\ Goto(r, Collecting(Idle))
    /\ UNCHANGED <<game, version, announced, expired, storeVars,
                   uploadUrls, autoDelete, failures>>

(* POST snapshots/{id}/restore: one guarded transaction, no collection.    *)
NextVersion(g) == HighestVersion(OfGame(g)) + 1

Restore(r, s) ==
    /\ Begins(r, "restore")
    /\ status[s] = "superseded"  \* else 400, 404 or 409
    /\ NextVersion(game[s]) \in 1..MaxVersion
    /\ status' = [x \in SnapIds |-> IF x = s THEN "committed"
                                    ELSE IF x \in Current(game[s]) THEN "superseded"
                                    ELSE status[x]]
    /\ version' = [version EXCEPT ![s] = NextVersion(game[s])]
    /\ UNCHANGED <<game, manifest, announced, expired, storeVars,
                   uploadUrls, autoDelete, req, failures>>

(* The admin purge of a user's cloud saves: manifests one id at a time,    *)
(* then every snapshot row of the user in one DELETE.                      *)
Purge(r) ==
    /\ Begins(r, "purge")
    /\ Goto(r, [pc |-> "purge_files", ids |-> Existing])
    /\ UNCHANGED <<snapshotVars, storeVars, uploadUrls, autoDelete, failures>>

PurgeFiles(r) ==
    /\ At(r, "purge_files")
    /\ \E s \in req[r].ids :
        /\ manifest' = [manifest EXCEPT ![s] = {}]
        /\ Goto(r, [pc |-> "purge_files", ids |-> req[r].ids \ {s}])
    /\ UNCHANGED <<status, game, version, announced, expired, storeVars,
                   uploadUrls, autoDelete, failures>>

PurgeRows(r) ==
    /\ At(r, "purge_files")
    /\ req[r].ids = {}
    /\ status' = [s \in SnapIds |-> IF s \in Existing THEN "deleted" ELSE status[s]]
    /\ manifest' = [s \in SnapIds |-> {}]
    /\ Goto(r, Collecting(Idle))
    /\ UNCHANGED <<game, version, announced, expired, storeVars,
                   uploadUrls, autoDelete, failures>>

-----------------------------------------------------------------------------
(* GET snapshot-restore-manifest (and snapshot-download-urls): the row and *)
(* the files are two reads.                                                *)

ManifestFetchCommitted(r, s) ==
    /\ Begins(r, "read")
    /\ status[s] = "committed"  \* else 404
    /\ Goto(r, [pc |-> "read_files", snap |-> s])
    /\ UNCHANGED <<snapshotVars, storeVars, uploadUrls, autoDelete, failures>>

ManifestFetchFiles(r) ==
    /\ At(r, "read_files")
    /\ Goto(r, [pc |-> "served", snap |-> req[r].snap, files |-> manifest[req[r].snap]])
    /\ UNCHANGED <<snapshotVars, storeVars, uploadUrls, autoDelete, failures>>

ManifestServed(r) ==
    /\ At(r, "served")
    /\ Goto(r, Idle)
    /\ UNCHANGED <<snapshotVars, storeVars, uploadUrls, autoDelete, failures>>

-----------------------------------------------------------------------------
(* The jobs of src/jobs.rs, and the admin's removal of files that no row   *)
(* owns (src/admin/maintenance.rs).                                        *)

SweepJob(j) ==
    /\ Begins(j, "sweep_job")
    /\ StalePending # {}
    /\ SweepStale(j, Idle)
    /\ UNCHANGED <<snapshotVars, storeVars, uploadUrls, autoDelete, failures>>

GcJob(j) ==
    /\ Begins(j, "gc_job")
    /\ blobRows # {}
    /\ Goto(j, Collecting(Idle))
    /\ UNCHANGED <<snapshotVars, storeVars, uploadUrls, autoDelete, failures>>

(* delete_retained_versions: who owns retained versions, two unguarded     *)
(* statements over whatever is superseded when they run, a collection for  *)
(* the owners found first.                                                 *)
AllCommitted == {s \in SnapIds : status[s] \in {"committed", "superseded"}}  \* mutant
AllRetained == {s \in SnapIds : status[s] = "superseded"}

RetainedJob(j) ==
    /\ Begins(j, "retained_job")
    /\ Goto(j, [pc |-> "retained_files",
                then |-> IF AllRetained = {} THEN Idle ELSE Collecting(Idle)])
    /\ UNCHANGED <<snapshotVars, storeVars, uploadUrls, autoDelete, failures>>

RetainedJobFiles(j) ==
    /\ At(j, "retained_files")
    /\ manifest' = [s \in SnapIds |-> IF s \in AllRetained THEN {} ELSE manifest[s]]
    /\ Goto(j, [pc |-> "retained_rows", then |-> req[j].then])
    /\ UNCHANGED <<status, game, version, announced, expired, storeVars,
                   uploadUrls, autoDelete, failures>>

RetainedJobRows(j) ==
    /\ At(j, "retained_rows")
    /\ status' = [s \in SnapIds |-> IF s \in AllRetained THEN "deleted" ELSE status[s]]
    /\ manifest' = [s \in SnapIds |-> IF s \in AllRetained THEN {} ELSE manifest[s]]
    /\ Goto(j, req[j].then)
    /\ UNCHANGED <<game, version, announced, expired, storeVars,
                   uploadUrls, autoDelete, failures>>

(* still_referenced asks cloud_save_blobs, then the file goes.             *)
OrphanFileCheck(r, h) ==
    /\ Begins(r, "delete_orphan_file")
    /\ h \in disk \ blobRows
    /\ Goto(r, [pc |-> "orphan_file", hash |-> h])
    /\ UNCHANGED <<snapshotVars, storeVars, uploadUrls, autoDelete, failures>>

OrphanFileDelete(r) ==
    /\ At(r, "orphan_file")
    /\ disk' = disk \ {req[r].hash}
    /\ Goto(r, Idle)
    /\ UNCHANGED <<snapshotVars, blobRows, uploadUrls, autoDelete, failures>>

-----------------------------------------------------------------------------
(* The environment.                                                        *)

(* 24 hours pass.                                                          *)
Expire(s) ==
    /\ "expire" \in Operations
    /\ status[s] = "pending"
    /\ expired' = expired \cup {s}
    /\ UNCHANGED <<status, game, version, manifest, announced, storeVars,
                   uploadUrls, autoDelete, req, failures>>

(* The admin flips the setting or this user's override.                    *)
SetAutoDelete ==
    /\ "set_auto_delete" \in Operations
    /\ autoDelete' = ~autoDelete
    /\ UNCHANGED <<snapshotVars, storeVars, uploadUrls, req, failures>>

(* A request stops where it stands: the client hung up and axum dropped    *)
(* the handler, a query failed, the process died.                          *)
RequestFails(r) ==
    /\ "fail" \in Operations
    /\ req[r] # Idle
    /\ failures < MaxFailures
    /\ failures' = failures + 1
    /\ Goto(r, Idle)
    /\ UNCHANGED <<snapshotVars, storeVars, uploadUrls, autoDelete>>

-----------------------------------------------------------------------------
Start(r) ==
    \/ \E g \in Games, b \in 0..MaxVersion, F \in SUBSET Hashes : Prepare(r, g, b, F)
    \/ \E s \in SnapIds : CommitReadPending(r, s)
    \/ \E g \in Games : DeleteGame(r, g)
    \/ \E s \in SnapIds : AdminDelete(r, s)
    \/ \E s \in SnapIds : DeleteRetained(r, s)
    \/ \E s \in SnapIds : Restore(r, s)
    \/ Purge(r)
    \/ \E s \in SnapIds : ManifestFetchCommitted(r, s)
    \/ \E h \in Hashes : OrphanFileCheck(r, h)

StartJob(j) == SweepJob(j) \/ GcJob(j) \/ RetainedJob(j)

(* The next step of a request or job already under way.                    *)
Continue(r) ==
    \/ DeleteFiles(r) \/ DeleteRow(r)
    \/ GcSelect(r) \/ GcFile(r) \/ GcRow(r)
    \/ PrepareReadCurrent(r) \/ PrepareLookup(r)
    \/ PrepareInsert(r) \/ PrepareRefused(r)
    \/ CommitReadManifest(r) \/ CommitVerify(r) \/ CommitRegister(r)
    \/ CommitReadLimits(r) \/ CommitTx(r)
    \/ PurgeFiles(r) \/ PurgeRows(r)
    \/ ManifestFetchFiles(r) \/ ManifestServed(r)
    \/ RetainedJobFiles(r) \/ RetainedJobRows(r)
    \/ OrphanFileDelete(r)

Environment ==
    \/ \E h \in Hashes : Upload(h)
    \/ \E s \in SnapIds : Expire(s)
    \/ SetAutoDelete
    \/ \E r \in Requests : RequestFails(r)

Next ==
    \/ \E r \in Handlers : Start(r)
    \/ \E j \in Jobs : StartJob(j)
    \/ \E r \in Requests : Continue(r)
    \/ Environment

Spec == Init /\ [][Next]_vars

(* For liveness: a request or job under way goes on, and the scheduler     *)
(* (src/schedule.rs) runs each of its tasks again and again, whatever else *)
(* it runs in between.  Clients, uploads and the admin owe nothing.        *)
Fairness ==
    /\ \A r \in Requests : WF_vars(Continue(r))
    /\ \A j \in Jobs : SF_vars(SweepJob(j)) /\ SF_vars(GcJob(j))

FairSpec == Spec /\ Fairness

-----------------------------------------------------------------------------
(* Types.                                                                  *)

Resumption ==
    {Idle} \cup [pc : {"read_current"}, game : Games, base : 0..MaxVersion, files : SUBSET Hashes]

LookupStates == [pc : {"lookup"}, game : Games, base : 0..MaxVersion, files : SUBSET Hashes]
InsertStates == [pc : {"insert"}, game : Games, base : 0..MaxVersion, files : SUBSET Hashes,
                 held : SUBSET Hashes]

ReadManifestStates == [pc : {"read_manifest"}, snap : SnapIds]
VerifyStates       == [pc : {"verify"}, snap : SnapIds, rows : SUBSET Hashes]
RegisterStates     == [pc : {"register"}, snap : SnapIds, rows : SUBSET Hashes, hash : Hashes]
CommitTxStates     == [pc : {"commit_tx"}, snap : SnapIds, auto : BOOLEAN]

GcSelectStates == [pc : {"gc_select"}, then : Resumption]
GcFileStates   == [pc : {"gc_file"}, orphans : SUBSET Hashes, then : Resumption]
GcRowStates    == [pc : {"gc_row"}, orphans : SUBSET Hashes, hash : Hashes, then : Resumption]

DeleteFilesStates == [pc : {"delete_files"}, ids : SUBSET SnapIds, sweep : BOOLEAN,
                      then : Resumption]
DeleteRowStates   == [pc : {"delete_row"}, ids : SUBSET SnapIds, snap : SnapIds,
                      sweep : BOOLEAN, then : Resumption]
PurgeStates       == [pc : {"purge_files"}, ids : SUBSET SnapIds]

ReadFilesStates == [pc : {"read_files"}, snap : SnapIds]
ServedStates    == [pc : {"served"}, snap : SnapIds, files : SUBSET Hashes]

RetainedStates   == [pc : {"retained_files", "retained_rows"}, then : {Idle, Collecting(Idle)}]
OrphanFileStates == [pc : {"orphan_file"}, hash : Hashes]

RequestStates ==
    Resumption \cup LookupStates \cup InsertStates
    \cup ReadManifestStates \cup VerifyStates \cup RegisterStates \cup CommitTxStates
    \cup GcSelectStates \cup GcFileStates \cup GcRowStates
    \cup DeleteFilesStates \cup DeleteRowStates \cup PurgeStates
    \cup ReadFilesStates \cup ServedStates \cup RetainedStates \cup OrphanFileStates

(* The type of every table, of the disk and of every request in flight.    *)
TypeOK ==
    /\ status \in [SnapIds -> Statuses]
    /\ game \in [SnapIds -> Games]
    /\ version \in [SnapIds -> 0..MaxVersion]
    /\ manifest \in [SnapIds -> SUBSET Hashes]
    /\ announced \in [SnapIds -> SUBSET Hashes]
    /\ expired \in SUBSET SnapIds
    /\ blobRows \in SUBSET Hashes
    /\ disk \in SUBSET Hashes
    /\ uploadUrls \in SUBSET Hashes
    /\ autoDelete \in BOOLEAN
    /\ req \in [Requests -> RequestStates]
    /\ failures \in 0..MaxFailures

-----------------------------------------------------------------------------
(* Safety.                                                                 *)

(* At most one snapshot of a game is in use, whatever commits, restores    *)
(* and deletes run at once: what the unique index of migration 0008 asks   *)
(* for, and what commit and restore keep by demoting before they promote.  *)
OneCurrentPerGame ==
    \A s, t \in SnapIds :
        (status[s] = "committed" /\ status[t] = "committed" /\ game[s] = game[t]) => s = t

(* A snapshot only moves along the life of one: a pending one is committed *)
(* or dropped and never retained, a retained one comes back as the current *)
(* one, a dropped one stays dropped, and nothing returns to pending.       *)
StatusOrder ==
    [][\A s \in SnapIds :
        status'[s] # status[s] =>
            <<status[s], status'[s]>> \in
                {<<"unused", "pending">>, <<"pending", "committed">>,
                 <<"committed", "superseded">>, <<"superseded", "committed">>}
                \cup ({"pending", "committed", "superseded"} \X {"deleted"})]_vars

Kept == {s \in SnapIds : status[s] \in {"committed", "superseded"}}

(* Every blob a current or retained snapshot names is registered and on    *)
(* disk, so the save can be handed back: what commit_snapshot verifies     *)
(* before it promotes and collect_orphan_blobs must not take away.         *)
Restorable == \A s \in Kept : manifest[s] \subseteq (blobRows \cap disk)

TargetOfDelete(s) ==
    \E r \in Requests :
        \/ At(r, "delete_files") /\ s \in req[r].ids
        \/ At(r, "delete_row") /\ s \in req[r].ids
        \/ At(r, "purge_files")

(* The current snapshot still has the whole manifest prepare-snapshot was  *)
(* given, unless a delete of it is under way: no other handler or job      *)
(* strips it.                                                              *)
CurrentIsWhole ==
    \A s \in SnapIds :
        (status[s] = "committed" /\ ~TargetOfDelete(s)) => manifest[s] = announced[s]

(* The same for the sequential runs where a delete may be cut short: as     *)
(* long as no request died.                                                *)
WholeBarringDeaths == failures = 0 => CurrentIsWhole

(* A commit replaces exactly the version its prepare was based on: when a  *)
(* pending snapshot becomes current, the version in use just before it is  *)
(* its baseVersion.                                                        *)
CommitReplacesItsBase ==
    [][\A s \in SnapIds :
        (status[s] = "pending" /\ status'[s] = "committed") =>
            version[s] = HighestVersion(Current(game[s])) + 1]_vars

(* A restore-manifest answer, put together from two statements, is either  *)
(* whole or the empty one of a save that is gone for good: no commit,      *)
(* restore or deletion of a retained version lets it list a part of a save *)
(* or strip a save that is still there.                                    *)
ServedWholeOrGone ==
    \A r \in Requests :
        At(r, "served") =>
            \/ req[r].files = announced[req[r].snap]
            \/ req[r].files = {} /\ status[req[r].snap] = "deleted"

-----------------------------------------------------------------------------
(* The snapshots, seen as a history of saves.                              *)

Keeps == ~autoDelete

OfferedSaves ==
    [s \in SnapIds |-> IF Keeps /\ status[s] # "unused"
                       THEN {[game |-> game[s], files |-> announced[s]]}
                       ELSE {}]

(* What a restore hands back: the files of the manifest that are there.    *)
KeptSaves ==
    [s \in SnapIds |-> IF Keeps /\ s \in Kept
                       THEN {[game |-> game[s], files |-> Held(manifest[s])]}
                       ELSE {}]

SavesInUse == [g \in Games |-> IF Keeps THEN Current(g) ELSE {}]

History == INSTANCE SaveHistory WITH
    Ids <- SnapIds, Files <- Hashes,
    offered <- OfferedSaves, kept <- KeptSaves, inUse <- SavesInUse

(* Of a server that keeps what a launcher replaces, and while nobody       *)
(* deletes, the snapshots are such a history, whatever prepares, uploads,  *)
(* commits and restores interleave: no save that was in use is lost,       *)
(* rewritten or left with a file missing, and one commit or restore puts   *)
(* exactly one save in use.  Of one that deletes it nothing is claimed.    *)
ImplementsHistory == History!Spec

-----------------------------------------------------------------------------
(* Liveness, under FairSpec.                                               *)

(* A registered blob nothing references any more is freed: the quota of    *)
(* the user does not shrink for good.                                      *)
OrphanRowsFreed == \A h \in Hashes : h \in Orphans ~> h \notin Orphans

(* An upload abandoned for a day is swept.                                 *)
StalePendingSwept == \A s \in SnapIds : s \in StalePending ~> s \notin StalePending

(* Every handler and every job run comes to an end.                        *)
RequestsEnd == \A r \in Requests : req[r] # Idle ~> req[r] = Idle

=============================================================================
