# TLA+ models of hydra-server

hydra-server is the self-hosted back end of the Hydra launcher: one Rust
process (axum on tokio) over one SQLite file and one directory of uploaded
files. Below, `src/…` is a path in the repository; the Rust code is in
`src/src`, the schema in `src/migrations`.

What is unusual about this server, and what these models are about, is that
almost nothing in it is locked. The pool holds 8 connections (`src/src/main.rs:71`),
every handler is an async function, and every statement is its own transaction
unless the code says otherwise. Between two awaits any other handler may run, and
a handler whose client hangs up is dropped where it stands. So the unit of
atomicity in all the modules is **one statement, one transaction, one file
operation or one critical section of a mutex**, and a request is a record with a
program counter.

## Files

| module | what it is | checked by |
|---|---|---|
| `CloudSaves` | Cloud Save V2: snapshots, manifests, blobs, their jobs and admin routes | `MCCloudSaves` |
| `SaveHistory` | what launchers take cloud saves to be (abstract) | refined by `CloudSaves` |
| `CloudSavesProofs` | theorems about `CloudSaves`, the refinement among them | TLAPS |
| `Uploads` | `PUT /storage/{token}`: chunks, temporary file, quota gate, finalize | `MCUploads` |
| `ObjectStore` | what the rest of the server takes that PUT to be (abstract) | refined by `Uploads` |
| `UploadsProofs` | theorems about `Uploads`, the quota and the refinement among them | TLAPS |
| `SumProofs` | lemmas about `SumFunctionOnSet`, for the sizes that a quota adds up | TLAPS |
| `Scheduler` | the housekeeping schedule: loop, claims, triggers, operators | `MCScheduler` |
| `SchedulerProofs` | theorems about `Scheduler` | TLAPS |
| `EmulationSaves` | memory-card slots: upload, commit, deletes, retained versions | `Saves` |
| `Artifacts` | save backups, their per-game limit and their shares | `Saves` |
| `ArtifactsProofs` | theorems about `Artifacts` | TLAPS |
| `Saves` | the two above side by side | `MCSaves` |
| `SavesProofs` | theorems about `EmulationSaves`; those of `Artifacts` carried over | TLAPS |
| `Souvenirs` | achievement syncs, the merge, captures and their claims | `Profiles` |
| `SouvenirReports` | likes, reports, visibility, an operator's decisions | `Profiles` |
| `LinkedAchievements` | one list for a game that two stores sell | `Profiles` |
| `Profile` | playtime, hidden games, what the pages of a profile show | `Profiles` |
| `Profiles` | the four above side by side | `MCProfiles` |
| `ProfilesProofs` | theorems about `Souvenirs`, `SouvenirReports`, `LinkedAchievements` and `Profile` | TLAPS |
| `Accounts` | token cache, portal sign-in and cookie, block and delete | `Server` |
| `Presence` | who is around, and when an arrival is announced | `Server` |
| `LoginGuard` | the brute-force guard of the two sign-in forms | `Server` |
| `Pictures` | banner, avatar and artwork, with the sweep of orphaned files | `Server` |
| `DatabaseBackups` | backup, prune, restore and upload of database files | `Server` |
| `Webhooks` | deliveries, failure counting, switching off | `Server` |
| `Calendar` | when a timer is next due | `Server` |
| `Server` | the seven above side by side | `MCServer` |
| `ServerProofs` | theorems about `Accounts`, `Presence`, `LoginGuard`, `Pictures`, `DatabaseBackups`, `Webhooks`, `Calendar` | TLAPS |
| `MCCloudSaves` … `MCServer` | TLC instances (`*.cfg`) | |

`PROJECT.json` maps every definition to the lines it models and lists the runs,
one mutation per property, the findings, the hazards and the theorems. A
definition with the comment `mutant` is not part of a model: it is a plausible
bug that the property beside it is known to catch.

## Inventory

Each part of the system, the state it keeps, what it does with whom, what is hard
about it and what would make it correct.

### Cloud saves (`src/src/cloud_saves.rs`) — modelled

* State: tables `cloud_save_snapshots` (status pending / committed / superseded,
  version, created_at), `cloud_save_snapshot_files`, `cloud_save_blobs`; files
  under `cloud-saves/{user}/{hash}`. One committed row per game (partial unique
  index, migration 0008).
* Operations: prepare-snapshot (sweep, compare the base version, insert, presign
  what is missing), commit-snapshot (verify each file, register it, one
  transaction that demotes or drops and promotes), restore, delete of a game or
  of a version, restore-manifest and download urls, sweep of stale pending
  snapshots, garbage collection of blobs.
* Interacts with: uploads (a blob arrives outside any snapshot), limits
  (`auto_delete_saves`), the jobs, three admin routes, the portal.
* Hard: the base is checked at prepare and never again; a collection is a SELECT
  and then a loop of removals; deletes are two statements per id outside a
  transaction; every operation can die at an await.
* Correct when: a committed or retained save can always be handed back whole; one
  current save per game; a 200 means it happened; space is eventually freed.

### Uploads and quota (`src/src/storage.rs`) — mostly modelled

* State: files `{key}` and `{key}.uploading`; the in-memory `InFlightUploads`
  (bytes by key); `size_bytes` and `is_uploaded` of the rows of each kind.
* Operations: presign (a JWT), PUT whole or in chunks, GET, finalize, the
  deletions of files that other components ask for.
* Hard: one temporary file per key whoever writes it; the quota is a sum over
  tables plus what is in flight, read at different times; a digest is checked on
  the stream and not on the file.
* Correct when: only whole objects appear under a key; rows learn real sizes; the
  quota holds against the bytes that arrive.

### Schedule, triggers, jobs (`src/src/schedule.rs`, `triggers.rs`, `jobs.rs`) — modelled in what gates a run

* State: `scheduled_tasks` (enabled, triggers, next_run_at, last_run_at,
  last_status), `task_runs`, the in-memory set of running tasks.
* Operations: a tick every 30 s, run (read row, claim, job, save outcome,
  announce), run by hand, edit, run log; nine jobs, eight of them schedulable.
* Hard: a run writes back what it computed from a row it read before; the list of
  a tick ages while its first tasks run; operators hang up; the server restarts.
* Correct when: a task runs once at a time, a claim never outlives its run, what
  the row asks for is what happens, a missed run happens after a restart.

### Save backups and shares (`artifacts.rs`, `shares.rs`) — modelled

* State: `artifacts`, `artifact_shares`, files `artifacts/{id}.tar`.
* Operations: create (count against the per-game limit, then insert), upload,
  freeze, rename, delete (row, shares, file), share with a friend, list shared.
* Hard: the limit is check-then-insert; deletion is a row and then a file, while
  a share of the same backup is checked and inserted.
* Correct when: the limit is passed only by racing, what is shared can be
  downloaded.

### Emulation saves (`emulation.rs`) — modelled

* State: `emulation_saves` (slot = platform, emulator, kind and identity;
  is_uploaded; superseded_at), files `emulation-saves/{id}.bin`.
* Operations: presign (a row), commit (lists the rest of the slot, then supersedes
  or deletes them statement by statement, then marks its own row; no transaction),
  download, rename, delete; the retained-versions job; deletes from the panels.
* Hard: two commits of one slot interleave, each deleting the other's save, and the
  final UPDATE of a deleted row goes unnoticed.
* Correct when: one save of a slot is in use, and a slot never loses its last save.

### Achievements, combined achievements, game links (`achievements.rs`, `combined_achievements.rs`) — modelled

* State: one JSON list per user and game; links between a game's copies in two
  stores; a definitions cache.
* Operations: sync = read, merge (union of names, earliest unlock time), write;
  combined view pairs two copies by display name; links replaced in a transaction.
* Hard: two devices sync at once and the second write loses the first's; the
  pairing counts repeated display names and borrows definitions.
* Correct when: an unlock is never lost and its time never moves later; the
  combined list says of every copy what the copy says.

### Souvenirs and reports (`souvenirs.rs`, `admin/reports.rs`) — modelled

* State: `souvenirs` (pending until claimed, then ready), `souvenir_likes`,
  `souvenir_reports` with their resolutions, image files.
* Operations: authorise, upload, claim from a sync, like, visibility, report,
  resolve / reopen, sweep of reservations older than 24 h.
* Hard: claim is read, check, write; the sweep deletes by id from an old list; a
  decision acts on the picture in one statement and settles the reports in another.
* Correct when: one capture per unlock, an acknowledged capture stays, a decision
  stands.

### Playtime, hidden games, profile pages (`playtime.rs`, `hidden_games.rs`) — modelled

* State: `playtime_daily` (additive, clamped per report), `hidden_games`.
* Hard: a page reads the rows and then, in another statement, the hidden games. The
  heat map, the recent unlocks and the statistics do so; the souvenir tab and the
  unlocks of one game (`souvenirs.rs`) do not ask, and a row of achievements that was
  synced without a shop matches no hidden game.
* Correct when: what is played while hidden shows on no page that asks. That it shows
  on none at all is not so.

### Accounts: tokens, portal and admin sessions, rate limit, presence (`auth.rs`, `portal/*`, `admin/session.rs`, `ratelimit.rs`, `presence.rs`) — modelled, the admin's cookie aside

* State: an in-memory token cache (300 s), signed cookies, link tokens (15 min),
  attempts by address, last-seen times and the set of users online.
* Hard: a token verified before the cache was cleared is inserted after; attempts
  in flight together all pass the check; one announcement per return.
* Correct when: a blocked account is out from its next request on, the number of
  guesses is bounded, an arrival is announced once.

### Database backup and restore (`backup.rs`, `admin/backups.rs`) — modelled up to the reload

* State: files in the backup directory; the whole database.
* Operations: `VACUUM INTO` a free name, prune to a count with one protected file,
  restore by ATTACH and one transaction after a safety backup, upload, delete.
* Hard: prune of one racing restore of another; a restore whose caller hangs up.
* Correct when: a restore that swaps can be undone.

### Events and webhooks (`events.rs`, `webhooks.rs`) — webhooks modelled

* State: the event log, webhook rows with a failure count; disabled at 20.
* Hard: deliveries run at once and count in the order the answers come, among the
  operator's edits.
* Correct when: a run of failures switches a hook off, and nothing else does.

### Images (`images.rs`, `artwork.rs`, `replace_profile_image` in `storage.rs`) — modelled

* Replace = read the old key, write the new row, delete the old file; two at once
  leak a file; the operator's sweep checks a file and then deletes it.
* Artwork is saved by a second request, which takes any name under the user's own
  prefix: the size of a file that is not there counts as 0.
* Correct when: the picture a row names is on disk, if it was when its size was taken.

### Not modelled, or only as far as others need it

Download sources (idempotent insert and delete of one row), the game metadata
cache (one upsert per answer, on which nothing else depends), limits and settings
(three layers of lookup; what changes under a request is modelled where it
matters: automatic deletion in `CloudSaves` and `EmulationSaves`, the allow-list in
`Accounts`), the run log and the event log with their retention, and deletion of an
account as one sequence over every kind of file (its row is in `Accounts`, the
purges of each kind in the module that owns it).

No state of their own: integrity scan (its list of orphaned pictures is in
`Pictures`), admin overview, portal API (the statements of the other components
again), static front ends, request plumbing (headers, errors, metrics), end-to-end
tests. `PROJECT.json` lists each with its files.

## How state and actions correspond to the code

### CloudSaves

One user: every query of this code filters by user, so two users share only the
job that visits them in turn. `status`, `game`, `version`, `manifest` are the
columns and child rows of a snapshot, by id; `status = "unused"` is an id not
drawn yet and `"deleted"` a row that is gone, kept so that a property can speak of
it. `announced` is the aggregate hash: the manifest the launcher gave to prepare,
which no code rewrites. `blobRows` is `cloud_save_blobs`, `disk` the files,
`uploadUrls` the signed PUTs that are out. `expired` are the snapshots older than
24 h. A hash stands for the pair (hash, size).

A request is `req[r]`, a record whose `pc` names the await it stands at and whose
other fields are exactly the local variables the handler still uses. The
sub-routines (the sweep, the delete of a list of ids, the collection) carry a
`then`: where the caller goes on. `Start` has one disjunct per entry point,
`Continue` one per step, `Environment` the upload, the passage of a day, the
change of the setting and `RequestFails`, which ends any request at any await
(client gone, database error, process killed).

| action | code |
|---|---|
| `Prepare`, `PrepareReadCurrent`, `PrepareLookup`, `PrepareInsert`, `PrepareRefused` | `prepare_snapshot`: sweep, 409 on a stale base, blobs already held, one transaction |
| `CommitReadPending` … `CommitTx` | `commit_snapshot`: row, manifest, stat and register each file, limits, one transaction |
| `SweepStale`, `DeleteFiles`, `DeleteRow` | `sweep_stale_pending`, `delete_snapshots`, the admin's `delete_snapshot` |
| `GcSelect`, `GcFile`, `GcRow` | `collect_orphan_blobs` |
| `DeleteRetained`, `Restore` | `delete_snapshot`, `restore_snapshot` (guarded transactions) |
| `Purge*` | `purge_cloud_saves` in `admin/users.rs` |
| `Manifest*` | `restore_manifest` and its file list |
| `SweepJob`, `GcJob`, `RetainedJob*` | `jobs.rs` |
| `OrphanFile*` | `delete_orphan_files`, `still_referenced` in `admin/maintenance.rs` |

`SaveHistory` is what a launcher takes all this to be: a save is offered once, under an
id of its own; once put in use it is handed back exactly as offered, for good; and a
game uses one save at a time. It has no status, no blob and no request.
`CloudSaves!ImplementsHistory` computes its state: `offered` from the announced manifest of
each drawn id, `kept` from the files of the manifest that are registered and on disk for
each current or retained snapshot, `inUse` from the committed ones. So it says of `cs_race`
what `Restorable` says of `cs_serial`, and that the files are those announced. Deletions
are not part of that promise: it is claimed of a server with automatic deletion off
(`Keeps`; with it on, the history that is computed is empty) and for the entry points of
`cs_race`, none of which deletes by hand.

### Uploads and ObjectStore

One owner. Bytes are units: the object of key `k` is `<<1, …, Size[k]>>` and a 0 is
a unit that arrived damaged or a hole in the file. A file is an inode, so a
handle outlives the name it was opened under, which is what makes truncation of a
shared temporary file visible. `row` is what the database counts for a key,
`inFlight` the registry, `granted` the keys with a signed url. The gate of the
quota is `OpenBudget` / `QuotaReread` (read the total), `Publish` (one critical
section of the registry's mutex) and `Judge` (the next). `Presign` of a save key
stands for a new id. `RegisterBlob` is what a commit does to the totals.

`ObjectStore` is the abstraction the other components rely on: an object is
absent, then whole, then stays. `Uploads!ImplementsStore` instantiates it with
`object[k]` computed from the inode under the final name.

### Scheduler

Timestamps are only compared, so the model keeps their ranks: `Stamped` renumbers
every timestamp in use after each step, and the clock never needs a bound.
`next_run_at` is none, ahead of the clock or due. The list of due tasks of a tick
is `queue`, taken in the order of `jobs::JOBS`; `run[s]` is what the loop or an operator's request is doing, with the
row it read before the claim. `Tick(passed)` takes the set of tasks whose delay,
gap or threshold is crossed at that moment as a choice.

### Calendar

`NextRun` is `next_run` of `triggers.rs`, unit by unit, on a calendar of constant
months and days of a few ticks, which keeps everything that depends on the length
of a month and on the order of two times of day. `FirstAfter` is the loop
`while candidate <= from`, as the division it amounts to. `Run` takes a timer from
one due time to the next, with the delay of the scheduler and the length of the
job as a choice; `Valid` is `validate`, and TLC starts from every timer offered
that it lets through.

### EmulationSaves and Artifacts

One user each: every statement filters by user or by id. A row is a member of
`rows`; `uploaded`, `superseded`, `frozen` are its columns and `disk` its file. A
PUT is `Land` (the rename) and `Finalize` (the UPDATE of `finalize_upload`), and a
url outlives its row.

| action | code |
|---|---|
| `Presign`, `Commit`, `CommitList`, `CommitLimits`, `CommitDrop`, `CommitFile`, `CommitSupersede`, `CommitReplaced`, `CommitOwn` | `upload_url` and `commit` of `emulation.rs`, one action per await |
| `Delete`, `PanelDelete`, `DeleteDoomed`, `Unlink`, `Purge*` | the launcher's delete, the admin's and the portal's, the purge |
| `RetainedJob` | the second half of `delete_retained_versions` |
| `CreateCounted`, `CreateInserts`, `CreateFails` | `enforce_quotas` and `create` of `artifacts.rs` |
| `ShareChecked`, `ShareInserts`, `Unshare` | `shares.rs`; the foreign key drops shares with their backup |
| `PanelFinds`, `PanelDrops`, `PurgeLists`, `PurgeDrops`, `SetFrozen` | the same rows from the panels |

### Souvenirs, SouvenirReports, LinkedAchievements, Profile

`Souvenirs` has the sync with the souvenirs because the sync claims them:
`SyncReads`, `SyncUpserts`, then for each capture `ClaimReads`, `ClaimChecks`,
`ClaimFiles`, the three awaits of `claim_one`. `Merge` is `merge_achievements`; names
are spellings with `Upper` for their upper case, and times are small numbers. The
sweep is `SweepLists` and `SweepDrops`. `SouvenirReports` starts from pictures that
are ready, since likes and reports ask for nothing else of them; a decision is
`ResolveReads`, the act (`ResolveHides`, `ResolveRemoves`, or none in
`ResolveDismisses`) and `ResolveSettles`. `LinkedAchievements` has `combine` as a
fold, as the code writes it, and the property says its result without it, by
counting. `Profile` has one viewer whose request is `ViewReads` and `ViewFilters`,
for each page: the heat map, the recent unlocks, every tab of the statistics, every
tab of the souvenirs, the unlocks of any one game. `Facts` are what is recorded of a game
(seconds played, its latest unlock, its latest capture), `Told` is the one a page tells,
and the history `open` keeps each as it was when the game was last in sight. The last two
pages have no second statement in the code; in the model theirs reads nothing.

### Accounts, Presence, LoginGuard

`caller[c].pc` is the await a request stands at on its way in:
`LauncherCalls`, `Verify`, `Upsert`, `Remember`, `CheckAllowed`, `Touch` are
`CurrentUser::from_request_parts`; `PortalLogin` … `PortalTouch`, `LinkSignIn` and
`PortalCalls` the portal's three ways; `SetBlocked`, `DeleteUser` and `ClearCache` the
operator's. `Presence` and `LoginGuard` are the two maps in memory with their own
clocks in ticks, which stop where no age is told apart any more: `Look`, `Enter`,
`Ask`, `Bump` are the read lock, the write lock, the row and its UPDATE; `Check`,
`Try`, `RecordFailure`, `RecordSuccess` a sign-in.

### Pictures, DatabaseBackups, Webhooks

`Pictures` has one place (the banner, or the avatar; or the artwork of one game)
and the requests that change it: `Read`, `Write`, `Unlink` for a replacement,
`Scan` and `SweepCheck` for the operator. `Save` takes any key, with a file or without,
and `sized` says which (`size_in_bytes` of an artwork that had none is 0). `DatabaseBackups` keeps the directory as a
list, newest first, with contents that are the number of a change; `Copy`, `Prune`,
`Unlink`, `Swap` are the steps of a restore, and the first three those of a backup.
`Prune` lists what is past the limit and `Unlink` removes one file of that list, so a
copy may land under a name that a prune has listed. `Misattach` is the swap from a
file that is gone, of which ATTACH makes an empty one. `Webhooks` has one hook, with a delivery from `Dispatch` to `Delivered` or
`Failed`.

### Saves, Profiles, Server

The components of each of these share no table, file or map, so no step of one can
disturb another. Each module puts them side by side, and a step of it is a step of
one of them; that is the specification its theorems are about. Its MC module
(`MCSaves`, `MCProfiles`, `MCServer`) lets **one** component move in a behaviour, its
`focus`: the state space TLC sees is the sum of theirs and not the product, and each
property speaks of one component. What they do share with the rest of the server is
inside the component: the jobs, the panels and the purges that work on the same
rows, the upload that lands beside them, restarts.

## Runs

All runs finish well inside five minutes on two workers.

| run | bounds | shows |
|---|---|---|
| `cs_serial` | 2 games, 2 hashes, 2 snapshot ids, versions ≤ 2, one slot for request or job, 1 death, auto-delete on and off and switched | every operation, one after another: kept saves are restorable, manifests are whole unless a deletion died halfway |
| `cs_race` | 1 game, 1 hash, 3 ids, versions ≤ 3, 2 requests interleaved, 1 death, auto-delete on in half of the behaviours and off in the other; prepare, upload, commit, restore, read | syncs, restores and reads at once: one save is current, an answer to restore-manifest is whole or that of a save that is gone, statuses move one way; with auto-delete off, refinement of `SaveHistory` |
| `cs_liveness` | 1 game, 1 hash, 2 ids, 1 request and 1 job, 1 death | every handler ends, abandoned uploads go, blobs are freed even when the request that owed it died |
| `up_serial` | 2 requests interleaved, 2 saves (one arriving a unit longer than declared) and 1 blob, quota 2, refresh every unit, 1 death, one PUT per key at a time | whole objects, quota, no stale entry, refinement of `ObjectStore` |
| `sched` | 2 tasks, all five kinds of trigger, the loop and an operator, 1 incident (edit, restart, lost write or hang-up), no edit of a task during its run; deadlock is checked | one run at a time, live claims, runs recorded in order, next_run_at says what the row asks for |
| `sched_liveness` | 2 tasks, timers and startup triggers, 2 incidents | timers keep firing, startup triggers fire in every life |
| `saves` | 3 ids, one slot, 2 requests or jobs interleaved, any of them dying anywhere; limit of 1 backup, 1 friend | one save in use per slot, a slot keeps a save, the limit is passed only by racing, what is shared can be downloaded |
| `profiles` | 2 captures, 2 syncs of one game, 2 spellings and a nameless entry; 1 picture, 2 members, 2 requests, 1 report an hour; 3 stores, 3 sets of links, repeated and missing names; 2 games, one without a shop | unlocks kept, one capture per unlock, filed stays filed, decisions stand, the combined list is whole, what is played in hiding shows on no page that asks what is hidden |
| `server` | 2 requests in each component but the calendar; 3 misses allowed, window and lockout of 3 ticks; 2 keys; 3 names for copies and 1 for uploads, 1 kept; failure limit 3; 28 months with a leap year, timers of every unit with refused and clamped ones | blocks hold, arrivals are announced once, guesses are bounded, pictures that had a file keep it, restores can be undone, a hook is switched off by a run of failures, timers keep their place and step |
| `cs_stale_base`, `cs_gc_race`, `emu_slot` | the smallest instance that shows it | the first three disagreements below |

Why these bounds. The interesting events of CloudSaves need a version that is
replaced (two snapshots) and one prepared meanwhile (three, in `cs_race`), a blob
shared by two snapshots (one hash) and one that is not (two, in `cs_serial`), and a
second game for what must stay out of a delete. Two interleaved requests are the
smallest race; `cs_serial` gives its slot to a request or to a job so that every
entry point is met in every state the others leave. `Uploads` needs three inodes
for two temporary files and one object in place, a quota that one object fills,
and a refresh that happens inside a body. `Scheduler` needs a task to be the parent
of another, both to hold the loop, and one incident to invalidate what a run
holds. Version numbers, deaths and incidents are capped by `MaxVersion`,
`MaxFailures`, `MaxIncidents`; reaching the cap disables the action and nothing else
(a prepare that runs out of ids or versions ends as if the quota had refused it,
so that it cannot hold up a liveness property).

`SYMMETRY` is used in safety runs only, over ids that nothing orders. Deadlock is
checked in `sched`. In the others clients owe nothing, and the model ends when the
ids, keys or versions are used up; `RequestsEnd` says that no request of cloud saves
waits for ever.

A type invariant that no cfg names (`Uploads`, `Scheduler` and the modules of
`saves`, `profiles` and `server`) is there for the reader and the proofs; a wrong type
in those would stop TLC by itself.

What a property excuses is written in it, with a variable marked as history that
remembers who did what. `SlotKeepsASave` takes what its clients may do wrong as the
constant `Excusable`, and the run `emu_slot` takes one excuse away. The excuses are
the races the code loses; each is a line of the second list below.

## Fairness

* `CloudSaves!FairSpec`: weak fairness of `Continue(r)`, since tokio goes on polling
  a handler until it ends (or `RequestFails` drops it), and strong fairness of the
  sweep and collection jobs: the scheduler runs each of its tasks again and again,
  whatever it ran in between, and a job slot busy with another task only delays it
  (`TimerFires` is that promise, checked in `sched_liveness`). Clients, uploads and
  administrators owe nothing.
* `Scheduler!FairSpec`: weak fairness of the loop, of an operator's request under
  way and of time; strong fairness of a tick that sees an elapsed delay, because a
  delay that has elapsed stays elapsed. Jobs are assumed to end; for the jobs of
  cloud saves `RequestsEnd` shows that they do. Operators and events owe nothing.

## Where the code and its documentation disagree

Three are runs in which TLC finds the promise broken; `PROJECT.json` quotes the lines.

1. `cs_stale_base`: the base version is compared at prepare only. Two devices that
   prepared from the same version both commit; the second replaces work it never
   saw, which the module's first paragraph says cannot happen.
2. `cs_gc_race`: a blob listed as an orphan, then named by a prepare and verified by
   a commit, then removed: a current save names a file that is gone.
3. `emu_slot`: two uploads open on one slot, committed one after the other. The first
   commit supersedes the second's save; the second commit supersedes the first's and
   leaves its own superseded. The slot lists nothing, and the retained-versions job
   deletes both.

Seen while modelling, in cloud saves and uploads:

* Two commits of one pending snapshot with automatic deletion on (`cloud_saves.rs:632`).
  Both read it as pending; the second finds it current, drops it as the version it
  replaces, promotes nothing and answers 200. The game has no save left, and no
  property here says it must: TLC finds the sequence with two ids and two requests.
* The sweep selects stale pending snapshots and deletes by id (`cloud_saves.rs:1226`). One
  that its launcher commits in between is dropped, as the current save, although the
  sweep is for snapshots "that were never committed".
* A restore manifest is two reads. With automatic deletion, a commit in between drops
  the snapshot, and the launcher gets a 200 with no files for "the full manifest". This
  answer is the one that `ServedWholeOrGone` excuses.
* Two PUTs of one blob share `{key}.uploading`; the second truncates what the first has
  verified and is about to rename (`storage.rs:633`). `up_serial` excludes it with
  `SameKeyTwice = FALSE`.
* A blob that landed and is not committed counts neither as a row nor as in flight
  (`storage.rs:278`): prepare, upload, prepare, upload, and more than the quota is on
  disk. No collection frees one that is never committed; only the orphan-file screen
  sees it.
* The removal of an orphan file (`admin/maintenance.rs`) checks, then deletes, though
  its comment says that a stale panel tab can never delete a file claimed since.
* `delete_retained_versions` empties manifests in one statement and deletes rows in
  the next: a restore in between makes an emptied version current.
* A restore numbers from the rows that are left (`cloud_saves.rs:975`), so the number
  of a deleted version is given out again; and with automatic deletion off a commit
  of an old prepare makes the current version number go back.
* A delete that dies between its two statements leaves a pending snapshot with no
  manifest, which then commits.

In the other components:

* Profile pages: the souvenir tab and the unlocks of one game (`souvenirs.rs:548` and
  `:760`) answer any viewer without asking what is hidden, and the statistics count a
  row without a shop (`achievements.rs:261`), although the set of hidden games is "used by
  profile-facing endpoints to filter hidden games" (`hidden_games.rs:135`). `Profile` has
  these pages and rows; `PlayedInHidingStaysHidden` leaves them out (`MatchesHidden`).
* Emulation saves: two commits of a slot at once each drop the other's save; a
  commit before its upload was answered lists a save that has no file.
* Backups: `set_frozen` of the admin says a frozen backup is exempt from the limit;
  `enforce_quotas` counts every row. A comment says foreign keys are not enforced on
  the connection; sqlx turns them on.
* Achievements: overlapping syncs of one game lose the first's unlocks; overlapping
  claims file two captures for one unlock.
* Souvenirs: the sweep is for captures "whose upload never arrived", and its SQL does
  not look at `is_uploaded`; one it listed is dropped even if a sync claims it
  meanwhile. `readable_souvenir` does not ask for the account's visibility. Of two
  likes at once the second INSERT fails with a 500.
* Accounts: the portal's cookie and link do not ask the allow-list; `touch` admits a
  user whose row has gone. Deleting an account reads the key of the banner and not
  that of the avatar, whose file stays.
* Presence: a request that bumps `last_seen_at` before another's look at the row
  makes an arrival go unannounced.
* Webhooks: a failed test counts towards the limit and never switches a hook off.
* Artwork: a key is saved without asking that its file exists, and one key may be
  saved for several games, each of which removes its file when it is replaced. The
  integrity scan lists souvenir files without a row as orphans, which the removal then
  refuses.
* Database backups: another request's prune may take a restore's source, of which
  ATTACH then leaves an empty `.db`. Two restores at once may leave settings of the
  first in memory.
* Timers: with a count above one, a run that ends on a later day than it was due on
  loses the step (every 3 days becomes sooner than 3 days after it was due).

Seen in the scheduler: a run writes `next_run_at` from the row it read before it began
(`schedule.rs:309`), so an edit made meanwhile is undone and a task given a timer then
never fires (`EditsDuringRuns = FALSE` excludes it); an entry of the tick's list is run
without asking again; AfterTask compares start times, so a parent run that overlaps
its child's start is never followed; the run of an operator who hangs up is not
recorded; two administrators' edits lose one; an OnEvent trigger on system events can
start itself; a failed UPDATE leaves the task due at every tick; one long job holds up
all others.

## Proofs

37 theorems over 407 lemmas, some 12000 obligations, for every value of the
constants that meets the ASSUMEs of the modules: bounds are naturals and settings
Booleans, there is a game, the two kinds of key are disjoint, an emulation save has a
slot, `NoKey` is not a key and `NoFile` not an inode, a launcher sends unlocks of games
there are, each with a time or none, a catalogue answers lists of definitions, a month has 28 to 31 days, a day and an hour last
and a delay is not negative, and what the code clamps to at
least one (the idle window, the failure limit, the backups to keep, the settings of the
rate limit, a delta of playtime) is not zero. No set is assumed finite unless a theorem
says so, and no operator is recursive.

Some theorems have a hypothesis. Each is a value of a constant that a run gives, too,
and each leaves out a behaviour that really breaks the property:

| hypothesis | meaning | theorems |
|---|---|---|
| `~SameKeyTwice` | no two PUTs of one key at once; two of a blob truncate each other's file | `FilesAreWhole`, `PutImplementsStore`, `SavesFitQuota`, `StreamsFitQuota` |
| `~EditsDuringRuns` | no operator edits a task while it runs; the end of the run writes over the edit | `TimersFollowRows` |
| `Alone` | one request or job of cloud saves at a time; `cs_gc_race` shows what two can do | `RestorableAlone`, `WholeUnlessKilled` |
| `OnlyAdding` | any number at once of prepares, uploads, commits, restores and reads, with auto-delete off | `RestorableAdding`, `HistoryImplemented` |
| `Transactional` | any number at once of prepares, uploads, commits, restores, reads and the launcher's deletions of a version, with auto-delete as it may be; no upload grows old, so nobody deletes a manifest apart from its snapshot | `ServedOrGone` |
| `AllExcused` | the clients' mistakes that the property excuses are all in `Excusable`; `emu_slot` takes one out | `SlotKeeps` |
| finite sets | what is counted or added up is finite: the requests of a limit, the callers of the rate limit, the keys and the requests of a quota | `SavesFitQuota`, `StreamsFitQuota`, `LimitPassedByRacing`, `LimitPassedOnlyByRacing`, `GuessesStayBounded` |

`CloudSavesProofs`, for every set of games, hashes, ids, handlers and jobs:

* `TypeCorrect`: `Spec => []TypeOK`. Inductive as it stands. `StateByCounter` says
  that the counter of a request determines which record it is; `GotoTypeOK` that a
  jump to a typed state is typed; the step lemma has one case per action.
* `OneCurrent`: `Spec => []OneCurrentPerGame`, with `TypeOK /\ OneCurrentPerGame`
  inductive. Types are needed to know that `game` and `status` are functions.
  `StatusChanges` reduces the forty or so actions to the few shapes in which a step
  touches `status` or `game`; only two of them (the transaction of a commit and of a
  restore) make a snapshot current, and both take the current ones of that game away
  in the same transaction. The proof does not depend on the guards of the commit,
  which is why the property survives the races above.
* `StatusOrdered`: `Spec => StatusOrder`. Not inductive without `TargetsDrawn`: every
  id a delete, a commit or a collection holds was drawn before, so no step moves an
  unused id to deleted or committed. `DrawnGrows` says that drawn ids stay drawn.
* `RestorableAlone`: `Spec => []Restorable`. `KeptInv` adds `Careful`, what a request
  must know at each of its awaits for its next step to be right: what a commit has ticked
  off is registered and on disk, and no manifest names the blobs a collection holds.
* `WholeUnlessKilled`: `Spec => []WholeBarringDeaths`. `WholeInv` says who is to blame
  when a save lacks a file that was announced: a delete under way that has it as a
  target, a purge, or the job that prunes kept versions and has yet to delete the rows.
* `RestorableAdding`: `Spec => []Restorable` again, from another invariant, `AddInv`.
  While nothing is deleted every blob row is named by a manifest (`Referenced`), so a
  collection finds nothing to take, whatever runs beside it; every manifest is what was
  announced, and what a request read of one still holds (`Faithful`).
* `ServedOrGone`: `Spec => []ServedWholeOrGone`. `GoneInv` says of every snapshot that it
  has all of the manifest it announced, or is deleted and has none (`WholeOrGone`), which
  commits, restores and deletions of a version keep because they are one transaction
  each; and of a request that has read the files, that they are all there were or that
  the snapshot is gone (`Settled`). A deleted id is never drawn again.
* `HistoryImplemented`: `Spec => ImplementsHistory`, the refinement of `SaveHistory`, from
  `AddInv` in both states of a step. `KeptAsOffered` says that what a restore hands back is
  what was announced; so only the steps that change a status, a game or an announced
  manifest can show (`NothingShows`), and they are three (`WhatShows`): an insert offers
  (`InsertOffers`), a commit's transaction and a restore put one in use (`PutsInUse`,
  `UseHappens`). A second commit of a snapshot that was replaced meanwhile is a `Use`, too:
  the history says it loses nothing, not that it is what its user meant
  (`cs_stale_base`).

`SchedulerProofs`, for every set of tasks, triggers and operators:

* `RunsAlone` and `ClaimsLive`: `Spec => []OneRunAtATime` and `Spec => []ClaimsAreLive`,
  from one inductive invariant, `ClaimInv`: the two properties together, with the
  tick's list and every runner naming real tasks. Neither property is inductive
  alone: a claim may be taken because nobody runs the task, which is what
  `ClaimsAreLive` says of a task that is not in the set. Renumbering the timestamps
  is put aside first (`StampedRuns`: it changes no counter and no task), so that
  each step is one of three kinds: it keeps the claims, takes one or drops one.
* `TimersFollowRows`: `Spec => []NextRunFollowsRow`. What a runner holds of its row,
  read before the job ran, is still what the row says when it writes the next due time
  (`RowInv`).
* `RunsStayInOrder`: `Spec => []RunsInOrder`. Every timestamp is a natural before the
  next one to be given, there are finitely many of them, and a run's start comes after
  the one recorded (`OrderInv`). The step that renumbers them, which keeps the state
  space finite, keeps the order of any two (`RankIn`).

`UploadsProofs`, for every set of keys and requests, every size and quota:

* `NoEntryLeftBehind`: `Spec => []EntriesAreLive`. The property is not inductive: a
  request without the gate could be the only one under way for its key, and ends
  without dropping the entry. `EntryInv` says that the entry of a key is matched by a
  request that *has the gate*, and every way such a request ends drops it. It
  holds also with two PUTs of one key, where the first to end takes the shared
  entry: the registry may then forget a running upload, never remember a dead one.
* `FilesAreWhole`: `Spec => []FinalIsWhole`. `ContentInv`: no two names share an inode
  (`FilesApart`), one writer has the temporary file of a key (`OneWriter`), and what
  it holds is what the request has written so far, so that it is complete when the
  rename comes.
* `PutImplementsStore`: `Spec => ImplementsStore`, the refinement of `ObjectStore` under
  the mapping `Object`. Only the rename and the finalize are steps of the store; for
  every other step `ContentInv` shows that no key's object changes.
* `SavesFitQuota`: `Spec => []SavesWithinQuota`. A save is *secured* once a check has
  found room for the lesser of its two sizes and for as long as it may land; `QuotaInv`
  says that what is secured fits in the quota. A check that secures one more has counted
  the rows of all the others, each of which holds at least what that save has secured
  (`SecuredGranted`, `BackingGrows`): the row is written by the presign, before its url
  is out, and a finalize only puts the real size in its place. Which is why presigns
  that race each other may leave more rows than the quota has room for, and never more
  files.
* `StreamsFitQuota`: `Spec => []StreamsShareQuota`. A body weighs what it has been let
  write beyond its row, and the registry shows the others at least that much of it
  (`Published`); so a check that finds room beside the registry finds it beside the
  others (`JudgedFits`). The lock is taken twice, to publish and to judge, and a body may
  publish between the two: it is then seen by the one of the two that judges last.
* Both add up over sets of any size. `SumProofs` has the lemmas: that the sum is what it
  says, whatever order the fold takes (`TotalSplit`), that it is monotone, and that an
  injection bounds one sum by another (`TotalInto`). No induction theorem can be cited,
  so each takes a smallest subset where the claim would fail.

`SavesProofs`, for every set of slots, saves and requests:

* `OneSaveInUse`: `Spec => []OneInUsePerSlot`. The property speaks of saves whose
  commits have marked them, and two commits may each miss the other's save in what
  they listed; so it is not inductive. `OneNotPast` says it of commits in progress: a
  commit is *past* a row when it listed the slot without it, has dealt with it, or has
  ended, and of two rows whose commits are past each other one is superseded. The
  commit that comes to be past the other second has seen its row, because ids are
  drawn once. `CommitsOfDrawn` is needed for that.
* `SlotKeeps`: `Spec => []SlotKeepsASave`. In a slot nobody is excused for, one commit
  runs at a time and its save is in use from beginning to end, so it stands in for
  whatever it replaces (`Tended`); it has listed what it replaces, and never itself
  (`InHand`). A file goes only after its row, and what a job is about to remove is
  superseded or has no row (`Doomed`).
* `SharedStay` and `LimitPassedOnlyByRacing` carry the theorems of `ArtifactsProofs`
  over to the module side by side, under the names that the run checks.

`ArtifactsProofs`, for every set of games, backups and requests:

* `SharesStand`: `Spec => []SharedIsDownloadable`. The invariant joins four facts: an
  id on its way into the table is new and held by one request (`FreshIds`), what a
  request is about to remove from the disk has no row any more (`DoomedFiles`), an
  uploaded row has its file (`FilesInPlace`), and a share, or a request about to insert
  one, names an uploaded backup (`SharesOfUploads`). Without `DoomedFiles` the two
  awaits of a deletion could take the file of a row that is still shared.
* `LimitPassedByRacing`: `Spec => []OverLimitOnlyByRacing`. A game weighs its rows plus
  the requests that have counted and not inserted. A request let pass counted fewer
  rows than the limit, so the weight is then at most the limit less one plus the
  requests there are; inserting moves weight from one side to the other and nothing
  else adds any.

`ProfilesProofs`, for every set of games, captures, members and requests:

* `DecisionsHold`: `Spec => []DecisionsStand`. A decision changes the picture first and
  the reports in a later await. `Says` is true of a status already when a request is
  about to settle with it: what it claims of the picture must hold by then
  (`SaidIsSo`) and be kept by everything in between.
* `CapturesApart` and `FiledStay`: `[]OneCapturePerUnlock` and `[]FiledStaysFiled`, from
  `ShotInv`: two claims of a game that decide at once have clashed (`Apart`), so that one
  that decides alone still sees every filed capture of its unlocks (`InClaim`);
  what a sync acknowledged is kept and on no sweep's list (`AckedKept`); what is filed
  has its row, and an uploaded row its picture (`RowsInPlace`).
* `UnlocksMerge`: `[]UnlocksKept`, for lists of any length. What is stored, and what a
  sync holds of it, always has one entry for each name, however it is spelt
  (`OneEach`); while nobody overlaps, nobody stores between a read and its upsert, and
  what is stored *tells* all that was sent: every entry was sent, and none of the same
  name was sent earlier (`Tells`, `UnlockInv`). `AbsorbTells` says that one entry more
  leaves this so, `MergedTells` that the whole fold does: `FolderFolds` shows that
  the function behind a fold exists, the way `SumProofs` does it, and `FoldedIs`
  that the n-th element is taken n-th.
* `CombinedWhole`: `[]CombinedIsWhole`, for any links, answers of the catalogue and
  copies of any length. The invariant of the view (`ViewInv`) is small; the work is in
  `combine`, a fold over the copies of folds over their definitions. A place is a copy
  and a position in its list. `Listed` says what the groups have to say of a set of
  places: one group per key, at the rank of the key's first place, with the variants
  at the ranks of theirs. A place after all others extends it (`PlaceListed`: either
  it starts a group, `NewKeyListed`, or one grows, `KnownKeyListed`), since it leaves
  the ranks before it (`RanksStay`). `AccIs` joins to this that `seen` counts the
  earlier places of each key in the same copy, so that the key the fold computes is
  the one the property counts; `CopyListed` and `CombineListed` go up the two folds.
* `HidingHides`: `[]PlayedInHidingStaysHidden`, for the pages and rows that the code
  matches with the hidden games (`MatchesHidden`). What is in sight of a game is up to
  date, what is recorded of it never shrinks, and what a page has read is not ahead of
  that (`SightInv`).

`ServerProofs`, for every set of requests, callers, keys, names and hooks:

* `BlockHolds`: `[]BlockedIsOut`. Strengthened by `BarredInv`: while a request
  that came in during the block is under way the row is still blocked (what lifts the
  block lifts the mark), so the last await, which reads the row, refuses it. The cache
  is not in the invariant: whatever it holds, it is not what lets a request in.
* `ArrivalsOnce`: `[]AnnouncedOnce`. The map holds the last time a user was seen, and a
  one call at a time has found them away and is yet to say so (`PresenceInv`).
* `GuessesStayBounded`: `[]GuessesBounded`. The misses that the window counts are the
  last `failures` of the entry, a lockout outlasts all of them but those of requests
  let in before it, and until then misses and requests under way stay within the bound
  (`GuardInv`). The property claims nothing of a
  lockout shorter than the window.
* `HooksWearOut`: `[]SwitchedOffAfterARun`. `failure_count` is the length of the run of
  failures since the last success (`HookInv`).
* `PicturesStay`: `[]PictureIsThere`. Three facts about requests between two
  awaits: a key about to be put on the row for the first time, with the size of a file,
  has its file or was found by a sweep (`WrittenHaveFiles`), one that was read off the row has been there
  (`OldWereClaimed`), and one about to be removed is not shown, unless it was put
  there twice or swept (`UnlinkedAreGone`). That two replacements read the same
  previous key does no harm, because neither key they write is that one.
* `RestoresReversible`: `[]RestoreIsReversible`. From the safety copy to the swap, the
  newest file holds what the database held since the copy, and no prune has listed it
  (`FirstIsSafe`); nor does the restore's own prune take the file it restores from
  (`Sound`).
* `RunsKeepTheirSteps`: `[]RunsKeepTheirStep`, for calendars and delays of any length.
  The invariant (`CalInv`) adds that validation let the timer through. The work
  is in the lemmas about `NextRun`, one per unit (`Right`): `FirstAfterIs`, that the loop
  of `step_days` and `step_weeks` ends on the first candidate past the moment, a whole
  number of steps on, and one step on from a candidate of the same day;
  `MonthsApart`, `MonthIs` and `DayHasMonth`, that a day is in exactly one month, by
  `Upwards`, which does for an interval what no induction theorem can be cited for;
  `OnDayIs`, that a clamped day stays in its month; and `MonthsAhead`, that the second
  try of `step_months` always finds a later one: its day is in another month, whatever
  the clamp. Validation is needed there: it keeps a timer within 13 months.

Only model-checked: liveness (out of the prover's reach, with ENABLED). The type
invariants that no cfg names are not theorems of their own; the proofs carry the types
they use. Every safety invariant and every action property that a passing run checks is the
property of a theorem.

## What the models leave out

* Names, labels, metadata, paths, JSON, wording of errors; lists that only read.
* Two users: no statement of the modelled code relates them.
* The listing of a viewer's artwork (`artwork.rs:285`), which leaves out hidden games too:
  it tells nothing of what was played.
* Pictures under one key in two places: `Pictures` has one place.
* Expiry of signed urls; a url stays good in the model, which allows more.
* The real sizes in the quota of `CloudSaves` (a prepare may be refused at any time)
  and the snapshots in that of `Uploads` (a blob is registered at any time).
* In Uploads: images, souvenirs and artwork (their rows are in the modules that own
  them), the deletion of a row while its upload streams, the quota changing.
* In Scheduler: validation of triggers and the arithmetic of a timer (both in
  `Calendar`), the run log, and rows created by `ensure_rows` on a first start.
* In Accounts: the age of an entry in minutes; the official API answers anything.
* In DatabaseBackups: what is reloaded after a swap, and the connection a dropped
  restore gives back to the pool with foreign keys off.
* SQLite itself: a statement or a transaction is one step, and a busy or failed one
  is `RequestFails` (`RequestDies`, `SyncDies`, `WorkerDies`, `Refuse`, `Restart`).

## Plan

What is left, in this order.

1. **Versions** — version numbers against contents in `SaveHistory`, and what a deletion
   may take from it.
2. **Scheduler again** — the run log, AfterTask as an obligation of one run to
   another, first start.
3. **Deletion of an account** — every kind of file from its list, against uploads
   that land meanwhile.
