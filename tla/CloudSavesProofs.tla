-------------------------- MODULE CloudSavesProofs --------------------------
(***************************************************************************)
(* Theorems about CloudSaves, for every set of games, hashes, snapshot     *)
(* ids, handlers and jobs.                                                 *)
(***************************************************************************)
EXTENDS CloudSaves, TLAPS

-----------------------------------------------------------------------------
(* The program counter of a request tells which fields it has.             *)

LEMMA StateByCounter ==
    ASSUME NEW q \in RequestStates
    PROVE  /\ q.pc = "idle" => q = Idle
           /\ q.pc = "read_current" => q \in Resumption
           /\ q.pc = "lookup" => q \in LookupStates
           /\ q.pc = "insert" => q \in InsertStates
           /\ q.pc = "read_manifest" => q \in ReadManifestStates
           /\ q.pc = "verify" => q \in VerifyStates
           /\ q.pc = "register" => q \in RegisterStates
           /\ q.pc = "commit_tx" => q \in CommitTxStates
           /\ q.pc = "gc_select" => q \in GcSelectStates
           /\ q.pc = "gc_file" => q \in GcFileStates
           /\ q.pc = "gc_row" => q \in GcRowStates
           /\ q.pc = "delete_files" => q \in DeleteFilesStates
           /\ q.pc = "delete_row" => q \in DeleteRowStates
           /\ q.pc = "purge_files" => q \in PurgeStates
           /\ q.pc = "read_files" => q \in ReadFilesStates
           /\ q.pc = "served" => q \in ServedStates
           /\ q.pc \in {"retained_files", "retained_rows"} => q \in RetainedStates
           /\ q.pc = "orphan_file" => q \in OrphanFileStates
<1> USE DEF RequestStates, Resumption, LookupStates, InsertStates, ReadManifestStates,
       VerifyStates, RegisterStates, CommitTxStates, GcSelectStates, GcFileStates,
       GcRowStates, DeleteFilesStates, DeleteRowStates, PurgeStates, ReadFilesStates,
       ServedStates, RetainedStates, OrphanFileStates, Idle
<1> QED
  OBVIOUS

-----------------------------------------------------------------------------
(* Type correctness.                                                       *)

LEMMA GotoTypeOK ==
    ASSUME TypeOK, NEW r \in Requests, NEW q \in RequestStates, Goto(r, q)
    PROVE  req' \in [Requests -> RequestStates]
  BY DEF TypeOK, Goto

LEMMA QueriesTypeOK ==
    /\ Existing \in SUBSET SnapIds
    /\ TypeOK => StalePending \in SUBSET SnapIds
    /\ \A g : OfGame(g) \in SUBSET SnapIds
    /\ AllRetained \in SUBSET SnapIds
    /\ TypeOK => Orphans \in SUBSET Hashes
  BY DEF Existing, StalePending, OfGame, AllRetained, Orphans, TypeOK

LEMMA InitTypeOK == Init => TypeOK
<1> SUFFICES ASSUME Init PROVE TypeOK
  OBVIOUS
<1>1. game \in [SnapIds -> Games]
  <2>1. (CHOOSE g \in Games : TRUE) \in Games
    BY GamesAssumption
  <2> QED
    BY <2>1 DEF Init
<1>2. version \in [SnapIds -> 0..MaxVersion] /\ failures \in 0..MaxFailures
  BY BoundsAssumption DEF Init
<1>3. req \in [Requests -> RequestStates]
  BY DEF Init, RequestStates, Resumption
<1> QED
  BY <1>1, <1>2, <1>3, ChoicesAssumption DEF Init, TypeOK, Statuses

LEMMA StepTypeOK == TypeOK /\ [Next]_vars => TypeOK'
<1> SUFFICES ASSUME TypeOK, [Next]_vars PROVE TypeOK'
  OBVIOUS
<1> USE DEF TypeOK, Goto, At, RequestStates, snapshotVars, storeVars
<1>1. ASSUME NEW r \in Requests, \E g \in Games, b \in 0..MaxVersion, F \in SUBSET Hashes : Prepare(r, g, b, F) PROVE TypeOK'
  BY <1>1, StateByCounter, QueriesTypeOK DEF Prepare, SweepStale, Deleting, ReadCurrentOf, DeleteFilesStates, Resumption
<1>2. ASSUME NEW r \in Requests, PrepareReadCurrent(r) PROVE TypeOK'
  <2>1. req[r] \in Resumption /\ req[r] # Idle
    BY <1>2, StateByCounter DEF PrepareReadCurrent, Idle
  <2>2. req[r].game \in Games /\ req[r].base \in 0..MaxVersion /\ req[r].files \in SUBSET Hashes
    BY <2>1 DEF Resumption
  <2> QED
    BY <1>2, <2>2 DEF PrepareReadCurrent, LookupStates, Resumption
<1>3. ASSUME NEW r \in Requests, PrepareLookup(r) PROVE TypeOK'
  BY <1>3, StateByCounter, QueriesTypeOK DEF PrepareLookup, Held, LookupStates, InsertStates
<1>4. ASSUME NEW r \in Requests, PrepareInsert(r) PROVE TypeOK'
  <2>1. req[r] \in InsertStates
    BY <1>4, StateByCounter DEF PrepareInsert
  <2>2. req[r].base < MaxVersion => req[r].base + 1 \in 0..MaxVersion
    BY <2>1, BoundsAssumption DEF InsertStates
  <2> QED
    BY <1>4, <2>1, <2>2 DEF PrepareInsert, ManifestRows, InsertStates, Resumption, Statuses
<1>5. ASSUME NEW r \in Requests, PrepareRefused(r) PROVE TypeOK'
  BY <1>5, StateByCounter, QueriesTypeOK DEF PrepareRefused, Resumption
<1>6. ASSUME NEW r \in Requests, \E s \in SnapIds : CommitReadPending(r, s) PROVE TypeOK'
  BY <1>6, StateByCounter, QueriesTypeOK DEF CommitReadPending, ReadManifestStates
<1>7. ASSUME NEW r \in Requests, CommitReadManifest(r) PROVE TypeOK'
  BY <1>7, StateByCounter, QueriesTypeOK DEF CommitReadManifest, ReadManifestStates, VerifyStates
<1>8. ASSUME NEW r \in Requests, CommitVerify(r) PROVE TypeOK'
  BY <1>8, StateByCounter, QueriesTypeOK DEF CommitVerify, VerifyStates, RegisterStates, Resumption
<1>9. ASSUME NEW r \in Requests, CommitRegister(r) PROVE TypeOK'
  BY <1>9, StateByCounter, QueriesTypeOK DEF CommitRegister, VerifyStates, RegisterStates
<1>10. ASSUME NEW r \in Requests, CommitReadLimits(r) PROVE TypeOK'
  BY <1>10, StateByCounter, QueriesTypeOK DEF CommitReadLimits, VerifyStates, CommitTxStates
<1>11. ASSUME NEW r \in Requests, CommitTx(r) PROVE TypeOK'
  BY <1>11, StateByCounter, QueriesTypeOK DEF CommitTx, Promoted, CommitTxStates, Collecting, GcSelectStates, Resumption, Statuses
<1>12. ASSUME NEW r \in Requests, \E g \in Games : DeleteGame(r, g) PROVE TypeOK'
  BY <1>12, StateByCounter, QueriesTypeOK DEF DeleteGame, Deleting, Collecting, GcSelectStates, DeleteFilesStates, Resumption
<1>13. ASSUME NEW r \in Requests, \E s \in SnapIds : AdminDelete(r, s) PROVE TypeOK'
  BY <1>13, StateByCounter, QueriesTypeOK DEF AdminDelete, Deleting, DeleteFilesStates, Resumption
<1>14. ASSUME NEW r \in Requests, \E s \in SnapIds : DeleteRetained(r, s) PROVE TypeOK'
  BY <1>14, StateByCounter, QueriesTypeOK DEF DeleteRetained, Collecting, GcSelectStates, Resumption, Statuses
<1>15. ASSUME NEW r \in Requests, \E s \in SnapIds : Restore(r, s) PROVE TypeOK'
  <2>1. PICK s \in SnapIds : Restore(r, s)
    BY <1>15
  <2>2. NextVersion(game[s]) \in 0..MaxVersion
    BY <2>1, BoundsAssumption DEF Restore
  <2> QED
    BY <2>1, <2>2 DEF Restore, Statuses
<1>16. ASSUME NEW r \in Requests, Purge(r) PROVE TypeOK'
  BY <1>16, StateByCounter, QueriesTypeOK DEF Purge, PurgeStates
<1>17. ASSUME NEW r \in Requests, PurgeFiles(r) PROVE TypeOK'
  BY <1>17, StateByCounter, QueriesTypeOK DEF PurgeFiles, PurgeStates
<1>18. ASSUME NEW r \in Requests, PurgeRows(r) PROVE TypeOK'
  BY <1>18, StateByCounter, QueriesTypeOK DEF PurgeRows, Collecting, GcSelectStates, Resumption, Statuses
<1>19. ASSUME NEW r \in Requests, \E s \in SnapIds : ManifestFetchCommitted(r, s) PROVE TypeOK'
  BY <1>19, StateByCounter, QueriesTypeOK DEF ManifestFetchCommitted, ReadFilesStates
<1>20. ASSUME NEW r \in Requests, ManifestFetchFiles(r) PROVE TypeOK'
  BY <1>20, StateByCounter, QueriesTypeOK DEF ManifestFetchFiles, ReadFilesStates, ServedStates
<1>21. ASSUME NEW r \in Requests, ManifestServed(r) PROVE TypeOK'
  BY <1>21, StateByCounter, QueriesTypeOK DEF ManifestServed, Resumption
<1>22. ASSUME NEW r \in Requests, DeleteFiles(r) PROVE TypeOK'
  BY <1>22, StateByCounter, QueriesTypeOK DEF DeleteFiles, DeleteFilesStates, DeleteRowStates
<1>23. ASSUME NEW r \in Requests, DeleteRow(r) PROVE TypeOK'
  BY <1>23, StateByCounter, QueriesTypeOK DEF DeleteRow, Deleting, Collecting, DeleteFilesStates, DeleteRowStates, GcSelectStates, Statuses
<1>24. ASSUME NEW r \in Requests, GcSelect(r) PROVE TypeOK'
  BY <1>24, StateByCounter, QueriesTypeOK DEF GcSelect, GcSelectStates, GcFileStates
<1>25. ASSUME NEW r \in Requests, GcFile(r) PROVE TypeOK'
  BY <1>25, StateByCounter, QueriesTypeOK DEF GcFile, GcFileStates, GcRowStates
<1>26. ASSUME NEW r \in Requests, GcRow(r) PROVE TypeOK'
  BY <1>26, StateByCounter, QueriesTypeOK DEF GcRow, GcFileStates, GcRowStates
<1>27. ASSUME NEW r \in Requests, SweepJob(r) PROVE TypeOK'
  BY <1>27, StateByCounter, QueriesTypeOK DEF SweepJob, SweepStale, Deleting, DeleteFilesStates, Resumption
<1>28. ASSUME NEW r \in Requests, GcJob(r) PROVE TypeOK'
  BY <1>28, StateByCounter, QueriesTypeOK DEF GcJob, Collecting, GcSelectStates, Resumption
<1>29. ASSUME NEW r \in Requests, RetainedJob(r) PROVE TypeOK'
  BY <1>29, StateByCounter, QueriesTypeOK DEF RetainedJob, RetainedStates
<1>30. ASSUME NEW r \in Requests, RetainedJobFiles(r) PROVE TypeOK'
  BY <1>30, StateByCounter, QueriesTypeOK DEF RetainedJobFiles, RetainedStates
<1>31. ASSUME NEW r \in Requests, RetainedJobRows(r) PROVE TypeOK'
  BY <1>31, StateByCounter, QueriesTypeOK DEF RetainedJobRows, Collecting, RetainedStates, GcSelectStates, Resumption, Statuses
<1>32. ASSUME NEW r \in Requests, \E h \in Hashes : OrphanFileCheck(r, h) PROVE TypeOK'
  BY <1>32, StateByCounter, QueriesTypeOK DEF OrphanFileCheck, OrphanFileStates
<1>33. ASSUME NEW r \in Requests, OrphanFileDelete(r) PROVE TypeOK'
  BY <1>33, StateByCounter, QueriesTypeOK DEF OrphanFileDelete, OrphanFileStates, Resumption
<1>34. ASSUME NEW r \in Requests, RequestFails(r) PROVE TypeOK'
  <2>1. failures + 1 \in 0..MaxFailures
    BY <1>34, BoundsAssumption DEF RequestFails
  <2> QED
    BY <1>34, <2>1 DEF RequestFails, Resumption
<1>35. CASE \E h \in Hashes : Upload(h)
  BY <1>35 DEF Upload
<1>36. CASE \E s \in SnapIds : Expire(s)
  BY <1>36 DEF Expire
<1>37. CASE SetAutoDelete
  BY <1>37 DEF SetAutoDelete
<1>38. CASE UNCHANGED vars
  BY <1>38 DEF vars
<1> QED
  BY <1>1, <1>2, <1>3, <1>4, <1>5, <1>6, <1>7, <1>8, <1>9, <1>10, <1>11, <1>12, <1>13, <1>14, <1>15, <1>16, <1>17, <1>18, <1>19, <1>20, <1>21, <1>22, <1>23, <1>24, <1>25, <1>26, <1>27, <1>28, <1>29, <1>30, <1>31, <1>32, <1>33, <1>34, <1>35, <1>36, <1>37, <1>38
  DEF Next, Start, StartJob, Continue, Environment, Requests

(* Every table, the disk and every request keep their type.                *)
THEOREM TypeCorrect == Spec => []TypeOK
  BY InitTypeOK, StepTypeOK, PTL DEF Spec

-----------------------------------------------------------------------------
(* Most steps of a request touch neither the status nor the game of any    *)
(* snapshot; these are the ones that do.                                   *)

StatusStep ==
    \/ \E r \in Requests : \/ DeleteRow(r) \/ PrepareInsert(r) \/ CommitTx(r)
                           \/ PurgeRows(r) \/ RetainedJobRows(r)
    \/ \E r \in Requests, s \in SnapIds : DeleteRetained(r, s) \/ Restore(r, s)

LEMMA StatusChanges ==
    ASSUME [Next]_vars
    PROVE  StatusStep \/ UNCHANGED <<status, game>>
<1>1. CASE UNCHANGED vars
  BY <1>1 DEF vars
<1>2. ASSUME NEW r \in Handlers, Start(r)
      PROVE  StatusStep \/ UNCHANGED <<status, game>>
  BY <1>2 DEF Start, StatusStep, Requests, Prepare, CommitReadPending, DeleteGame,
     AdminDelete, Purge, ManifestFetchCommitted, OrphanFileCheck, snapshotVars
<1>3. ASSUME NEW j \in Jobs, StartJob(j)
      PROVE  UNCHANGED <<status, game>>
  BY <1>3 DEF StartJob, SweepJob, GcJob, RetainedJob, snapshotVars
<1>4. ASSUME NEW r \in Requests, Continue(r)
      PROVE  StatusStep \/ UNCHANGED <<status, game>>
  BY <1>4 DEF Continue, StatusStep, DeleteFiles, GcSelect, GcFile, GcRow,
     PrepareReadCurrent, PrepareLookup, PrepareRefused, CommitReadManifest,
     CommitVerify, CommitRegister, CommitReadLimits, PurgeFiles, ManifestFetchFiles,
     ManifestServed, RetainedJobFiles, OrphanFileDelete, snapshotVars
<1>5. ASSUME Environment
      PROVE  UNCHANGED <<status, game>>
  BY <1>5 DEF Environment, Upload, Expire, SetAutoDelete, RequestFails, snapshotVars
<1> QED
  BY <1>1, <1>2, <1>3, <1>4, <1>5 DEF Next

-----------------------------------------------------------------------------
(* The two together are inductive.                                         *)
CurrentInv == TypeOK /\ OneCurrentPerGame

LEMMA InitCurrentInv == Init => CurrentInv
  BY InitTypeOK DEF Init, CurrentInv, OneCurrentPerGame

LEMMA StepCurrentInv == CurrentInv /\ [Next]_vars => CurrentInv'
<1> SUFFICES ASSUME TypeOK, OneCurrentPerGame, [Next]_vars PROVE OneCurrentPerGame'
  BY StepTypeOK DEF CurrentInv
<1>1. CASE UNCHANGED <<status, game>>
  BY <1>1 DEF OneCurrentPerGame
<1>2. CASE StatusStep
  <2> USE DEF OneCurrentPerGame, TypeOK
  <2>1. ASSUME NEW r \in Requests, DeleteRow(r) PROVE OneCurrentPerGame'
    BY <2>1, StateByCounter DEF DeleteRow, DeleteRowStates, At
  <2>2. ASSUME NEW r \in Requests, PrepareInsert(r) PROVE OneCurrentPerGame'
    BY <2>2 DEF PrepareInsert
  <2>3. ASSUME NEW r \in Requests, CommitTx(r) PROVE OneCurrentPerGame'
    BY <2>3 DEF CommitTx, Promoted, Dropped, Demoted, Current, Retained, OfGame, Existing
  <2>4. ASSUME NEW r \in Requests, PurgeRows(r) \/ RetainedJobRows(r) PROVE OneCurrentPerGame'
    BY <2>4 DEF PurgeRows, RetainedJobRows
  <2>5. ASSUME NEW r \in Requests, NEW s \in SnapIds, DeleteRetained(r, s) PROVE OneCurrentPerGame'
    BY <2>5 DEF DeleteRetained
  <2>6. ASSUME NEW r \in Requests, NEW s \in SnapIds, Restore(r, s) PROVE OneCurrentPerGame'
    BY <2>6 DEF Restore, Current, OfGame, Existing
  <2> QED
    BY <1>2, <2>1, <2>2, <2>3, <2>4, <2>5, <2>6 DEF StatusStep
<1> QED
  BY <1>1, <1>2, StatusChanges

(* Whatever requests and jobs interleave, and wherever they die, no game   *)
(* ever has two snapshots in use: commit_snapshot and restore_snapshot     *)
(* demote inside the transaction that promotes.                            *)
THEOREM OneCurrent == Spec => []OneCurrentPerGame
<1>1. CurrentInv => OneCurrentPerGame
  BY DEF CurrentInv
<1> QED
  BY InitCurrentInv, StepCurrentInv, <1>1, PTL DEF Spec


-----------------------------------------------------------------------------
(* StatusOrder: what a delete is about to remove is a row that was there   *)
(* when its id was read, and no row returns to "unused".                   *)

Drawn == {s \in SnapIds : status[s] # "unused"}
InDelete(q) == q.pc \in {"delete_files", "delete_row"}

TargetsDrawn ==
    \A r \in Requests :
        /\ InDelete(req[r]) => req[r].ids \subseteq Drawn
        /\ req[r].pc = "delete_row" => req[r].snap \in Drawn

LEMMA DrawnGrows ==
    ASSUME TypeOK, [Next]_vars
    PROVE  Drawn \subseteq Drawn'
<1>1. CASE UNCHANGED <<status, game>>
  BY <1>1 DEF Drawn
<1>2. CASE StatusStep
  BY <1>2 DEF StatusStep, Drawn, TypeOK, DeleteRow, PrepareInsert, CommitTx, PurgeRows,
     RetainedJobRows, DeleteRetained, Restore
<1> QED
  BY <1>1, <1>2, StatusChanges

(* The steps by which a request gets to a delete.                          *)
LEMMA DeleteEntered ==
    ASSUME TypeOK, [Next]_vars, NEW q \in Requests, InDelete(req'[q])
    PROVE  \/ req'[q] = req[q]
           \/ DeleteFiles(q) \/ DeleteRow(q) \/ SweepJob(q)
           \/ \E g \in Games, b \in 0..MaxVersion, F \in SUBSET Hashes : Prepare(q, g, b, F)
           \/ \E g \in Games : DeleteGame(q, g)
           \/ \E s \in SnapIds : AdminDelete(q, s)
<1> DEFINE Entry == \/ DeleteFiles(q) \/ DeleteRow(q) \/ SweepJob(q)
                    \/ \E g \in Games, b \in 0..MaxVersion, F \in SUBSET Hashes :
                           Prepare(q, g, b, F)
                    \/ \E g \in Games : DeleteGame(q, g)
                    \/ \E s \in SnapIds : AdminDelete(q, s)
<1> SUFFICES ASSUME req'[q] # req[q] PROVE Entry
  OBVIOUS
<1>1. req \in [Requests -> RequestStates]
  BY DEF TypeOK
<1>2. ASSUME NEW then \in Resumption PROVE ~InDelete(then)
  BY <1>2 DEF InDelete, Resumption, Idle
<1>3. ASSUME NEW r \in Requests, r # q, NEW state, Goto(r, state) PROVE FALSE
  BY <1>1, <1>3 DEF Goto
<1> USE DEF Goto, InDelete
<1>4. ASSUME Start(q), q \in Handlers PROVE Entry
  BY <1>1, <1>4 DEF Start, CommitReadPending, DeleteRetained, Restore, Purge,
     ManifestFetchCommitted, OrphanFileCheck, Collecting
<1>5. ASSUME StartJob(q), q \in Jobs PROVE Entry
  BY <1>1, <1>5 DEF StartJob, GcJob, RetainedJob, Collecting
<1>6. ASSUME Continue(q) PROVE Entry
  <2>1. CASE GcSelect(q) \/ GcFile(q) \/ GcRow(q)
    <3>1. req[q].then \in Resumption
      BY <2>1, <1>1, StateByCounter DEF GcSelect, GcFile, GcRow, At, GcSelectStates,
         GcFileStates, GcRowStates
    <3> QED
      BY <2>1, <1>1, <1>2, <3>1 DEF GcSelect, GcFile, GcRow
  <2>2. CASE PrepareReadCurrent(q) \/ PrepareLookup(q) \/ PrepareInsert(q) \/ PrepareRefused(q)
    BY <2>2, <1>1 DEF PrepareReadCurrent, PrepareLookup, PrepareInsert, PrepareRefused, Idle
  <2>3. CASE \/ CommitReadManifest(q) \/ CommitVerify(q) \/ CommitRegister(q)
             \/ CommitReadLimits(q) \/ CommitTx(q)
    BY <2>3, <1>1 DEF CommitReadManifest, CommitVerify, CommitRegister, CommitReadLimits,
       CommitTx, Collecting, Idle
  <2>4. CASE \/ PurgeFiles(q) \/ PurgeRows(q) \/ ManifestFetchFiles(q) \/ ManifestServed(q)
             \/ OrphanFileDelete(q)
    BY <2>4, <1>1 DEF PurgeFiles, PurgeRows, ManifestFetchFiles, ManifestServed,
       OrphanFileDelete, Collecting, Idle
  <2>5. CASE RetainedJobFiles(q)
    BY <2>5, <1>1 DEF RetainedJobFiles
  <2>6. CASE RetainedJobRows(q)
    <3>1. req[q].then \in {Idle, Collecting(Idle)}
      BY <2>6, <1>1, StateByCounter DEF RetainedJobRows, At, RetainedStates
    <3> QED
      BY <2>6, <1>1, <3>1 DEF RetainedJobRows, Collecting, Idle
  <2> QED
    BY <1>6, <2>1, <2>2, <2>3, <2>4, <2>5, <2>6 DEF Continue
<1>7. ASSUME NEW r \in Requests, RequestFails(r) PROVE Entry
  BY <1>1, <1>7 DEF RequestFails, Idle
<1>8. CASE UNCHANGED req
  BY <1>8
<1> HIDE DEF Goto, InDelete, Entry
<1>9. ASSUME NEW r \in Requests, r # q, Start(r) PROVE FALSE
  BY <1>3, <1>9 DEF Start, Prepare, SweepStale, CommitReadPending, DeleteGame, AdminDelete,
     DeleteRetained, Restore, Purge, ManifestFetchCommitted, OrphanFileCheck
<1>10. ASSUME NEW r \in Requests, r # q, StartJob(r) PROVE FALSE
  BY <1>3, <1>10 DEF StartJob, SweepJob, SweepStale, GcJob, RetainedJob
<1>11. ASSUME NEW r \in Requests, r # q, Continue(r) PROVE FALSE
  BY <1>3, <1>11 DEF Continue, DeleteFiles, DeleteRow, GcSelect, GcFile, GcRow,
     PrepareReadCurrent, PrepareLookup, PrepareInsert, PrepareRefused, CommitReadManifest,
     CommitVerify, CommitRegister, CommitReadLimits, CommitTx, PurgeFiles, PurgeRows,
     ManifestFetchFiles, ManifestServed, RetainedJobFiles, RetainedJobRows, OrphanFileDelete
<1>12. Next \/ UNCHANGED req
  BY DEF vars
<1>13. ASSUME Environment PROVE UNCHANGED req \/ \E r \in Requests : RequestFails(r)
  BY <1>13 DEF Environment, Upload, Expire, SetAutoDelete
<1> QED
  BY <1>4, <1>5, <1>6, <1>7, <1>8, <1>9, <1>10, <1>11, <1>12, <1>13 DEF Next, Requests

LEMMA InitTargetsDrawn == Init => TargetsDrawn
  BY DEF Init, TargetsDrawn, InDelete, Idle

LEMMA StepTargetsDrawn == TypeOK /\ TargetsDrawn /\ [Next]_vars => TargetsDrawn'
<1> SUFFICES ASSUME TypeOK, TargetsDrawn, [Next]_vars, NEW q \in Requests, InDelete(req'[q])
             PROVE  /\ req'[q].ids \subseteq Drawn'
                    /\ req'[q].pc = "delete_row" => req'[q].snap \in Drawn'
  BY DEF TargetsDrawn, InDelete
<1>1. Drawn \subseteq Drawn'
  BY DrawnGrows
<1>2. CASE req'[q] = req[q]
  BY <1>1, <1>2 DEF TargetsDrawn, InDelete
<1>3. ASSUME NEW then, NEW sweep, NEW ids, ids \subseteq Drawn, req'[q] = Deleting(ids, sweep, then)
      PROVE  /\ req'[q].ids \subseteq Drawn'
             /\ req'[q].pc = "delete_row" => req'[q].snap \in Drawn'
  BY <1>1, <1>3 DEF Deleting
<1>4. CASE DeleteFiles(q)
  <2>1. req[q].ids \subseteq Drawn
    BY <1>4 DEF DeleteFiles, At, TargetsDrawn, InDelete
  <2> QED
    BY <1>1, <1>4, <2>1 DEF DeleteFiles, Goto, TypeOK
<1>5. CASE DeleteRow(q)
  <2>1. req[q].ids \ {req[q].snap} \subseteq Drawn
    BY <1>5 DEF DeleteRow, At, TargetsDrawn, InDelete
  <2>2. req'[q] = Deleting(req[q].ids \ {req[q].snap}, req[q].sweep, req[q].then)
    BY <1>5 DEF DeleteRow, Goto, TypeOK, Collecting, InDelete
  <2> QED
    BY <1>3, <2>1, <2>2
<1>6. StalePending \subseteq Drawn /\ Existing \subseteq Drawn
  BY DEF StalePending, Existing, Drawn, TypeOK
<1>7. CASE \/ SweepJob(q)
           \/ \E g \in Games, b \in 0..MaxVersion, F \in SUBSET Hashes : Prepare(q, g, b, F)
  <2>1. ASSUME NEW then, ~InDelete(then), SweepStale(q, then)
        PROVE  req'[q] = Deleting(StalePending, TRUE, then)
    BY <2>1 DEF SweepStale, Goto, TypeOK
  <2>2. SweepStale(q, Idle)
        \/ \E g \in Games, b \in 0..MaxVersion, F \in SUBSET Hashes : SweepStale(q, ReadCurrentOf(g, b, F))
    BY <1>7 DEF SweepJob, Prepare
  <2>3. PICK then : req'[q] = Deleting(StalePending, TRUE, then)
    BY <2>1, <2>2 DEF InDelete, Idle, ReadCurrentOf
  <2> QED
    BY <1>3, <1>6, <2>3
<1>8. CASE \E g \in Games : DeleteGame(q, g)
  <2>1. PICK g \in Games : DeleteGame(q, g)
    BY <1>8
  <2>2. req'[q] = Deleting(OfGame(g), FALSE, Idle)
    BY <2>1 DEF DeleteGame, Goto, TypeOK, InDelete, Collecting
  <2> QED
    BY <1>3, <1>6, <2>2 DEF OfGame
<1>9. CASE \E s \in SnapIds : AdminDelete(q, s)
  <2>1. PICK s \in SnapIds : AdminDelete(q, s)
    BY <1>9
  <2>2. s \in Existing /\ req'[q] = Deleting({s}, FALSE, Idle)
    BY <2>1 DEF AdminDelete, Goto, TypeOK
  <2> QED
    BY <1>3, <1>6, <2>2
<1> QED
  BY <1>2, <1>4, <1>5, <1>7, <1>8, <1>9, DeleteEntered

(* A snapshot only moves along the life of one, however deletes, commits   *)
(* and restores interleave, and wherever they die.                         *)
THEOREM StatusOrdered == Spec => StatusOrder
<1> DEFINE Inv == TypeOK /\ TargetsDrawn
<1>1. Init => Inv
  BY InitTypeOK, InitTargetsDrawn
<1>2. Inv /\ [Next]_vars => Inv'
  BY StepTypeOK, StepTargetsDrawn
<1> DEFINE Order ==
      \A s \in SnapIds :
        status'[s] # status[s] =>
            <<status[s], status'[s]>> \in
                {<<"unused", "pending">>, <<"pending", "committed">>,
                 <<"committed", "superseded">>, <<"superseded", "committed">>}
                \cup ({"pending", "committed", "superseded"} \X {"deleted"})
<1>3. Inv /\ [Next]_vars => [Order]_vars
  <2> SUFFICES ASSUME TypeOK, TargetsDrawn, Next, NEW s \in SnapIds, status'[s] # status[s]
               PROVE  \/ status[s] = "unused" /\ status'[s] = "pending"
                      \/ status[s] = "pending" /\ status'[s] = "committed"
                      \/ status[s] = "committed" /\ status'[s] = "superseded"
                      \/ status[s] = "superseded" /\ status'[s] = "committed"
                      \/ /\ status[s] \in {"pending", "committed", "superseded"}
                         /\ status'[s] = "deleted"
    OBVIOUS
  <2>1. StatusStep
    BY StatusChanges
  <2>2. status[s] \in Statuses
    BY DEF TypeOK
  <2>3. ASSUME NEW r \in Requests, DeleteRow(r) PROVE status[s] \in Statuses \ {"unused", "deleted"} /\ status'[s] = "deleted"
    BY <2>2, <2>3 DEF DeleteRow, At, TypeOK, TargetsDrawn, InDelete, Drawn
  <2> QED
    BY <2>1, <2>2, <2>3 DEF StatusStep, Statuses, TypeOK, PrepareInsert, CommitTx, PurgeRows,
       RetainedJobRows, DeleteRetained, Restore, Promoted, Dropped, Demoted, Current,
       Retained, AllRetained, OfGame, Existing
<1> HIDE DEF Order
<1>4. Spec => [][Order]_vars
  BY <1>1, <1>2, <1>3, PTL DEF Spec
<1> QED
  BY <1>4 DEF Order, StatusOrder

-----------------------------------------------------------------------------
(* Restorable.  What each request has seen and still relies on: a          *)
(* collection, that nothing names the blobs it holds; a commit, that what  *)
(* it has ticked off is registered and on disk.  A request alone keeps     *)
(* both its own part of this and Restorable; whether the other requests    *)
(* keep theirs depends on what they may do.                                *)

Stored(s) == manifest[s] \subseteq (blobRows \cap disk)

Careful(q) ==
    /\ q.pc \in {"gc_file", "gc_row"} => \A s \in Existing : manifest[s] \cap q.orphans = {}
    /\ q.pc = "gc_row" => q.hash \in q.orphans
    /\ q.pc \in {"verify", "register"} => manifest[q.snap] \ q.rows \subseteq (blobRows \cap disk)
    /\ q.pc = "register" => q.hash \in disk
    /\ q.pc = "commit_tx" => Stored(q.snap)
    /\ q.pc = "orphan_file" => q.hash \notin blobRows

Watchful == {"gc_file", "gc_row", "verify", "register", "commit_tx", "orphan_file"}

KeptInv == TypeOK /\ Restorable /\ \A r \in Requests : Careful(req[r])

Own(r) == Start(r) \/ StartJob(r) \/ Continue(r) \/ RequestFails(r)

LEMMA WhoSteps ==
    ASSUME [Next]_vars
    PROVE  \/ \E r \in Requests : Own(r)
           \/ \E h \in Hashes : Upload(h)
           \/ \E s \in SnapIds : Expire(s)
           \/ SetAutoDelete
           \/ UNCHANGED vars
  BY DEF Next, Environment, Own, Requests

(* Nothing is to be kept of a snapshot that leaves, and a manifest that    *)
(* shrinks asks for less.                                                  *)
LEMMA LessToKeep ==
    ASSUME Restorable, Kept' \subseteq Kept, UNCHANGED <<blobRows, disk>>,
           \A s \in Kept : manifest'[s] \subseteq manifest[s]
    PROVE  Restorable'
  BY DEF Restorable

LEMMA NotWatchful ==
    ASSUME NEW r \in Requests, req'[r].pc \notin Watchful
    PROVE  Careful(req[r])'
  BY DEF Watchful, Careful

LEMMA CarefulStart ==
    ASSUME TypeOK, Restorable, NEW r \in Requests, Careful(req[r]), Start(r) \/ StartJob(r)
    PROVE  Restorable' /\ Careful(req[r])'
<1> USE DEF TypeOK, Goto, Begins, snapshotVars, storeVars
<1>1. ASSUME NEW g \in Games, NEW b \in 0..MaxVersion, NEW F \in SUBSET Hashes,
             Prepare(r, g, b, F)
      PROVE  Restorable' /\ Careful(req[r])'
  <2>1. req'[r].pc \notin Watchful
    BY <1>1 DEF Prepare, SweepStale, Deleting, ReadCurrentOf, Watchful
  <2> QED
    BY <1>1, <2>1, NotWatchful DEF Prepare, Restorable, Kept
<1>2. ASSUME NEW s \in SnapIds,
             \/ CommitReadPending(r, s) \/ AdminDelete(r, s) \/ ManifestFetchCommitted(r, s)
      PROVE  Restorable' /\ Careful(req[r])'
  <2>1. req'[r].pc \notin Watchful
    BY <1>2 DEF CommitReadPending, AdminDelete, ManifestFetchCommitted, Deleting, Watchful
  <2> QED
    BY <1>2, <2>1, NotWatchful
    DEF CommitReadPending, AdminDelete, ManifestFetchCommitted, Restorable, Kept
<1>3. ASSUME NEW s \in SnapIds, DeleteRetained(r, s)
      PROVE  Restorable' /\ Careful(req[r])'
  <2>1. req'[r].pc \notin Watchful
    BY <1>3 DEF DeleteRetained, Collecting, Watchful
  <2>2. Restorable'
    BY <1>3, LessToKeep DEF DeleteRetained, Kept
  <2> QED
    BY <2>1, <2>2, NotWatchful
<1>4. ASSUME NEW s \in SnapIds, Restore(r, s)
      PROVE  Restorable' /\ Careful(req[r])'
  <2>1. req'[r].pc \notin Watchful
    BY <1>4 DEF Restore, Idle, Watchful
  <2>2. Restorable'
    BY <1>4, LessToKeep DEF Restore, Kept, Current, OfGame, Existing
  <2> QED
    BY <2>1, <2>2, NotWatchful
<1>5. ASSUME NEW g \in Games, DeleteGame(r, g)
      PROVE  Restorable' /\ Careful(req[r])'
  <2>1. req'[r].pc \notin Watchful
    BY <1>5 DEF DeleteGame, Deleting, Collecting, Watchful
  <2> QED
    BY <1>5, <2>1, NotWatchful DEF DeleteGame, Restorable, Kept
<1>6. ASSUME Purge(r) \/ SweepJob(r) \/ GcJob(r) \/ RetainedJob(r)
      PROVE  Restorable' /\ Careful(req[r])'
  <2>1. req'[r].pc \notin Watchful
    BY <1>6 DEF Purge, SweepJob, SweepStale, GcJob, RetainedJob, Deleting, Collecting, Idle,
       Watchful
  <2> QED
    BY <1>6, <2>1, NotWatchful DEF Purge, SweepJob, GcJob, RetainedJob, Restorable, Kept
<1>7. ASSUME NEW h \in Hashes, OrphanFileCheck(r, h)
      PROVE  Restorable' /\ Careful(req[r])'
  <2>1. req'[r] = [pc |-> "orphan_file", hash |-> h] /\ h \notin blobRows'
    BY <1>7 DEF OrphanFileCheck
  <2> QED
    BY <1>7, <2>1 DEF OrphanFileCheck, Careful, Restorable, Kept
<1> QED
  BY <1>1, <1>2, <1>3, <1>4, <1>5, <1>6, <1>7 DEF Start, StartJob

LEMMA CarefulDeletes ==
    ASSUME TypeOK, Restorable, NEW r \in Requests,
           \/ DeleteFiles(r) \/ DeleteRow(r) \/ PurgeFiles(r) \/ PurgeRows(r)
           \/ RetainedJobFiles(r) \/ RetainedJobRows(r)
    PROVE  Restorable' /\ Careful(req[r])'
<1> USE DEF TypeOK, Goto, At, snapshotVars, storeVars
<1>1. req'[r].pc \notin Watchful
  <2>1. CASE DeleteFiles(r) \/ PurgeFiles(r) \/ PurgeRows(r) \/ RetainedJobFiles(r)
    BY <2>1 DEF DeleteFiles, PurgeFiles, PurgeRows, RetainedJobFiles, Collecting, Watchful
  <2>2. CASE DeleteRow(r)
    BY <2>2 DEF DeleteRow, Deleting, Collecting, Watchful
  <2>3. CASE RetainedJobRows(r)
    <3>1. req[r].then \in {Idle, Collecting(Idle)}
      BY <2>3, StateByCounter DEF RetainedJobRows, RetainedStates
    <3> QED
      BY <2>3, <3>1 DEF RetainedJobRows, Collecting, Idle, Watchful
  <2> QED
    BY <2>1, <2>2, <2>3
<1>2. Restorable'
  BY LessToKeep DEF DeleteFiles, DeleteRow, PurgeFiles, PurgeRows, RetainedJobFiles,
     RetainedJobRows, Kept
<1> QED
  BY <1>1, <1>2, NotWatchful

LEMMA CarefulCollection ==
    ASSUME TypeOK, Restorable, NEW r \in Requests, Careful(req[r]),
           GcSelect(r) \/ GcFile(r) \/ GcRow(r) \/ OrphanFileDelete(r)
    PROVE  Restorable' /\ Careful(req[r])'
<1> USE DEF TypeOK, Goto, At, snapshotVars, storeVars
<1>1. ASSUME NEW then \in Resumption PROVE then.pc \notin Watchful
  BY DEF Resumption, Idle, Watchful
<1>2. ASSUME NEW then \in Resumption, req'[r] = then PROVE Careful(req[r])'
  BY <1>1, <1>2, NotWatchful
<1>3. Kept \subseteq Existing
  BY DEF Kept, Existing
<1>4. CASE GcSelect(r)
  <2>1. Restorable'
    BY <1>4 DEF GcSelect, Restorable, Kept
  <2>2. req[r].then \in Resumption
    BY <1>4, StateByCounter DEF GcSelect, GcSelectStates
  <2>3. CASE Orphans = {}
    BY <1>2, <1>4, <2>1, <2>2, <2>3 DEF GcSelect
  <2>4. CASE Orphans # {}
    <3>1. req'[r] = [pc |-> "gc_file", orphans |-> Orphans, then |-> req[r].then]
      BY <1>4, <2>4 DEF GcSelect
    <3>2. \A s \in Existing : manifest[s] \cap Orphans = {}
      BY DEF Orphans, Referenced
    <3>3. Existing' = Existing /\ manifest' = manifest
      BY <1>4 DEF GcSelect, Existing
    <3> HIDE DEF Orphans
    <3> QED
      BY <2>1, <3>1, <3>2, <3>3 DEF Careful
  <2> QED
    BY <2>3, <2>4
<1>5. CASE GcFile(r)
  <2>1. PICK h \in req[r].orphans :
            /\ disk' = disk \ {h}
            /\ req'[r] = [pc |-> "gc_row", orphans |-> req[r].orphans, hash |-> h,
                          then |-> req[r].then]
    BY <1>5 DEF GcFile
  <2>2. \A s \in Existing : manifest[s] \cap req[r].orphans = {}
    BY <1>5 DEF GcFile, Careful
  <2>3. UNCHANGED <<status, manifest, blobRows>>
    BY <1>5 DEF GcFile
  <2> QED
    BY <1>3, <2>1, <2>2, <2>3 DEF Restorable, Kept, Existing, Careful
<1>6. CASE GcRow(r)
  <2>1. /\ \A s \in Existing : manifest[s] \cap req[r].orphans = {}
        /\ req[r].hash \in req[r].orphans
    BY <1>6 DEF GcRow, Careful
  <2>2. UNCHANGED <<status, manifest, disk>> /\ blobRows' = blobRows \ {req[r].hash}
    BY <1>6 DEF GcRow
  <2>3. Restorable'
    BY <1>3, <2>1, <2>2 DEF Restorable, Kept
  <2>4. req[r].then \in Resumption
    BY <1>6, StateByCounter DEF GcRow, GcRowStates
  <2>5. CASE req'[r] = req[r].then
    BY <1>2, <2>3, <2>4, <2>5
  <2>6. CASE req'[r] = [pc |-> "gc_file", orphans |-> req[r].orphans \ {req[r].hash},
                        then |-> req[r].then]
    BY <2>1, <2>2, <2>3, <2>6 DEF Careful, Existing
  <2> QED
    BY <1>6, <2>5, <2>6 DEF GcRow
<1>7. CASE OrphanFileDelete(r)
  <2>1. req[r].hash \notin blobRows
    BY <1>7 DEF OrphanFileDelete, Careful
  <2>2. req'[r].pc \notin Watchful
    BY <1>7 DEF OrphanFileDelete, Idle, Watchful
  <2>3. Restorable'
    BY <1>7, <2>1 DEF OrphanFileDelete, Restorable, Kept
  <2> QED
    BY <2>2, <2>3, NotWatchful
<1> QED
  BY <1>4, <1>5, <1>6, <1>7

LEMMA CarefulCommit ==
    ASSUME TypeOK, Restorable, NEW r \in Requests, Careful(req[r]),
           \/ CommitReadManifest(r) \/ CommitVerify(r) \/ CommitRegister(r)
           \/ CommitReadLimits(r) \/ CommitTx(r)
    PROVE  Restorable' /\ Careful(req[r])'
<1> USE DEF TypeOK, Goto, At, snapshotVars, storeVars
<1>1. CASE CommitReadManifest(r)
  <2>1. /\ req'[r] = [pc |-> "verify", snap |-> req[r].snap, rows |-> manifest[req[r].snap]]
        /\ UNCHANGED <<status, manifest, blobRows, disk>>
    BY <1>1 DEF CommitReadManifest
  <2> QED
    BY <2>1 DEF Careful, Restorable, Kept
<1>2. CASE CommitVerify(r)
  <2>1. PICK h \in req[r].rows :
            \/ req'[r] = Idle
            \/ /\ h \in disk
               /\ req'[r] = [pc |-> "register", snap |-> req[r].snap, rows |-> req[r].rows,
                             hash |-> h]
    BY <1>2 DEF CommitVerify, Landed
  <2>2. manifest[req[r].snap] \ req[r].rows \subseteq (blobRows \cap disk)
    BY <1>2 DEF CommitVerify, Careful
  <2>3. UNCHANGED <<status, manifest, blobRows, disk>>
    BY <1>2 DEF CommitVerify
  <2> QED
    BY <2>1, <2>2, <2>3 DEF Careful, Restorable, Kept, Idle
<1>3. CASE CommitRegister(r)
  <2>1. /\ manifest[req[r].snap] \ req[r].rows \subseteq (blobRows \cap disk)
        /\ req[r].hash \in disk
    BY <1>3 DEF CommitRegister, Careful
  <2>2. /\ req'[r] = [pc |-> "verify", snap |-> req[r].snap,
                      rows |-> req[r].rows \ {req[r].hash}]
        /\ blobRows' = blobRows \cup {req[r].hash}
        /\ UNCHANGED <<status, manifest, disk>>
    BY <1>3 DEF CommitRegister
  <2>3. Restorable'
    BY <2>2 DEF Restorable, Kept
  <2>4. manifest[req[r].snap] \ (req[r].rows \ {req[r].hash}) \subseteq (blobRows' \cap disk)
    BY <2>1, <2>2
  <2> QED
    BY <2>2, <2>3, <2>4 DEF Careful
<1>4. CASE CommitReadLimits(r)
  <2>1. Stored(req[r].snap)
    BY <1>4 DEF CommitReadLimits, Careful, Stored
  <2>2. /\ req'[r] = [pc |-> "commit_tx", snap |-> req[r].snap, auto |-> autoDelete]
        /\ UNCHANGED <<status, manifest, blobRows, disk>>
    BY <1>4 DEF CommitReadLimits
  <2> QED
    BY <2>1, <2>2 DEF Careful, Restorable, Kept, Stored
<1>5. CASE CommitTx(r)
  <2>1. Stored(req[r].snap)
    BY <1>5 DEF CommitTx, Careful
  <2>2. req'[r].pc \notin Watchful
    BY <1>5 DEF CommitTx, Collecting, Watchful
  <2>3. \A s \in SnapIds : manifest'[s] \subseteq manifest[s]
    BY <1>5 DEF CommitTx
  <2>4. \A s \in Kept' : s \in Kept \/ s = req[r].snap
    BY <1>5 DEF CommitTx, Kept, Promoted, Demoted, Current, OfGame, Existing
  <2>5. UNCHANGED <<blobRows, disk>>
    BY <1>5 DEF CommitTx
  <2>6. Restorable'
    BY <2>1, <2>3, <2>4, <2>5 DEF Restorable, Stored, Kept
  <2> QED
    BY <2>2, <2>6, NotWatchful
<1> QED
  BY <1>1, <1>2, <1>3, <1>4, <1>5

(* Whatever one request does, it keeps Restorable and its own care.        *)
LEMMA OwnStep ==
    ASSUME TypeOK, Restorable, NEW r \in Requests, Careful(req[r]), Own(r)
    PROVE  Restorable' /\ Careful(req[r])'
<1> USE DEF TypeOK, Goto, At, snapshotVars, storeVars
<1>1. ASSUME \/ PrepareReadCurrent(r) \/ PrepareLookup(r) \/ PrepareRefused(r)
             \/ ManifestFetchFiles(r) \/ ManifestServed(r) \/ RequestFails(r)
      PROVE  Restorable' /\ Careful(req[r])'
  <2>1. req'[r].pc \notin Watchful
    BY <1>1 DEF PrepareReadCurrent, PrepareLookup, PrepareRefused, ManifestFetchFiles,
       ManifestServed, RequestFails, Idle, Watchful
  <2> QED
    BY <1>1, <2>1, NotWatchful DEF PrepareReadCurrent, PrepareLookup, PrepareRefused,
       ManifestFetchFiles, ManifestServed, RequestFails, Restorable, Kept
<1>2. ASSUME PrepareInsert(r)
      PROVE  Restorable' /\ Careful(req[r])'
  <2>1. req'[r].pc \notin Watchful
    BY <1>2 DEF PrepareInsert, Idle, Watchful
  <2>2. Restorable'
    BY <1>2, LessToKeep DEF PrepareInsert, Kept
  <2> QED
    BY <2>1, <2>2, NotWatchful
<1> QED
  BY <1>1, <1>2, CarefulStart, CarefulDeletes, CarefulCollection, CarefulCommit
  DEF Own, Continue

(* What goes on outside the requests takes nothing away.                   *)
LEMMA WorldKeeps ==
    ASSUME KeptInv,
           \/ \E h \in Hashes : Upload(h)
           \/ \E s \in SnapIds : Expire(s)
           \/ SetAutoDelete
           \/ UNCHANGED vars
    PROVE  Restorable' /\ \A r \in Requests : Careful(req[r])'
<1>1. UNCHANGED <<status, manifest, blobRows, req>> /\ disk \subseteq disk'
  BY DEF Upload, Expire, SetAutoDelete, vars, snapshotVars, storeVars
<1> QED
  BY <1>1 DEF KeptInv, Restorable, Kept, Careful, Existing, Stored

LEMMA InitKeptInv == Init => KeptInv
  BY InitTypeOK DEF Init, KeptInv, Restorable, Kept, Careful, Idle

-----------------------------------------------------------------------------
(* One request or job at a time, as the server runs while nobody's calls   *)
(* overlap.  Any of them, including any job, may die anywhere.             *)

Alone == \A r, t \in Requests : r = t

LEMMA AloneStepKeptInv ==
    ASSUME Alone, KeptInv, [Next]_vars
    PROVE  KeptInv'
<1>1. TypeOK'
  BY StepTypeOK DEF KeptInv
<1>2. ASSUME NEW r \in Requests, Own(r)
      PROVE  Restorable' /\ \A t \in Requests : Careful(req[t])'
  <2>1. Restorable' /\ Careful(req[r])'
    BY <1>2, OwnStep DEF KeptInv
  <2>2. Requests = {r}
    BY DEF Alone
  <2> QED
    BY <2>1, <2>2
<1>3. Restorable' /\ \A t \in Requests : Careful(req[t])'
  BY <1>2, WorldKeeps, WhoSteps
<1> QED
  BY <1>1, <1>3 DEF KeptInv

(* One at a time, every operation and every job keeps each current and     *)
(* retained save restorable, wherever requests die: commit registers only  *)
(* what is on disk, a collection takes only what nothing names.            *)
THEOREM RestorableAlone ==
    ASSUME Alone
    PROVE  Spec => []Restorable
<1>1. KeptInv /\ [Next]_vars => KeptInv'
  BY AloneStepKeptInv
<1>2. KeptInv => Restorable
  BY DEF KeptInv
<1> QED
  BY InitKeptInv, <1>1, <1>2, PTL DEF Spec

-----------------------------------------------------------------------------
(* What a save loses, it loses to a delete that will finish the job: a     *)
(* delete of it, a purge, or the retained-versions job, which has stripped *)
(* every superseded snapshot by the time it deletes their rows.            *)

Whole(s) ==
    \/ manifest[s] = announced[s]
    \/ TargetOfDelete(s)
    \/ status[s] = "superseded" /\ \E r \in Requests : At(r, "retained_rows")

WholeInv ==
    /\ TypeOK
    /\ \A r \in Requests : At(r, "delete_row") => req[r].snap \in req[r].ids
    /\ failures = 0 => \A s \in Existing : Whole(s)

LEMMA InitWholeInv == Init => WholeInv
  BY InitTypeOK DEF Init, WholeInv, At, Idle, Existing

(* Alone, the state of the one request tells what Whole says.              *)
LEMMA AloneWhole ==
    ASSUME Alone, NEW r \in Requests
    PROVE  \A s \in SnapIds :
             Whole(s) <=>
               \/ manifest[s] = announced[s]
               \/ req[r].pc \in {"delete_files", "delete_row"} /\ s \in req[r].ids
               \/ req[r].pc = "purge_files"
               \/ req[r].pc = "retained_rows" /\ status[s] = "superseded"
<1>1. Requests = {r}
  BY DEF Alone
<1> QED
  BY <1>1 DEF Whole, TargetOfDelete, At

LEMMA AloneStepWhole ==
    ASSUME Alone, WholeInv, NEW r \in Requests, Own(r), failures' = 0,
           NEW s \in Existing'
    PROVE  \/ manifest'[s] = announced'[s]
           \/ req'[r].pc \in {"delete_files", "delete_row"} /\ s \in req'[r].ids
           \/ req'[r].pc = "purge_files"
           \/ req'[r].pc = "retained_rows" /\ status'[s] = "superseded"
<1> DEFINE Goal == \/ manifest'[s] = announced'[s]
                   \/ req'[r].pc \in {"delete_files", "delete_row"} /\ s \in req'[r].ids
                   \/ req'[r].pc = "purge_files"
                   \/ req'[r].pc = "retained_rows" /\ status'[s] = "superseded"
<1> SUFFICES Goal
  OBVIOUS
<1>1. TypeOK /\ s \in SnapIds
  BY DEF WholeInv, Existing
<1>2. RequestFails(r) => FALSE
  BY <1>1 DEF RequestFails, TypeOK
<1>3. failures = 0
  BY <1>2 DEF Own, Start, StartJob, Continue, Prepare, CommitReadPending, DeleteGame,
     AdminDelete, DeleteRetained, Restore, Purge, ManifestFetchCommitted, OrphanFileCheck,
     SweepJob, GcJob, RetainedJob, DeleteFiles, DeleteRow, GcSelect, GcFile, GcRow,
     PrepareReadCurrent, PrepareLookup, PrepareInsert, PrepareRefused, CommitReadManifest,
     CommitVerify, CommitRegister, CommitReadLimits, CommitTx, PurgeFiles, PurgeRows,
     ManifestFetchFiles, ManifestServed, RetainedJobFiles, RetainedJobRows, OrphanFileDelete
<1>4. s \in Existing =>
        \/ manifest[s] = announced[s]
        \/ req[r].pc \in {"delete_files", "delete_row"} /\ s \in req[r].ids
        \/ req[r].pc = "purge_files"
        \/ req[r].pc = "retained_rows" /\ status[s] = "superseded"
  BY <1>1, <1>3, AloneWhole DEF WholeInv
<1>5. At(r, "delete_row") => req[r].snap \in req[r].ids
  BY DEF WholeInv
<1>6. s \in SnapIds /\ status'[s] \in {"pending", "committed", "superseded"}
  BY DEF Existing
<1> HIDE DEF Goal
<1>7. ASSUME s \in Existing, UNCHANGED <<manifest, announced, status>>,
             req[r].pc \notin {"delete_files", "delete_row", "purge_files", "retained_rows"}
      PROVE  Goal
  BY <1>4, <1>7 DEF Goal
<1>11. Start(r) => req[r] = Idle
  BY DEF Start, Prepare, CommitReadPending, DeleteGame, AdminDelete, DeleteRetained,
     Restore, Purge, ManifestFetchCommitted, OrphanFileCheck, Begins
<1> USE DEF Goto, At, Begins, snapshotVars, storeVars
<1>8. CASE Start(r)
  <2>1. req[r].pc = "idle"
    BY <1>8, <1>11 DEF Idle
  <2>2. UNCHANGED <<manifest, announced, status>> => s \in Existing
    BY DEF Existing
  <2>3. ASSUME NEW x \in SnapIds, DeleteRetained(r, x) PROVE Goal
    BY <1>1, <1>4, <1>6, <2>1, <2>3 DEF DeleteRetained, Existing, TypeOK, Goal
  <2>4. ASSUME NEW x \in SnapIds, Restore(r, x) PROVE Goal
    BY <1>1, <1>4, <1>6, <2>1, <2>4
    DEF Restore, Current, OfGame, Existing, TypeOK, Goal
  <2>5. \/ UNCHANGED <<manifest, announced, status>>
        \/ \E x \in SnapIds : DeleteRetained(r, x) \/ Restore(r, x)
    BY <1>8 DEF Start, Prepare, CommitReadPending, DeleteGame, AdminDelete,
       Purge, ManifestFetchCommitted, OrphanFileCheck
  <2> QED
    BY <1>7, <2>1, <2>2, <2>3, <2>4, <2>5
<1>9. CASE StartJob(r)
  <2>1. req[r].pc = "idle" /\ UNCHANGED <<manifest, announced, status>>
    BY <1>9 DEF StartJob, SweepJob, GcJob, RetainedJob, Idle
  <2> QED
    BY <1>7, <2>1 DEF Existing
<1>10. CASE Continue(r)
  <2>1. CASE DeleteFiles(r)
    <3>1. PICK x \in req[r].ids :
            /\ manifest' = [manifest EXCEPT ![x] = {}]
            /\ req'[r] = [pc |-> "delete_row", ids |-> req[r].ids, snap |-> x,
                          sweep |-> req[r].sweep, then |-> req[r].then]
            /\ UNCHANGED <<status, announced>>
      BY <1>1, <2>1 DEF DeleteFiles, TypeOK
    <3>2. s \in Existing /\ req[r].pc = "delete_files"
      BY <2>1, <3>1 DEF DeleteFiles, Existing
    <3>3. CASE s \in req[r].ids
      BY <3>1, <3>3 DEF Goal
    <3>4. CASE s \notin req[r].ids
      BY <1>1, <1>4, <3>1, <3>2, <3>4 DEF Goal, TypeOK
    <3> QED
      BY <3>3, <3>4
  <2>2. CASE DeleteRow(r)
    <3>1. s # req[r].snap /\ s \in Existing /\ req[r].pc = "delete_row"
      BY <1>1, <1>6, <2>2 DEF DeleteRow, Existing, TypeOK
    <3>2. manifest'[s] = manifest[s] /\ announced' = announced
      BY <1>1, <2>2, <3>1 DEF DeleteRow, TypeOK
    <3>3. CASE s \in req[r].ids
      <4>1. req'[r] = Deleting(req[r].ids \ {req[r].snap}, req[r].sweep, req[r].then)
        BY <1>1, <2>2, <3>1, <3>3 DEF DeleteRow, TypeOK
      <4> QED
        BY <3>1, <3>3, <4>1 DEF Goal, Deleting
    <3>4. CASE s \notin req[r].ids
      BY <1>4, <3>1, <3>2, <3>4 DEF Goal
    <3> QED
      BY <3>3, <3>4
  <2>3. CASE PrepareInsert(r)
    BY <1>1, <1>4, <1>6, <2>3 DEF PrepareInsert, ManifestRows, Existing, TypeOK, Goal
  <2>4. CASE CommitTx(r)
    <3>1. s \in Existing /\ manifest'[s] = manifest[s] /\ announced' = announced
      BY <1>1, <1>6, <2>4 DEF CommitTx, Promoted, Demoted, Dropped, Current, Retained, OfGame,
         Existing
    <3> QED
      BY <1>4, <2>4, <3>1 DEF CommitTx, Goal
  <2>5. CASE PurgeFiles(r)
    BY <1>1, <2>5 DEF PurgeFiles, TypeOK, Goal
  <2>6. CASE PurgeRows(r)
    BY <1>1, <1>6, <2>6 DEF PurgeRows, Existing, TypeOK
  <2>7. CASE RetainedJobFiles(r)
    <3>1. s \in Existing /\ UNCHANGED <<status, announced>> /\ req[r].pc = "retained_files"
      BY <2>7 DEF RetainedJobFiles, Existing
    <3>2. req'[r].pc = "retained_rows"
      BY <1>1, <2>7 DEF RetainedJobFiles, TypeOK
    <3>3. status[s] # "superseded" => manifest'[s] = manifest[s]
      BY <1>1, <2>7 DEF RetainedJobFiles, AllRetained
    <3> QED
      BY <1>4, <3>1, <3>2, <3>3 DEF Goal
  <2>8. CASE RetainedJobRows(r)
    <3>1. /\ s \in Existing /\ announced' = announced /\ req[r].pc = "retained_rows"
          /\ status[s] # "superseded" /\ manifest'[s] = manifest[s]
      BY <1>1, <1>6, <2>8 DEF RetainedJobRows, AllRetained, Existing
    <3> QED
      BY <1>4, <3>1 DEF Goal
  <2>9. CASE \/ GcSelect(r) \/ GcFile(r) \/ GcRow(r) \/ PrepareReadCurrent(r) \/ PrepareLookup(r)
             \/ PrepareRefused(r) \/ CommitReadManifest(r) \/ CommitVerify(r) \/ CommitRegister(r)
             \/ CommitReadLimits(r) \/ ManifestFetchFiles(r) \/ ManifestServed(r)
             \/ OrphanFileDelete(r)
    <3>1. /\ UNCHANGED <<manifest, announced, status>>
          /\ req[r].pc \notin {"delete_files", "delete_row", "purge_files", "retained_rows"}
      BY <2>9 DEF GcSelect, GcFile, GcRow, PrepareReadCurrent, PrepareLookup, PrepareRefused,
         CommitReadManifest, CommitVerify, CommitRegister, CommitReadLimits,
         ManifestFetchFiles, ManifestServed, OrphanFileDelete
    <3> QED
      BY <1>7, <3>1 DEF Existing
  <2> QED
    BY <1>10, <2>1, <2>2, <2>3, <2>4, <2>5, <2>6, <2>7, <2>8, <2>9 DEF Continue
<1> QED
  BY <1>2, <1>8, <1>9, <1>10 DEF Own

(* A request comes to "delete_row" by picking one of its ids.              *)
LEMMA DeleteRowPicked ==
    ASSUME TypeOK, [Next]_vars, NEW q \in Requests,
           At(q, "delete_row") => req[q].snap \in req[q].ids
    PROVE  (At(q, "delete_row") => req[q].snap \in req[q].ids)'
<1> SUFFICES ASSUME req'[q].pc = "delete_row" PROVE req'[q].snap \in req'[q].ids
  BY DEF At
<1>1. req'[q] = req[q] \/ DeleteFiles(q)
  <2>1. ASSUME DeleteRow(q) PROVE FALSE
    BY <2>1 DEF DeleteRow, TypeOK, Goto, Deleting, Collecting
  <2>2. ASSUME NEW then, then.pc # "delete_row", SweepStale(q, then) PROVE FALSE
    BY <2>2 DEF SweepStale, TypeOK, Goto, Deleting
  <2>3. ASSUME SweepJob(q) PROVE FALSE
    BY <2>2, <2>3 DEF SweepJob, Idle
  <2>4. ASSUME NEW g \in Games, NEW b \in 0..MaxVersion, NEW F \in SUBSET Hashes, Prepare(q, g, b, F)
        PROVE  FALSE
    BY <2>2, <2>4 DEF Prepare, ReadCurrentOf
  <2>5. ASSUME NEW g \in Games, DeleteGame(q, g) PROVE FALSE
    BY <2>5 DEF DeleteGame, TypeOK, Goto, Deleting, Collecting
  <2>6. ASSUME NEW s \in SnapIds, AdminDelete(q, s) PROVE FALSE
    BY <2>6 DEF AdminDelete, TypeOK, Goto, Deleting
  <2> QED
    BY <2>1, <2>3, <2>4, <2>5, <2>6, DeleteEntered DEF InDelete
<1>2. CASE DeleteFiles(q)
  BY <1>2 DEF DeleteFiles, Goto, TypeOK
<1> QED
  BY <1>1, <1>2 DEF At

LEMMA AloneStepWholeInv ==
    ASSUME Alone, WholeInv, [Next]_vars
    PROVE  WholeInv'
<1>1. TypeOK'
  BY StepTypeOK DEF WholeInv
<1>2. \A r \in Requests : (At(r, "delete_row") => req[r].snap \in req[r].ids)'
  BY DeleteRowPicked DEF WholeInv
<1>3. ASSUME NEW r \in Requests, Own(r), failures' = 0
      PROVE  (\A s \in Existing : Whole(s))'
  <2>1. Existing' \subseteq SnapIds
    BY DEF Existing
  <2>2. \A s \in Existing' :
           \/ manifest'[s] = announced'[s]
           \/ req'[r].pc \in {"delete_files", "delete_row"} /\ s \in req'[r].ids
           \/ req'[r].pc = "purge_files"
           \/ req'[r].pc = "retained_rows" /\ status'[s] = "superseded"
    BY <1>3, AloneStepWhole
  <2>3. ASSUME NEW s \in SnapIds, s \in Existing' PROVE Whole(s)'
    BY <2>2, <2>3 DEF Whole, TargetOfDelete, At
  <2> QED
    BY <2>1, <2>3
<1>4. CASE \/ \E h \in Hashes : Upload(h)
           \/ \E s \in SnapIds : Expire(s)
           \/ SetAutoDelete
           \/ UNCHANGED vars
  <2>1. UNCHANGED <<status, manifest, announced, req, failures>>
    BY <1>4 DEF Upload, Expire, SetAutoDelete, vars, snapshotVars, storeVars
  <2> QED
    BY <1>1, <1>2, <2>1 DEF WholeInv, Whole, Existing, TargetOfDelete, At
<1> QED
  BY <1>1, <1>2, <1>3, <1>4, WhoSteps DEF WholeInv

(* One at a time and barring deaths, nothing strips a current save but a   *)
(* delete of it, which removes its row too: what a sync hands back is what *)
(* prepare-snapshot was given.                                             *)
THEOREM WholeUnlessKilled ==
    ASSUME Alone
    PROVE  Spec => []WholeBarringDeaths
<1>1. WholeInv /\ [Next]_vars => WholeInv'
  BY AloneStepWholeInv
<1>2. WholeInv => WholeBarringDeaths
  BY DEF WholeInv, WholeBarringDeaths, CurrentIsWhole, Whole, Existing
<1> QED
  BY InitWholeInv, <1>1, <1>2, PTL DEF Spec

-----------------------------------------------------------------------------
(* Any number of devices at once, as long as they only add: prepare,       *)
(* upload, commit, restore and read, each of which may die anywhere, with  *)
(* no upload left for a day and the automatic deletion off.  Nothing is    *)
(* ever an orphan then, so the collection every commit runs takes nothing, *)
(* and what one request has seen stays true while the others run.          *)

OnlyAdding ==
    /\ Operations \subseteq {"prepare", "upload", "commit", "restore", "read", "fail"}
    /\ AutoDeleteChoices = {FALSE}

AddingCounters ==
    {"idle", "read_current", "lookup", "insert", "read_manifest", "verify", "register",
     "commit_tx", "gc_select", "read_files", "served"}

(* What a request holds about the snapshot it works on.                    *)
Faithful(q) ==
    /\ q.pc \in AddingCounters
    /\ q.pc \in {"read_manifest", "verify", "register", "commit_tx"} =>
           q.snap \in Existing
    /\ q.pc \in {"verify", "register"} => q.rows \subseteq manifest[q.snap]
    /\ q.pc = "register" => q.hash \in q.rows
    /\ q.pc = "commit_tx" => ~q.auto

AddInv ==
    /\ KeptInv
    /\ expired = {} /\ ~autoDelete
    /\ blobRows \subseteq Referenced
    /\ \A s \in Existing : manifest[s] = announced[s]
    /\ \A r \in Requests : Faithful(req[r])

LEMMA InitAddInv == OnlyAdding /\ Init => AddInv
  BY InitKeptInv DEF OnlyAdding, Init, AddInv, Referenced, Existing, Faithful, AddingCounters,
     Idle

AddingStart(r) ==
    \/ \E g \in Games, b \in 0..MaxVersion, F \in SUBSET Hashes : Prepare(r, g, b, F)
    \/ \E s \in SnapIds :
          CommitReadPending(r, s) \/ Restore(r, s) \/ ManifestFetchCommitted(r, s)

AddingContinue(r) ==
    \/ GcSelect(r)
    \/ PrepareReadCurrent(r) \/ PrepareLookup(r) \/ PrepareInsert(r) \/ PrepareRefused(r)
    \/ CommitReadManifest(r) \/ CommitVerify(r) \/ CommitRegister(r)
    \/ CommitReadLimits(r) \/ CommitTx(r)
    \/ ManifestFetchFiles(r) \/ ManifestServed(r)

LEMMA AddingSteps ==
    ASSUME OnlyAdding, AddInv, NEW r \in Requests, Own(r)
    PROVE  AddingStart(r) \/ AddingContinue(r) \/ RequestFails(r)
<1>1. CASE Start(r)
  BY <1>1 DEF OnlyAdding, Start, AddingStart, Begins, DeleteGame, AdminDelete, DeleteRetained,
     Purge, OrphanFileCheck
<1>2. CASE StartJob(r)
  BY <1>2 DEF OnlyAdding, StartJob, Begins, SweepJob, GcJob, RetainedJob
<1>3. CASE Continue(r)
  <2>1. req[r].pc \in AddingCounters
    BY DEF AddInv, Faithful
  <2> QED
    BY <1>3, <2>1 DEF Continue, AddingContinue, AddingCounters, At, DeleteFiles, DeleteRow,
       GcFile, GcRow, PurgeFiles, PurgeRows, RetainedJobFiles, RetainedJobRows, OrphanFileDelete
<1> QED
  BY <1>1, <1>2, <1>3 DEF Own

(* Every such step only adds: to the snapshots, the rows and the disk.     *)
Adds ==
    /\ Existing \subseteq Existing'
    /\ \A s \in Existing : manifest'[s] = manifest[s] /\ announced'[s] = announced[s]
    /\ \A s \in Existing' : manifest'[s] = announced'[s]
    /\ blobRows \subseteq blobRows' /\ disk \subseteq disk'
    /\ expired' = {} /\ ~autoDelete'
    /\ blobRows' \subseteq Referenced'

LEMMA OthersFaithful ==
    ASSUME AddInv, Adds, NEW q \in Requests, req'[q] = req[q]
    PROVE  Careful(req[q])' /\ Faithful(req[q])'
<1>1. Faithful(req[q]) /\ Careful(req[q]) /\ TypeOK
  BY DEF AddInv, KeptInv
<1>2. Faithful(req[q])'
  BY <1>1 DEF Faithful, Adds
<1>3. Careful(req[q])'
  BY <1>1 DEF Faithful, AddingCounters, Careful, Adds, Stored
<1> QED
  BY <1>2, <1>3

LEMMA AddingStartAdds ==
    ASSUME AddInv, NEW r \in Requests, AddingStart(r)
    PROVE  Adds /\ Faithful(req[r])'
<1> USE DEF Goto, Begins, At, snapshotVars, storeVars
<1>1. TypeOK /\ expired = {} /\ ~autoDelete /\ blobRows \subseteq Referenced
      /\ \A s \in Existing : manifest[s] = announced[s]
  BY DEF AddInv, KeptInv
<1>2. ASSUME NEW g \in Games, NEW b \in 0..MaxVersion, NEW F \in SUBSET Hashes, Prepare(r, g, b, F)
      PROVE  Adds /\ Faithful(req[r])'
  <2>1. StalePending = {}
    BY <1>1 DEF StalePending
  <2>2. req'[r].pc = "read_current"
    BY <1>1, <1>2, <2>1 DEF Prepare, SweepStale, ReadCurrentOf, TypeOK
  <2> QED
    BY <1>1, <1>2, <2>2 DEF Prepare, Adds, Existing, Referenced, Faithful, AddingCounters
<1>3. ASSUME NEW s \in SnapIds, CommitReadPending(r, s)
      PROVE  Adds /\ Faithful(req[r])'
  <2>1. req'[r] = [pc |-> "read_manifest", snap |-> s] /\ s \in Existing
    BY <1>1, <1>3 DEF CommitReadPending, TypeOK, Existing
  <2> QED
    BY <1>1, <1>3, <2>1 DEF CommitReadPending, Adds, Existing, Referenced, Faithful,
       AddingCounters
<1>4. ASSUME NEW s \in SnapIds, ManifestFetchCommitted(r, s)
      PROVE  Adds /\ Faithful(req[r])'
  <2>1. req'[r] = [pc |-> "read_files", snap |-> s] /\ s \in Existing
    BY <1>1, <1>4 DEF ManifestFetchCommitted, TypeOK, Existing
  <2> QED
    BY <1>1, <1>4, <2>1 DEF ManifestFetchCommitted, Adds, Existing, Referenced, Faithful,
       AddingCounters
<1>5. ASSUME NEW s \in SnapIds, Restore(r, s)
      PROVE  Adds /\ Faithful(req[r])'
  <2>1. Existing' = Existing
    BY <1>5 DEF Restore, Current, OfGame, Existing
  <2>2. req'[r].pc = "idle"
    BY <1>5 DEF Restore, Idle
  <2> QED
    BY <1>1, <1>5, <2>1, <2>2 DEF Restore, Adds, Referenced, Faithful, AddingCounters
<1> QED
  BY <1>2, <1>3, <1>4, <1>5 DEF AddingStart

LEMMA AddingContinueAdds ==
    ASSUME AddInv, NEW r \in Requests, AddingContinue(r) \/ RequestFails(r)
    PROVE  Adds /\ Faithful(req[r])'
<1> USE DEF Goto, Begins, At, snapshotVars, storeVars
<1>1. TypeOK /\ expired = {} /\ ~autoDelete /\ blobRows \subseteq Referenced
      /\ \A s \in Existing : manifest[s] = announced[s]
  BY DEF AddInv, KeptInv
<1>2. Faithful(req[r])
  BY DEF AddInv
<1>3. ASSUME UNCHANGED <<snapshotVars, storeVars, autoDelete>>
      PROVE  Adds /\ Existing' = Existing /\ manifest' = manifest /\ announced' = announced
  BY <1>1, <1>3 DEF Adds, Existing, Referenced
<1>4. CASE PrepareReadCurrent(r) \/ PrepareLookup(r) \/ PrepareRefused(r) \/ ManifestServed(r) \/ RequestFails(r)
  <2>1. req'[r].pc \in {"idle", "lookup", "insert"}
    BY <1>1, <1>4 DEF PrepareReadCurrent, PrepareLookup, PrepareRefused, ManifestServed,
       RequestFails, Idle, TypeOK
  <2>2. Adds
    BY <1>3, <1>4 DEF PrepareReadCurrent, PrepareLookup, PrepareRefused, ManifestServed,
       RequestFails
  <2> QED
    BY <2>1, <2>2 DEF Faithful, AddingCounters
<1>5. CASE GcSelect(r)
  <2>1. Orphans = {}
    BY <1>1 DEF Orphans
  <2>2. req[r].then \in Resumption
    BY <1>1, <1>5, StateByCounter DEF GcSelect, GcSelectStates, TypeOK
  <2>3. req'[r].pc \in {"idle", "read_current"}
    BY <1>1, <1>5, <2>1, <2>2 DEF GcSelect, Resumption, Idle, TypeOK
  <2>4. Adds
    BY <1>3, <1>5 DEF GcSelect
  <2> QED
    BY <2>3, <2>4 DEF Faithful, AddingCounters
<1>6. CASE PrepareInsert(r)
  <2>1. req'[r].pc = "idle"
    BY <1>1, <1>6 DEF PrepareInsert, Idle, TypeOK
  <2>2. PICK s \in SnapIds :
            /\ s \notin Existing
            /\ status' = [status EXCEPT ![s] = "pending"]
            /\ manifest' = [manifest EXCEPT ![s] = req[r].files]
            /\ announced' = [announced EXCEPT ![s] = req[r].files]
    BY <1>6 DEF PrepareInsert, ManifestRows, Existing
  <2>3. Existing' = Existing \cup {s}
    BY <1>1, <2>2 DEF Existing, TypeOK
  <2>4. /\ \A x \in Existing : manifest'[x] = manifest[x] /\ announced'[x] = announced[x]
        /\ manifest'[s] = announced'[s]
    BY <1>1, <2>2 DEF Existing, TypeOK
  <2>5. UNCHANGED <<blobRows, disk, expired, autoDelete>>
    BY <1>6 DEF PrepareInsert
  <2>6. Referenced \subseteq Referenced'
    BY <2>3, <2>4 DEF Referenced
  <2>7. Adds
    BY <1>1, <2>3, <2>4, <2>5, <2>6 DEF Adds
  <2> QED
    BY <2>1, <2>7 DEF Faithful, AddingCounters
<1>7. CASE CommitReadManifest(r)
  <2>1. req'[r] = [pc |-> "verify", snap |-> req[r].snap, rows |-> manifest[req[r].snap]]
    BY <1>1, <1>7 DEF CommitReadManifest, TypeOK
  <2>2. req[r].snap \in Existing
    BY <1>2, <1>7 DEF CommitReadManifest, Faithful
  <2> QED
    BY <1>3, <1>7, <2>1, <2>2 DEF CommitReadManifest, Faithful, AddingCounters
<1>8. CASE CommitVerify(r)
  <2>1. PICK h \in req[r].rows :
            \/ req'[r] = Idle
            \/ req'[r] = [pc |-> "register", snap |-> req[r].snap, rows |-> req[r].rows, hash |-> h]
    BY <1>1, <1>8 DEF CommitVerify, TypeOK
  <2>2. req[r].snap \in Existing /\ req[r].rows \subseteq manifest[req[r].snap]
    BY <1>2, <1>8 DEF CommitVerify, Faithful
  <2> QED
    BY <1>3, <1>8, <2>1, <2>2 DEF CommitVerify, Faithful, AddingCounters, Idle
<1>9. CASE CommitRegister(r)
  <2>1. /\ req[r].snap \in Existing /\ req[r].rows \subseteq manifest[req[r].snap]
        /\ req[r].hash \in req[r].rows
    BY <1>2, <1>9 DEF CommitRegister, Faithful
  <2>2. req'[r] = [pc |-> "verify", snap |-> req[r].snap, rows |-> req[r].rows \ {req[r].hash}]
    BY <1>1, <1>9 DEF CommitRegister, TypeOK
  <2>3. /\ blobRows' = blobRows \cup {req[r].hash}
        /\ UNCHANGED <<status, manifest, announced, disk, expired, autoDelete>>
    BY <1>9 DEF CommitRegister
  <2>4. Existing' = Existing /\ Referenced' = Referenced /\ req[r].hash \in Referenced
    BY <2>1, <2>3 DEF Existing, Referenced
  <2>5. Adds
    BY <1>1, <2>3, <2>4 DEF Adds
  <2> QED
    BY <2>1, <2>2, <2>3, <2>4, <2>5 DEF Faithful, AddingCounters
<1>10. CASE CommitReadLimits(r)
  <2>1. req'[r] = [pc |-> "commit_tx", snap |-> req[r].snap, auto |-> autoDelete]
    BY <1>1, <1>10 DEF CommitReadLimits, TypeOK
  <2>2. req[r].snap \in Existing
    BY <1>2, <1>10 DEF CommitReadLimits, Faithful
  <2> QED
    BY <1>1, <1>3, <1>10, <2>1, <2>2 DEF CommitReadLimits, Faithful, AddingCounters
<1>11. CASE CommitTx(r)
  <2>1. ~req[r].auto
    BY <1>2, <1>11 DEF CommitTx, Faithful
  <2>2. \A x \in SnapIds : manifest'[x] = manifest[x]
    BY <1>1, <1>11, <2>1 DEF CommitTx, Dropped
  <2>3. Existing' = Existing
    BY <1>11, <2>1 DEF CommitTx, Dropped, Promoted, Demoted, Current, OfGame, Existing
  <2>4. UNCHANGED <<announced, blobRows, disk, expired, autoDelete>> /\ Existing \subseteq SnapIds
    BY <1>11 DEF CommitTx, Existing
  <2>5. Referenced' = Referenced
    BY <2>2, <2>3, <2>4 DEF Referenced
  <2>6. Adds
    BY <1>1, <2>2, <2>3, <2>4, <2>5 DEF Adds
  <2>7. req'[r].pc = "gc_select"
    BY <1>1, <1>11 DEF CommitTx, Collecting, TypeOK
  <2> QED
    BY <2>6, <2>7 DEF Faithful, AddingCounters
<1>12. CASE ManifestFetchFiles(r)
  <2>1. req'[r] = [pc |-> "served", snap |-> req[r].snap, files |-> manifest[req[r].snap]]
    BY <1>1, <1>12 DEF ManifestFetchFiles, TypeOK
  <2> QED
    BY <1>1, <1>3, <1>12, <2>1 DEF ManifestFetchFiles, Faithful, AddingCounters
<1> QED
  BY <1>4, <1>5, <1>6, <1>7, <1>8, <1>9, <1>10, <1>11, <1>12 DEF AddingContinue

(* A request's step moves no other request.                                *)
LEMMA OneMoves ==
    ASSUME TypeOK, NEW r \in Requests, AddingStart(r) \/ AddingContinue(r) \/ RequestFails(r),
           NEW q \in Requests, q # r
    PROVE  req'[q] = req[q]
  BY DEF TypeOK, Goto, AddingStart, Prepare, SweepStale, CommitReadPending, Restore,
     ManifestFetchCommitted, AddingContinue, GcSelect, PrepareReadCurrent, PrepareLookup,
     PrepareInsert, PrepareRefused, CommitReadManifest, CommitVerify, CommitRegister,
     CommitReadLimits, CommitTx, ManifestFetchFiles, ManifestServed, RequestFails

LEMMA StepAddInv ==
    ASSUME OnlyAdding, AddInv, [Next]_vars
    PROVE  AddInv'
<1>1. KeptInv /\ TypeOK /\ TypeOK'
  BY StepTypeOK DEF AddInv, KeptInv
<1>2. ASSUME NEW r \in Requests, Own(r) PROVE AddInv'
  <2>1. AddingStart(r) \/ AddingContinue(r) \/ RequestFails(r)
    BY <1>2, AddingSteps
  <2>2. Adds /\ Faithful(req[r])'
    BY <2>1, AddingStartAdds, AddingContinueAdds
  <2>3. Restorable' /\ Careful(req[r])'
    BY <1>1, <1>2, OwnStep DEF KeptInv
  <2>4. \A q \in Requests : q # r => Careful(req[q])' /\ Faithful(req[q])'
    BY <1>1, <2>1, <2>2, OneMoves, OthersFaithful
  <2>5. \A q \in Requests : Careful(req[q])' /\ Faithful(req[q])'
    BY <2>2, <2>3, <2>4
  <2> QED
    BY <1>1, <2>2, <2>3, <2>5 DEF AddInv, KeptInv, Adds
<1>3. CASE \/ \E h \in Hashes : Upload(h)
           \/ \E s \in SnapIds : Expire(s)
           \/ SetAutoDelete
           \/ UNCHANGED vars
  <2>1. /\ UNCHANGED <<status, manifest, announced, expired, blobRows, autoDelete, req>>
        /\ disk \subseteq disk'
    BY <1>3 DEF Upload, Expire, SetAutoDelete, OnlyAdding, vars, snapshotVars, storeVars
  <2>2. KeptInv'
    BY <1>1, <1>3, WorldKeeps DEF KeptInv
  <2> QED
    BY <2>1, <2>2 DEF AddInv, Referenced, Existing, Faithful
<1> QED
  BY <1>2, <1>3, WhoSteps

(* While devices only add, every current and retained save is restorable,  *)
(* whatever commits and restores interleave, and wherever they die: the    *)
(* blobs a commit found on disk are still there at its transaction.        *)
THEOREM RestorableAdding ==
    ASSUME OnlyAdding
    PROVE  Spec => []Restorable
<1>1. AddInv /\ [Next]_vars => AddInv'
  BY StepAddInv
<1>2. AddInv => Restorable
  BY DEF AddInv, KeptInv
<1>3. Init => AddInv
  BY InitAddInv
<1> QED
  BY <1>1, <1>2, <1>3, PTL DEF Spec

-----------------------------------------------------------------------------
(* SaveHistory: seen from a launcher, an insert offers a save, a commit and *)
(* a restore put one in use, and no other step shows.                      *)

Save(s) == {[game |-> game[s], files |-> announced[s]]}
WholeSaves == [s \in SnapIds |-> IF s \in Kept THEN Save(s) ELSE {}]
ShownStep ==
    \E r \in Requests : PrepareInsert(r) \/ CommitTx(r) \/ \E s \in SnapIds : Restore(r, s)

LEMMA WhatShows ==
    ASSUME OnlyAdding, AddInv, [Next]_vars
    PROVE  ShownStep \/ UNCHANGED <<status, game, announced>>
<1>1. ASSUME NEW r \in Requests, Own(r) PROVE ShownStep \/ UNCHANGED <<status, game, announced>>
  <2>1. AddingStart(r) \/ AddingContinue(r) \/ RequestFails(r)
    BY <1>1, AddingSteps
  <2> QED
    BY <2>1 DEF ShownStep, AddingStart, AddingContinue, Prepare, CommitReadPending,
       ManifestFetchCommitted, GcSelect, PrepareReadCurrent, PrepareLookup, PrepareRefused,
       CommitReadManifest, CommitVerify, CommitRegister, CommitReadLimits, ManifestFetchFiles,
       ManifestServed, RequestFails, snapshotVars
<1>2. CASE \/ \E h \in Hashes : Upload(h)
           \/ \E s \in SnapIds : Expire(s)
           \/ SetAutoDelete
           \/ UNCHANGED vars
  BY <1>2 DEF Upload, Expire, SetAutoDelete, vars, snapshotVars
<1> QED
  BY <1>1, <1>2, WhoSteps

LEMMA KeepingOn == (AddInv => Keeps) /\ (AddInv' => Keeps')
  BY DEF AddInv, Keeps

(* A kept save is handed back as it was offered.                           *)
LEMMA KeptAsOffered ==
    ASSUME AddInv
    PROVE  KeptSaves = WholeSaves
<1>1. ASSUME NEW s \in Kept PROVE Held(manifest[s]) = announced[s]
  BY DEF AddInv, KeptInv, Restorable, Kept, Existing, Held
<1>2. ASSUME NEW s \in SnapIds
      PROVE  (IF s \in Kept THEN {[game |-> game[s], files |-> Held(manifest[s])]} ELSE {})
             = IF s \in Kept THEN Save(s) ELSE {}
  <2>1. CASE s \in Kept
    <3>1. Held(manifest[s]) = announced[s]
      BY <1>1, <2>1
    <3> QED
      BY <2>1, <3>1 DEF Save
  <2> QED
    BY <2>1
<1> QED
  BY <1>2, KeepingOn DEF KeptSaves, WholeSaves

LEMMA KeptAsOfferedNext == AddInv' => KeptSaves' = WholeSaves'
<1> DEFINE AsOffered == KeptSaves = WholeSaves
<1>1. AddInv => AsOffered
  BY KeptAsOffered
<1> HIDE DEF AsOffered
<1>2. AddInv' => AsOffered'
  BY <1>1, PTL
<1> QED
  BY <1>2 DEF AsOffered

LEMMA NothingShows ==
    ASSUME AddInv, AddInv', UNCHANGED <<status, game, announced>>
    PROVE  UNCHANGED <<OfferedSaves, KeptSaves, SavesInUse>>
<1>1. Kept' = Kept /\ \A s : Save(s)' = Save(s)
  BY DEF Kept, Save
<1>2. KeptSaves' = WholeSaves'
  BY KeptAsOfferedNext
<1>3. KeptSaves' = KeptSaves
  BY <1>1, <1>2, KeptAsOffered DEF WholeSaves
<1>4. OfferedSaves' = OfferedSaves /\ SavesInUse' = SavesInUse
  BY KeepingOn DEF OfferedSaves, SavesInUse, Current, OfGame, Existing
<1> QED
  BY <1>3, <1>4

LEMMA InsertOffers ==
    ASSUME AddInv, AddInv', NEW r \in Requests, PrepareInsert(r)
    PROVE  \E s \in SnapIds, g \in Games, F \in SUBSET Hashes : History!Offer(s, g, F)
<1>1. TypeOK
  BY DEF AddInv, KeptInv
<1>2. req[r].game \in Games /\ req[r].files \in SUBSET Hashes
  <2>1. req[r] \in InsertStates
    BY <1>1, StateByCounter DEF PrepareInsert, At, TypeOK
  <2> QED
    BY <2>1 DEF InsertStates
<1>3. PICK s \in SnapIds :
          /\ status[s] = "unused"
          /\ status' = [status EXCEPT ![s] = "pending"]
          /\ game' = [game EXCEPT ![s] = req[r].game]
          /\ announced' = [announced EXCEPT ![s] = req[r].files]
  BY DEF PrepareInsert
<1>4. OfferedSaves[s] = {}
  BY <1>3 DEF OfferedSaves
<1>5. OfferedSaves' = [OfferedSaves EXCEPT ![s] = {[game |-> req[r].game, files |-> req[r].files]}]
  BY <1>1, <1>3, KeepingOn DEF OfferedSaves, TypeOK
<1>6. Kept' = Kept /\ \A x \in Kept : Save(x)' = Save(x)
  BY <1>1, <1>3 DEF Kept, Save, TypeOK
<1>7. KeptSaves' = WholeSaves'
  BY KeptAsOfferedNext
<1>8. KeptSaves' = KeptSaves
  BY <1>6, <1>7, KeptAsOffered DEF WholeSaves
<1>9. \A g \in Games : Current(g)' = Current(g)
  BY <1>1, <1>3 DEF Current, OfGame, Existing, TypeOK
<1>10. History!Offer(s, req[r].game, req[r].files)
  BY <1>4, <1>5, <1>8, <1>9, KeepingOn DEF History!Offer, SavesInUse
<1> QED
  BY <1>2, <1>10

(* What a commit and a restore have in common: one save becomes the only   *)
(* one of its game in use, and what was kept stays kept.                   *)
PutsInUse(s) ==
    /\ s \in Existing
    /\ UNCHANGED <<game, announced>>
    /\ \A x \in SnapIds :
          status'[x] = IF x = s THEN "committed"
                       ELSE IF x \in Current(game[s]) THEN "superseded" ELSE status[x]

LEMMA UseHappens ==
    ASSUME AddInv, AddInv', NEW s \in SnapIds, PutsInUse(s)
    PROVE  History!Use(s)
<1>1. TypeOK
  BY DEF AddInv, KeptInv
<1>2. OfferedSaves' = OfferedSaves
  BY KeepingOn DEF PutsInUse, OfferedSaves, Existing, Current, OfGame
<1>3. OfferedSaves[s] = Save(s)
  BY KeepingOn DEF PutsInUse, OfferedSaves, Save, Existing
<1>4. Kept' = Kept \cup {s} /\ \A x : Save(x)' = Save(x)
  BY DEF PutsInUse, Kept, Save, Current, OfGame, Existing
<1>5. KeptSaves' = WholeSaves'
  BY KeptAsOfferedNext
<1>6. KeptSaves' = [KeptSaves EXCEPT ![s] = OfferedSaves[s]]
  BY <1>3, <1>4, <1>5, KeptAsOffered DEF WholeSaves
<1>7. ASSUME NEW g \in Games PROVE Current(g)' = IF g = game[s] THEN {s} ELSE Current(g)
  BY DEF PutsInUse, Current, OfGame, Existing
<1>8. SavesInUse' = [SavesInUse EXCEPT ![game[s]] = {s}]
  BY <1>1, <1>7, KeepingOn DEF SavesInUse, TypeOK
<1>9. \E save \in OfferedSaves[s] : SavesInUse' = [SavesInUse EXCEPT ![save.game] = {s}]
  BY <1>3, <1>8 DEF Save
<1> QED
  BY <1>2, <1>6, <1>9 DEF History!Use

LEMMA CommitPuts ==
    ASSUME AddInv, NEW r \in Requests, CommitTx(r)
    PROVE  PutsInUse(req[r].snap)
<1>1. ~req[r].auto /\ req[r].snap \in Existing
  BY DEF AddInv, Faithful, CommitTx, At
<1> QED
  BY <1>1 DEF CommitTx, PutsInUse, Dropped, Promoted, Demoted

LEMMA RestorePuts ==
    ASSUME NEW r \in Requests, NEW s \in SnapIds, Restore(r, s)
    PROVE  PutsInUse(s)
  BY DEF Restore, PutsInUse, Existing

(* While devices only add, the snapshots implement SaveHistory: a save     *)
(* that was ever in use can be restored for good, as it was offered, and   *)
(* every commit and restore puts exactly one in use, whatever uploads,     *)
(* commits and restores interleave and wherever they die.                  *)
THEOREM HistoryImplemented ==
    ASSUME OnlyAdding
    PROVE  Spec => ImplementsHistory
<1>1. AddInv /\ [Next]_vars => AddInv'
  BY StepAddInv
<1>2. Init => AddInv
  BY InitAddInv
<1>3. Init => History!Init
  BY DEF Init, History!Init, OfferedSaves, KeptSaves, SavesInUse, Kept, Current, OfGame, Existing
<1>4. AddInv /\ AddInv' /\ [Next]_vars => [History!Next]_(History!history)
  <2> SUFFICES ASSUME AddInv, AddInv', [Next]_vars
               PROVE  History!Next \/ UNCHANGED History!history
    OBVIOUS
  <2>1. CASE UNCHANGED <<status, game, announced>>
    BY <2>1, NothingShows DEF History!history
  <2>2. ASSUME NEW r \in Requests, PrepareInsert(r) PROVE History!Next
    BY <2>2, InsertOffers DEF History!Next
  <2>3. ASSUME NEW r \in Requests, CommitTx(r) PROVE History!Next
    BY <2>3, CommitPuts, UseHappens DEF History!Next, PutsInUse, Existing
  <2>4. ASSUME NEW r \in Requests, NEW s \in SnapIds, Restore(r, s) PROVE History!Next
    BY <2>4, RestorePuts, UseHappens DEF History!Next
  <2> QED
    BY <2>1, <2>2, <2>3, <2>4, WhatShows DEF ShownStep
<1> QED
  BY <1>1, <1>2, <1>3, <1>4, PTL DEF Spec, ImplementsHistory, History!Spec

-----------------------------------------------------------------------------
(* Any number of requests whose writes to the snapshots and their rows are *)
(* one transaction each: syncs with the automatic deletion on, off or      *)
(* switched, restores, deletions of retained versions and reads.  A        *)
(* snapshot then has its whole manifest or is gone, and gone it stays, so  *)
(* the two reads of an answer see one or the other.                        *)

Transactional ==
    Operations \subseteq {"prepare", "upload", "commit", "restore", "delete_retained", "read",
                          "set_auto_delete", "fail"}

WholeOrGone(s) ==
    \/ s \in Existing /\ manifest[s] = announced[s]
    \/ status[s] = "deleted" /\ manifest[s] = {}

Answered(q) ==
    \/ q.files = announced[q.snap]
    \/ q.files = {} /\ status[q.snap] = "deleted"

(* What a request that reads holds about the snapshot it answers for.      *)
Settled(q) ==
    /\ q.pc \in AddingCounters \cup {"gc_file", "gc_row"}
    /\ q.pc \in {"read_files", "served"} => q.snap \in Drawn
    /\ q.pc = "served" => Answered(q)

GoneInv ==
    /\ TypeOK
    /\ expired = {}
    /\ \A s \in Drawn : WholeOrGone(s)
    /\ \A r \in Requests : Settled(req[r])

LEMMA InitGoneInv == Init => GoneInv
  BY InitTypeOK DEF Init, GoneInv, Drawn, Settled, AddingCounters, Idle

TransactionalStep(r) ==
    AddingStart(r) \/ AddingContinue(r) \/ RequestFails(r) \/ GcFile(r) \/ GcRow(r)
    \/ \E s \in SnapIds : DeleteRetained(r, s)

LEMMA TransactionalSteps ==
    ASSUME Transactional, GoneInv, NEW r \in Requests, Own(r)
    PROVE  TransactionalStep(r)
<1>1. CASE Start(r)
  BY <1>1 DEF Transactional, Start, AddingStart, TransactionalStep, Begins, DeleteGame,
     AdminDelete, Purge, OrphanFileCheck
<1>2. CASE StartJob(r)
  BY <1>2 DEF Transactional, StartJob, Begins, SweepJob, GcJob, RetainedJob
<1>3. CASE Continue(r)
  <2>1. req[r].pc \in AddingCounters \cup {"gc_file", "gc_row"}
    BY DEF GoneInv, Settled
  <2> QED
    BY <1>3, <2>1 DEF Continue, AddingContinue, TransactionalStep, AddingCounters, At,
       DeleteFiles, DeleteRow, PurgeFiles, PurgeRows, RetainedJobFiles, RetainedJobRows,
       OrphanFileDelete
<1> QED
  BY <1>1, <1>2, <1>3 DEF Own, TransactionalStep

(* What such a step leaves of every snapshot already drawn.                *)
Settles ==
    /\ expired' = {}
    /\ Drawn \subseteq Drawn'
    /\ \A s \in Drawn :
          announced'[s] = announced[s] /\ (status[s] = "deleted" => status'[s] = "deleted")
    /\ \A s \in Drawn' : WholeOrGone(s)'

LEMMA NothingSettles ==
    ASSUME GoneInv, UNCHANGED <<status, manifest, announced, expired>>
    PROVE  Settles
  BY DEF GoneInv, Settles, Drawn, WholeOrGone, Existing

LEMMA InsertSettles ==
    ASSUME GoneInv, NEW r \in Requests, PrepareInsert(r)
    PROVE  Settles
<1>1. PICK s \in SnapIds :
          /\ status[s] = "unused"
          /\ status' = [status EXCEPT ![s] = "pending"]
          /\ manifest' = [manifest EXCEPT ![s] = req[r].files]
          /\ announced' = [announced EXCEPT ![s] = req[r].files]
  BY DEF PrepareInsert, ManifestRows
<1>2. TypeOK /\ expired' = {}
  BY DEF GoneInv, PrepareInsert
<1>3. Drawn' = Drawn \cup {s} /\ s \notin Drawn
  BY <1>1, <1>2 DEF Drawn, TypeOK
<1>4. WholeOrGone(s)'
  BY <1>1, <1>2 DEF WholeOrGone, Existing, TypeOK
<1>5. \A x \in Drawn : UNCHANGED <<status[x], manifest[x], announced[x]>> /\ x \in SnapIds
  BY <1>1, <1>2, <1>3 DEF Drawn, TypeOK
<1>6. \A x \in Drawn : WholeOrGone(x)'
  BY <1>5 DEF GoneInv, WholeOrGone, Existing
<1> QED
  BY <1>2, <1>3, <1>4, <1>5, <1>6 DEF Settles

LEMMA CommitSettles ==
    ASSUME GoneInv, NEW r \in Requests, CommitTx(r)
    PROVE  Settles
<1> DEFINE dropped == Dropped(game[req[r].snap], req[r].auto)
<1>1. /\ TypeOK /\ UNCHANGED announced /\ expired' = {}
      /\ \A x \in Drawn : x \in SnapIds /\ WholeOrGone(x)
  BY DEF GoneInv, CommitTx, Drawn
<1>2. \A x \in SnapIds :
          /\ x \in dropped => status'[x] = "deleted" /\ manifest'[x] = {}
          /\ x \notin dropped =>
                /\ manifest'[x] = manifest[x]
                /\ \/ status'[x] = status[x]
                   \/ x \in Existing /\ status'[x] \in {"committed", "superseded"}
  BY DEF CommitTx, Promoted, Demoted, Current, OfGame, Existing
<1>3. dropped \subseteq Existing
  BY DEF Dropped, Current, Retained, OfGame
<1>4. Existing \subseteq Drawn
  BY DEF Existing, Drawn
<1> HIDE DEF dropped
<1>5. Drawn' = Drawn
  BY <1>2, <1>3, <1>4 DEF Drawn, Existing
<1>6. \A x \in Drawn : status[x] = "deleted" => status'[x] = "deleted"
  BY <1>1, <1>2, <1>3 DEF Existing
<1>7. \A x \in Drawn : WholeOrGone(x)'
  BY <1>1, <1>2 DEF WholeOrGone, Existing
<1> QED
  BY <1>1, <1>5, <1>6, <1>7 DEF Settles

LEMMA RetainedSettles ==
    ASSUME GoneInv, NEW r \in Requests, NEW s \in SnapIds, DeleteRetained(r, s) \/ Restore(r, s)
    PROVE  Settles
<1>1. /\ TypeOK /\ UNCHANGED announced /\ expired' = {}
      /\ \A x \in Drawn : x \in SnapIds /\ WholeOrGone(x)
  BY DEF GoneInv, DeleteRetained, Restore, Drawn
<1>2. \A x \in SnapIds :
          \/ status'[x] = status[x] /\ manifest'[x] = manifest[x]
          \/ /\ x \in Existing
             /\ \/ status'[x] = "deleted" /\ manifest'[x] = {}
                \/ status'[x] \in {"committed", "superseded"} /\ manifest'[x] = manifest[x]
  BY <1>1 DEF DeleteRetained, Restore, Current, OfGame, Existing, TypeOK
<1>3. Drawn' = Drawn
  BY <1>2 DEF Drawn, Existing
<1>4. \A x \in Drawn : status[x] = "deleted" => status'[x] = "deleted"
  BY <1>1, <1>2 DEF Existing
<1>5. \A x \in Drawn : WholeOrGone(x)'
  BY <1>1, <1>2 DEF WholeOrGone, Existing
<1> QED
  BY <1>1, <1>3, <1>4, <1>5 DEF Settles

LEMMA StepSettles ==
    ASSUME Transactional, GoneInv, [Next]_vars
    PROVE  Settles
<1>1. ASSUME NEW r \in Requests, TransactionalStep(r) PROVE Settles
  <2>1. \/ UNCHANGED <<status, manifest, announced, expired>>
        \/ PrepareInsert(r) \/ CommitTx(r)
        \/ \E s \in SnapIds : DeleteRetained(r, s) \/ Restore(r, s)
    BY <1>1 DEF TransactionalStep, AddingStart, AddingContinue, RequestFails, Prepare,
       CommitReadPending, ManifestFetchCommitted, GcSelect, GcFile, GcRow,
       PrepareReadCurrent, PrepareLookup, PrepareRefused, CommitReadManifest, CommitVerify,
       CommitRegister, CommitReadLimits, ManifestFetchFiles, ManifestServed, snapshotVars
  <2> QED
    BY <2>1, NothingSettles, InsertSettles, CommitSettles, RetainedSettles
<1>2. CASE \/ \E h \in Hashes : Upload(h)
           \/ \E s \in SnapIds : Expire(s)
           \/ SetAutoDelete
           \/ UNCHANGED vars
  <2>1. UNCHANGED <<status, manifest, announced, expired>>
    BY <1>2 DEF Upload, Expire, SetAutoDelete, Transactional, vars, snapshotVars
  <2> QED
    BY <2>1, NothingSettles
<1> QED
  BY <1>1, <1>2, WhoSteps, TransactionalSteps

(* A request's own step is a read, or leaves it no longer reading.         *)
LEMMA WhoReads ==
    ASSUME GoneInv, NEW r \in Requests, TransactionalStep(r), NEW q \in Requests
    PROVE  \/ req'[q] = req[q]
           \/ /\ req'[q].pc \in AddingCounters \cup {"gc_file", "gc_row"}
              /\ req'[q].pc \notin {"read_files", "served"}
           \/ \E s \in SnapIds : status[s] = "committed" /\ req'[q] = [pc |-> "read_files", snap |-> s]
           \/ /\ At(q, "read_files")
              /\ req'[q] = [pc |-> "served", snap |-> req[q].snap, files |-> manifest[req[q].snap]]
<1> USE DEF Goto, AddingCounters
<1>1. TypeOK /\ StalePending = {}
  BY DEF GoneInv, StalePending
<1>2. CASE q # r
  BY <1>1, <1>2 DEF TypeOK, TransactionalStep, AddingStart, Prepare, SweepStale,
     CommitReadPending, Restore, ManifestFetchCommitted, AddingContinue, GcSelect,
     PrepareReadCurrent, PrepareLookup, PrepareInsert, PrepareRefused, CommitReadManifest,
     CommitVerify, CommitRegister, CommitReadLimits, CommitTx, ManifestFetchFiles,
     ManifestServed, RequestFails, GcFile, GcRow, DeleteRetained
<1>3. CASE q = r
  <2>1. CASE AddingStart(r) \/ \E s \in SnapIds : DeleteRetained(r, s)
    BY <1>1, <1>3, <2>1 DEF TypeOK, AddingStart, Prepare, SweepStale, ReadCurrentOf,
       CommitReadPending, Restore, ManifestFetchCommitted, DeleteRetained, Collecting
  <2>2. CASE GcSelect(r) \/ GcFile(r) \/ GcRow(r)
    <3>1. req[r].then \in Resumption
      BY <1>1, <2>2, StateByCounter DEF TypeOK, GcSelect, GcFile, GcRow, At, GcSelectStates,
         GcFileStates, GcRowStates
    <3>2. req[r].then.pc \in {"idle", "read_current"}
      BY <3>1 DEF Resumption, Idle
    <3> QED
      BY <1>1, <1>3, <2>2, <3>2 DEF TypeOK, GcSelect, GcFile, GcRow
  <2>3. CASE ManifestFetchFiles(r)
    BY <1>1, <1>3, <2>3 DEF TypeOK, ManifestFetchFiles
  <2>4. CASE \/ PrepareReadCurrent(r) \/ PrepareLookup(r) \/ PrepareInsert(r)
             \/ PrepareRefused(r) \/ ManifestServed(r) \/ RequestFails(r)
    <3>1. req'[r].pc \in {"idle", "lookup", "insert"}
      BY <1>1, <2>4 DEF TypeOK, PrepareReadCurrent, PrepareLookup, PrepareInsert,
         PrepareRefused, ManifestServed, RequestFails, Idle
    <3> QED
      BY <1>3, <3>1
  <2>5. CASE \/ CommitReadManifest(r) \/ CommitVerify(r) \/ CommitRegister(r)
             \/ CommitReadLimits(r) \/ CommitTx(r)
    <3>1. req'[r].pc \in {"idle", "verify", "register", "commit_tx", "gc_select"}
      BY <1>1, <2>5 DEF TypeOK, CommitReadManifest, CommitVerify, CommitRegister,
         CommitReadLimits, CommitTx, Collecting, Idle
    <3> QED
      BY <1>3, <3>1
  <2> QED
    BY <2>1, <2>2, <2>3, <2>4, <2>5 DEF TransactionalStep, AddingContinue
<1> QED
  BY <1>2, <1>3

LEMMA OneSettled ==
    ASSUME GoneInv, Settles, NEW q \in Requests,
           \/ req'[q] = req[q]
           \/ /\ req'[q].pc \in AddingCounters \cup {"gc_file", "gc_row"}
              /\ req'[q].pc \notin {"read_files", "served"}
           \/ \E s \in SnapIds : status[s] = "committed" /\ req'[q] = [pc |-> "read_files", snap |-> s]
           \/ /\ At(q, "read_files")
              /\ req'[q] = [pc |-> "served", snap |-> req[q].snap, files |-> manifest[req[q].snap]]
    PROVE  Settled(req[q])'
<1>1. Settled(req[q])
  BY DEF GoneInv
<1>2. CASE req'[q] = req[q]
  BY <1>1, <1>2 DEF Settled, Answered, Settles
<1>3. CASE /\ req'[q].pc \in AddingCounters \cup {"gc_file", "gc_row"}
           /\ req'[q].pc \notin {"read_files", "served"}
  BY <1>3 DEF Settled
<1>4. ASSUME NEW s \in SnapIds, status[s] = "committed",
             req'[q] = [pc |-> "read_files", snap |-> s]
      PROVE  Settled(req[q])'
  BY <1>4 DEF Settled, AddingCounters, Drawn, Settles
<1>5. CASE /\ At(q, "read_files")
           /\ req'[q] = [pc |-> "served", snap |-> req[q].snap, files |-> manifest[req[q].snap]]
  <2>1. req[q].snap \in Drawn
    BY <1>1, <1>5 DEF Settled, At
  <2>2. WholeOrGone(req[q].snap)
    BY <2>1 DEF GoneInv
  <2>3. Answered(req[q])'
    BY <1>5, <2>1, <2>2 DEF WholeOrGone, Answered, Settles
  <2> QED
    BY <1>5, <2>1, <2>3 DEF Settled, AddingCounters, Settles
<1> QED
  BY <1>2, <1>3, <1>4, <1>5

LEMMA StepGoneInv ==
    ASSUME Transactional, GoneInv, [Next]_vars
    PROVE  GoneInv'
<1>1. TypeOK' /\ Settles
  BY StepTypeOK, StepSettles DEF GoneInv
<1>2. ASSUME NEW q \in Requests PROVE Settled(req[q])'
  <2>1. CASE \E r \in Requests : TransactionalStep(r)
    BY <1>1, <2>1, WhoReads, OneSettled
  <2>2. CASE req' = req
    BY <1>1, <2>2, OneSettled
  <2> QED
    BY <2>1, <2>2, WhoSteps, TransactionalSteps DEF Upload, Expire, SetAutoDelete, vars
<1> QED
  BY <1>1, <1>2 DEF GoneInv, Settles

(* While the rows of a snapshot only change in transactions, an answer of  *)
(* restore-manifest is the whole manifest, or the empty one of a save      *)
(* that is gone for good, whatever comes between its two statements.       *)
THEOREM ServedOrGone ==
    ASSUME Transactional
    PROVE  Spec => []ServedWholeOrGone
<1>1. GoneInv /\ [Next]_vars => GoneInv'
  BY StepGoneInv
<1>2. GoneInv => ServedWholeOrGone
  BY DEF GoneInv, Settled, Answered, ServedWholeOrGone, At
<1> QED
  BY InitGoneInv, <1>1, <1>2, PTL DEF Spec
=============================================================================
