---------------------------- MODULE DatabaseBackups ----------------------------
(***************************************************************************)
(* Backups of the database and restores from them (src/backup.rs,          *)
(* src/admin/backups.rs).  A backup picks a free name, copies, and prunes  *)
(* what is beyond the keep limit; a restore verifies its file, backs up    *)
(* what it is about to replace, and swaps every table in one transaction;  *)
(* an upload is written and then verified.  Their steps interleave.  What  *)
(* a restore reloads after the swap is not here.                           *)
(***************************************************************************)
EXTENDS Naturals, SequencesExt

CONSTANTS
    CopyNames,    \* names VACUUM INTO may get
    UploadNames,  \* names an upload may get: another prefix
    KEEP,         \* backup_keep
    Workers,      \* requests in flight
    MaxChanges    \* bound on the changes made to the database

VARIABLES
    data,    \* what the database holds: the number of a change
    stamp,   \* the last change there was
    files,   \* the backup directory, newest first
    work     \* what each request is doing

vars == <<data, stamp, files, work>>

Broken == 0  \* contents verify refuses
Foreign == 1 \* a good file from elsewhere
Nobody == "nobody"
Idle == [pc |-> "idle"]
At(w, pc) == work[w].pc = pc
Goto(w, state) == work' = [work EXCEPT ![w] = state]

Listed == {files[i].name : i \in DOMAIN files}
Place(name) == CHOOSE i \in DOMAIN files : files[i].name = name
Contents(name) == files[Place(name)].contents
With(name, contents, others) == <<[name |-> name, contents |-> contents]>> \o others
Without(name) == IF name \in Listed THEN RemoveAt(files, Place(name)) ELSE files

(* A restore remembers (history) what the database held since its safety   *)
(* copy, whether an operator put files in the directory or took some away, *)
(* or a copy got a name that a prune is about to delete, and whether       *)
(* another request's prune took its source.                                *)
Restoring(v) == work[v].pc \in {"copy", "prune", "unlink", "swap"} /\ work[v].source # Nobody
Moves(w, state, held, shaken, gone) ==
    work' = [v \in Workers |->
        IF v = w THEN state
        ELSE IF Restoring(v)
        THEN [work[v] EXCEPT !.since = @ \cup {held}, !.shaken = @ \/ shaken,
                             !.robbed = @ \/ work[v].source \in gone]
        ELSE work[v]]

Init ==
    /\ data = 1 /\ stamp = 1
    /\ files = <<>>
    /\ work = [w \in Workers |-> Idle]

Change ==
    /\ stamp < MaxChanges
    /\ stamp' = stamp + 1 /\ data' = stamp + 1
    /\ Moves(Nobody, Idle, data', FALSE, {})
    /\ UNCHANGED files

-----------------------------------------------------------------------------
(* create, and restore up to its safety backup: the file is there and      *)
(* verifies, free_name finds a name.                                       *)
(* Names have their second in them: one a prune has on its list from an    *)
(* earlier second is not found free again.                                 *)
Doomed == UNION {work[v].name : v \in {u \in Workers : At(u, "unlink")}}
Free(names) == names \ (Listed \cup Doomed)

Copying(name, source) ==
    [pc |-> "copy", name |-> name, source |-> source, since |-> {}, shaken |-> FALSE,
     robbed |-> FALSE]

Create(w) ==
    /\ At(w, "idle")
    /\ \E name \in Free(CopyNames) : Goto(w, Copying(name, Nobody))
    /\ UNCHANGED <<data, stamp, files>>

Restore(w, source) ==
    /\ At(w, "idle")
    /\ source \in Listed /\ Contents(source) # Broken  \* else 400
    /\ \E name \in Free(CopyNames) : Goto(w, Copying(name, source))
    /\ UNCHANGED <<data, stamp, files>>

(* VACUUM INTO; refused when the name has been taken meanwhile, or when    *)
(* the volume is short of space.  Of several that found one name free, a   *)
(* late one may find it free once more.                                    *)
Copy(w) ==
    LET name == work[w].name IN
    /\ At(w, "copy") /\ name \notin Listed
    /\ files' = With(name, data, files)
    /\ Moves(w, [work[w] EXCEPT !.pc = "prune",
                                !.since = IF work[w].source = Nobody THEN {} ELSE {data},
                                !.shaken = @ \/ name \in Doomed],
             data, name \in Doomed, {})
    /\ UNCHANGED <<data, stamp>>

Refuse(w) ==
    /\ At(w, "copy") \/ At(w, "swap")
    /\ Goto(w, Idle)
    /\ UNCHANGED <<data, stamp, files>>

(* prune lists, newest first, and then deletes what is beyond the limit,   *)
(* one remove_file after the other.                                        *)
Surplus == {files[i].name : i \in (KEEP + 1)..Len(files)}
AnySurplus(protect) == Surplus  \* mutant: nothing is protected
Victims(protect) == Surplus \ {protect}

Pruning(w, names) ==
    IF names # {} THEN [work[w] EXCEPT !.pc = "unlink", !.name = names]
    ELSE IF work[w].source = Nobody THEN Idle
    ELSE [work[w] EXCEPT !.pc = "swap", !.name = {}]

Prune(w) ==
    /\ At(w, "prune")
    /\ Goto(w, Pruning(w, Victims(work[w].source)))
    /\ UNCHANGED <<data, stamp, files>>

Unlink(w) ==
    /\ At(w, "unlink")
    /\ \E name \in work[w].name :
        /\ files' = Without(name)
        /\ Moves(w, Pruning(w, work[w].name \ {name}), data, FALSE, {name})
    /\ UNCHANGED <<data, stamp>>

(* The swap, in one transaction.  ATTACH makes an empty file of a missing  *)
(* one, whose tables are then not found, and nothing is swapped.           *)
Swap(w) ==
    LET source == work[w].source IN
    /\ At(w, "swap")
    /\ source \in Listed
    /\ Contents(source) # Broken
    /\ data' = Contents(source)
    /\ Moves(w, Idle, data', FALSE, {})
    /\ UNCHANGED <<stamp, files>>

Misattach(w) ==
    LET source == work[w].source IN
    /\ At(w, "swap")
    /\ source \in Listed => Contents(source) = Broken
    /\ files' = IF source \in Listed THEN files ELSE With(source, Broken, files)
    /\ Moves(w, Idle, data, source \notin Listed, {})
    /\ UNCHANGED <<data, stamp>>

-----------------------------------------------------------------------------
(* store_upload: a free name, the bytes, and a file that does not verify   *)
(* is deleted again.                                                       *)
Receive(w) ==
    /\ At(w, "idle")
    /\ \E name \in Free(UploadNames) : Goto(w, [pc |-> "write", name |-> name])
    /\ UNCHANGED <<data, stamp, files>>

StoreUpload(w) ==
    LET name == work[w].name IN
    /\ At(w, "write")
    /\ \E contents \in {Broken, Foreign} : files' = With(name, contents, Without(name))
    /\ Moves(w, [pc |-> "verify", name |-> name], data, TRUE, {})
    /\ UNCHANGED <<data, stamp>>

VerifyUpload(w) ==
    LET name == work[w].name IN
    /\ At(w, "verify")
    /\ files' = IF name \in Listed /\ Contents(name) # Broken THEN files ELSE Without(name)
    /\ Goto(w, Idle)
    /\ UNCHANGED <<data, stamp>>

RemoveByHand(name) ==
    /\ name \in Listed  \* else 404
    /\ files' = Without(name)
    /\ Moves(Nobody, Idle, data, TRUE, {})
    /\ UNCHANGED <<data, stamp>>

Restart ==
    /\ work' = [w \in Workers |-> Idle]
    /\ UNCHANGED <<data, stamp, files>>

Next ==
    \/ \E w \in Workers :
        \/ Create(w) \/ Copy(w) \/ Refuse(w) \/ Prune(w) \/ Unlink(w) \/ Swap(w) \/ Misattach(w)
        \/ Receive(w) \/ StoreUpload(w) \/ VerifyUpload(w)
        \/ \E source \in CopyNames \cup UploadNames : Restore(w, source)
    \/ Change \/ Restart
    \/ \E name \in CopyNames \cup UploadNames : RemoveByHand(name)

Spec == Init /\ [][Next]_vars

-----------------------------------------------------------------------------
(* Everything has its type (the database, the backup directory).           *)
TypeOK ==
    /\ data \in 1..MaxChanges /\ stamp \in 1..MaxChanges
    /\ files \in Seq([name : CopyNames \cup UploadNames, contents : 0..MaxChanges])
    /\ \A w \in Workers : work[w].pc \in {"idle", "copy", "prune", "unlink", "swap", "write", "verify"}

(* backups.rs: "even a mistaken restore is reversible".  When a restore is *)
(* about to swap, its source is still there, unless another request's      *)
(* prune took it, and a backup holds what the database held at or after    *)
(* the safety copy - whatever overlaps but an operator's own hand on the   *)
(* directory, and a copy that lands under a name which a prune listed      *)
(* when another copy had it.                                               *)
RestoreIsReversible ==
    \A w \in Workers : At(w, "swap") /\ ~work[w].shaken =>
        /\ ~work[w].robbed => work[w].source \in Listed
        /\ \E i \in DOMAIN files : files[i].contents \in work[w].since
=============================================================================
