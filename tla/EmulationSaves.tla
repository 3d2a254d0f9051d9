--------------------------- MODULE EmulationSaves ---------------------------
(***************************************************************************)
(* Emulation saves of hydra-server (src/emulation.rs): memory cards that   *)
(* live in slots.  A row is reserved, its bytes arrive through the storage *)
(* PUT, and the commit supersedes or deletes whatever else the slot holds, *)
(* statement by statement and in no transaction.  The admin's and the      *)
(* portal's deletes and the retained-versions job work on the same rows.   *)
(* One user: every statement filters by user or by id.                     *)
(***************************************************************************)
EXTENDS FiniteSets, Naturals

CONSTANTS
    Saves,      \* ids of emulation_saves, drawn once each
    Slots,      \* (platform, emulator, save_kind, save_identity)
    SlotOf,     \* the slot each id is reserved for
    Requests,   \* handlers and jobs in flight
    Excusable   \* what SlotKeepsASave excuses: "overlap", "superseded", "early"

ASSUME SlotOfSaves == SlotOf \in [Saves -> Slots]

VARIABLES
    drawn,      \* ids that have been reserved; their PUT urls stay good
    rows,       \* ids with a row
    uploaded,   \* rows with is_uploaded = 1
    superseded, \* rows with superseded_at not null
    disk,       \* ids whose file is in place
    landing,    \* PUTs between the rename and the UPDATE of finalize_upload
    req,        \* what each handler is doing
    committed,  \* rows some commit has marked (history)
    filled,     \* slots some commit has completed in (history)
    excused     \* slots whose clients did what SlotKeepsASave excuses (history)

store == <<drawn, rows, uploaded, superseded, disk, landing>>
marks == <<committed, filled, excused>>
vars == <<drawn, rows, uploaded, superseded, disk, landing, req,
          committed, filled, excused>>

Idle == [pc |-> "idle"]
At(r, pc) == req[r].pc = pc
Goto(r, state) == req' = [req EXCEPT ![r] = state]

SlotOthers(s) == {o \in rows \ {s} : SlotOf[o] = SlotOf[s]}

(* What GET /profile/emulation-saves shows of a slot.                      *)
Listed(t) == {s \in uploaded \ superseded : SlotOf[s] = t}

(* Whose commit a handler is running, for the history.                     *)
Committing(t) ==
    {r \in Requests : req[r].pc \in {"list", "limits", "replace", "file", "own"}
                      /\ SlotOf[req[r].save] = t}

Init ==
    /\ drawn = {} /\ rows = {} /\ uploaded = {} /\ superseded = {}
    /\ disk = {} /\ landing = {}
    /\ req = [r \in Requests |-> Idle]
    /\ committed = {} /\ filled = {} /\ excused = {}

-----------------------------------------------------------------------------
(* POST upload-url.  A refusal (size, quota) changes nothing.              *)
Presign(s) ==
    /\ s \notin drawn
    /\ drawn' = drawn \cup {s}
    /\ rows' = rows \cup {s}
    /\ UNCHANGED <<uploaded, superseded, disk, landing, req, marks>>

(* PUT /storage: the file is renamed into place, then finalize_upload      *)
(* marks the row, if there still is one; it may fail.  A url outlives its  *)
(* row; a PUT over a finished upload changes nothing here.                 *)
Land(s) ==
    /\ s \in drawn \ (landing \cup uploaded)
    /\ disk' = disk \cup {s}
    /\ landing' = landing \cup {s}
    /\ UNCHANGED <<drawn, rows, uploaded, superseded, req, marks>>

Finalize(s) ==
    /\ s \in landing
    /\ landing' = landing \ {s}
    /\ uploaded' \in {uploaded, uploaded \cup ({s} \cap rows)}
    /\ UNCHANGED <<drawn, rows, superseded, disk, req, marks>>

-----------------------------------------------------------------------------
(* POST {id}/commit.                                                       *)

(* What the launcher is excused for: two commits of a slot at once, the    *)
(* commit of a save another commit has superseded meanwhile, a commit      *)
(* before its upload was answered.                                         *)
Straying(s) ==
    {e \in Excusable : \/ e = "overlap" /\ Committing(SlotOf[s]) # {}
                       \/ e = "superseded" /\ s \in superseded
                       \/ e = "early" /\ s \notin uploaded}

Commit(r, s) ==
    /\ At(r, "idle")
    /\ s \in rows  \* else 404
    /\ Goto(r, [pc |-> "list", save |-> s])
    /\ excused' = IF Straying(s) = {} THEN excused ELSE excused \cup {SlotOf[s]}
    /\ UNCHANGED <<store, committed, filled>>

(* The rest of the slot, by a join on the row of the save itself: nothing  *)
(* when that row has gone meanwhile.  is_uploaded is remembered per row.   *)
OldRows(s) == SlotOthers(s) \cap uploaded  \* mutant: finished uploads only
ReadOld(s) == IF s \in rows THEN SlotOthers(s) ELSE {}

CommitList(r) ==
    /\ At(r, "list")
    /\ LET s == req[r].save IN
        Goto(r, [pc |-> "limits", save |-> s, old |-> ReadOld(s),
                 up |-> ReadOld(s) \cap uploaded])
    /\ UNCHANGED <<store, marks>>

(* auto_delete_saves, which an admin may change at any time: deleted are   *)
(* all old rows, or only those that were not uploaded.                     *)
CommitLimits(r) ==
    /\ At(r, "limits")
    /\ \E keep \in {{}, req[r].up} :
        Goto(r, [pc |-> "replace", save |-> req[r].save, old |-> req[r].old, keep |-> keep])
    /\ UNCHANGED <<store, marks>>

(* One old row: deleted, its file next, or superseded where it stands.     *)
DropRows(gone) ==
    /\ rows' = rows \ gone
    /\ uploaded' = uploaded \ gone
    /\ superseded' = superseded \ gone
    /\ committed' = committed \ gone

CommitDrop(r) ==
    /\ At(r, "replace")
    /\ \E o \in req[r].old \ req[r].keep :
        /\ DropRows({o})
        /\ Goto(r, [pc |-> "file", save |-> req[r].save, old |-> req[r].old \ {o},
                    keep |-> req[r].keep, file |-> o])
    /\ UNCHANGED <<drawn, disk, landing, filled, excused>>

CommitFile(r) ==
    /\ At(r, "file")
    /\ disk' = disk \ {req[r].file}
    /\ Goto(r, [pc |-> "replace", save |-> req[r].save, old |-> req[r].old,
                keep |-> req[r].keep])
    /\ UNCHANGED <<drawn, rows, uploaded, superseded, landing, marks>>

CommitSupersede(r) ==
    /\ At(r, "replace")
    /\ \E o \in req[r].old \cap req[r].keep :
        /\ superseded' = superseded \cup ({o} \cap rows)
        /\ Goto(r, [req[r] EXCEPT !.old = @ \ {o}])
    /\ UNCHANGED <<drawn, rows, uploaded, disk, landing, marks>>

CommitReplaced(r) ==
    /\ At(r, "replace") /\ req[r].old = {}
    /\ Goto(r, [pc |-> "own", save |-> req[r].save])
    /\ UNCHANGED <<store, marks>>

(* The UPDATE of the save itself says nothing when the row is gone (the    *)
(* fetch after it answers 404), and leaves superseded_at as it is.         *)
CommitOwn(r) ==
    /\ At(r, "own")
    /\ LET s == req[r].save IN
        /\ uploaded' = uploaded \cup ({s} \cap rows)
        /\ committed' = committed \cup ({s} \cap rows)
        /\ filled' = IF s \in rows THEN filled \cup {SlotOf[s]} ELSE filled
    /\ Goto(r, Idle)
    /\ UNCHANGED <<drawn, rows, superseded, disk, landing, excused>>

-----------------------------------------------------------------------------
(* Deletes: the launcher's is one DELETE and then the file; the admin's    *)
(* and the portal's read the row first and then delete by id, as the job   *)
(* does with every superseded id it listed.  Purging the user lists the    *)
(* ids, drops all rows, then removes the files it listed.                  *)
Delete(r, s) ==
    /\ At(r, "idle")
    /\ s \in rows  \* else 404
    /\ DropRows({s})
    /\ Goto(r, [pc |-> "unlink", file |-> s, rest |-> {}])
    /\ excused' = excused \cup {SlotOf[s]}
    /\ UNCHANGED <<drawn, disk, landing, filled>>

PanelDelete(r, s) ==
    /\ At(r, "idle")
    /\ s \in rows  \* else 404
    /\ Goto(r, [pc |-> "doomed", rest |-> {s}])
    /\ excused' = excused \cup {SlotOf[s]}
    /\ UNCHANGED <<store, committed, filled>>

AllUploaded == uploaded  \* mutant: forgets superseded_at
Retained == superseded

RetainedJob(r) ==
    /\ At(r, "idle") /\ Retained # {}
    /\ Goto(r, [pc |-> "doomed", rest |-> Retained])
    /\ UNCHANGED <<store, marks>>

DeleteDoomed(r) ==
    /\ At(r, "doomed")
    /\ \E s \in req[r].rest :
        /\ DropRows({s})
        /\ Goto(r, [pc |-> "unlink", file |-> s, rest |-> req[r].rest \ {s}])
    /\ UNCHANGED <<drawn, disk, landing, filled, excused>>

Unlink(r) ==
    /\ At(r, "unlink")
    /\ disk' = disk \ {req[r].file}
    /\ Goto(r, IF req[r].rest = {} THEN Idle ELSE [pc |-> "doomed", rest |-> req[r].rest])
    /\ UNCHANGED <<drawn, rows, uploaded, superseded, landing, marks>>

Purge(r) ==
    /\ At(r, "idle") /\ rows # {}
    /\ Goto(r, [pc |-> "purge", rest |-> rows])
    /\ excused' = Slots
    /\ UNCHANGED <<store, committed, filled>>

PurgeRows(r) ==
    /\ At(r, "purge")
    /\ DropRows(rows)
    /\ Goto(r, [pc |-> "purgeFiles", rest |-> req[r].rest])
    /\ UNCHANGED <<drawn, disk, landing, filled, excused>>

PurgeFile(r) ==
    /\ At(r, "purgeFiles")
    /\ \E s \in req[r].rest :
        /\ disk' = disk \ {s}
        /\ Goto(r, IF req[r].rest = {s} THEN Idle ELSE [req[r] EXCEPT !.rest = @ \ {s}])
    /\ UNCHANGED <<drawn, rows, uploaded, superseded, landing, marks>>

-----------------------------------------------------------------------------
(* A client that hangs up, a database error, the server killed.            *)
RequestDies(r) ==
    /\ ~At(r, "idle")
    /\ Goto(r, Idle)
    /\ UNCHANGED <<store, marks>>

Step(r) ==
    \/ \E s \in Saves : Commit(r, s) \/ Delete(r, s) \/ PanelDelete(r, s)
    \/ CommitList(r) \/ CommitLimits(r) \/ CommitDrop(r) \/ CommitFile(r)
    \/ CommitSupersede(r) \/ CommitReplaced(r) \/ CommitOwn(r)
    \/ RetainedJob(r) \/ DeleteDoomed(r) \/ Unlink(r)
    \/ Purge(r) \/ PurgeRows(r) \/ PurgeFile(r) \/ RequestDies(r)

Next ==
    \/ \E s \in Saves : Presign(s) \/ Land(s) \/ Finalize(s)
    \/ \E r \in Requests : Step(r)

Spec == Init /\ [][Next]_vars

-----------------------------------------------------------------------------
Shapes ==
    {Idle}
    \cup [pc : {"list", "own"}, save : Saves]
    \cup [pc : {"limits"}, save : Saves, old : SUBSET Saves, up : SUBSET Saves]
    \cup [pc : {"replace"}, save : Saves, old : SUBSET Saves, keep : SUBSET Saves]
    \cup [pc : {"file"}, save : Saves, old : SUBSET Saves, keep : SUBSET Saves, file : Saves]
    \cup [pc : {"unlink"}, file : Saves, rest : SUBSET Saves]
    \cup [pc : {"doomed", "purge", "purgeFiles"}, rest : SUBSET Saves]

(* Everything has its type, rows are of drawn ids, and only drawn ids have *)
(* files (the tables of emulation.rs and its storage keys).                *)
TypeOK ==
    /\ drawn \subseteq Saves /\ rows \subseteq drawn
    /\ uploaded \subseteq rows /\ superseded \subseteq rows
    /\ disk \subseteq drawn /\ landing \subseteq drawn
    /\ req \in [Requests -> Shapes]
    /\ committed \subseteq rows /\ filled \subseteq Slots /\ excused \subseteq Slots

(* However commits, uploads, deletes and deaths interleave, two saves that *)
(* were committed to one slot are never both in use: the later commit has  *)
(* superseded or deleted the earlier one, which is what emulation.rs means *)
(* by replacing older saves for the same slot.                             *)
OneInUsePerSlot ==
    \A s, o \in committed :
        s # o /\ SlotOf[s] = SlotOf[o] => s \in superseded \/ o \in superseded

(* A slot to which a save was committed goes on listing one that is on     *)
(* disk, also while a commit replaces it, after one died halfway and after *)
(* the retained-versions job: unless somebody asked for a deletion, or the *)
(* launcher did what Excusable names.                                      *)
SlotKeepsASave ==
    \A t \in filled \ excused : Listed(t) \cap disk # {}
=============================================================================
