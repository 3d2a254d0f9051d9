----------------------------- MODULE Artifacts -----------------------------
(***************************************************************************)
(* Save backups and their shares (src/artifacts.rs, src/shares.rs): the    *)
(* per-game limit is read, the rows are counted and the new row inserted   *)
(* in three awaits; the bytes arrive later; the owner, the admin panel and *)
(* the portal delete rows and then files; a share is checked, then         *)
(* inserted under the foreign key on the artifact.  One owner.             *)
(***************************************************************************)
EXTENDS FiniteSets, Naturals

CONSTANTS
    Artifacts,  \* ids of artifacts, drawn once each
    Games,
    GameOf,     \* the game each id is a backup of
    Friends,    \* users the owner may share with
    Handlers,   \* requests in flight
    Limit       \* backups_per_game_limit, left alone here

VARIABLES
    used,       \* ids that have been inserted; their PUT urls stay good
    rows,       \* ids with a row
    uploaded,   \* is_uploaded = 1
    frozen,     \* is_frozen = 1
    disk,       \* ids whose file is in place
    landing,    \* PUTs between the rename and the UPDATE
    shares,     \* rows of artifact_shares: <<id, friend>>
    handler     \* what each request is doing

stored == <<used, uploaded, disk, landing>>
vars == <<used, rows, uploaded, frozen, disk, landing, shares, handler>>

Idle == [pc |-> "idle"]
At(h, pc) == handler[h].pc = pc
Goto(h, state) == handler' = [handler EXCEPT ![h] = state]

Of(g) == {a \in rows : GameOf[a] = g}

(* What GET /artifacts and shared-with-me list.                            *)
Listed == rows \cap uploaded
SharedWith(f) == {a \in Listed : <<a, f>> \in shares}

Init ==
    /\ used = {} /\ rows = {} /\ uploaded = {} /\ frozen = {}
    /\ disk = {} /\ landing = {} /\ shares = {}
    /\ handler = [h \in Handlers |-> Idle]

-----------------------------------------------------------------------------
(* POST /artifacts: enforce_quotas, then the INSERT.                       *)
UploadedOf(g) == Of(g) \cap uploaded  \* mutant: counts finished uploads only
Counted(g) == Of(g)

CreateCounted(h, a) ==
    /\ At(h, "idle") /\ a \notin used
    /\ ~\E o \in Handlers : handler[o].pc = "insert" /\ handler[o].id = a
    /\ Cardinality(Counted(GameOf[a])) < Limit  \* else refused
    /\ Goto(h, [pc |-> "insert", id |-> a])
    /\ UNCHANGED <<rows, stored, frozen, shares>>

(* check_quota says no, or the INSERT fails, or the client has gone.       *)
CreateFails(h) ==
    /\ At(h, "insert")
    /\ Goto(h, Idle)
    /\ UNCHANGED <<rows, stored, frozen, shares>>

CreateInserts(h) ==
    /\ At(h, "insert")
    /\ LET a == handler[h].id IN
        /\ used' = used \cup {a}
        /\ rows' = rows \cup {a}
    /\ Goto(h, Idle)
    /\ UNCHANGED <<uploaded, frozen, disk, landing, shares>>

(* PUT /storage: a rename, then is_uploaded on the row if it is there.     *)
Land(a) ==
    /\ a \in used \ landing
    /\ disk' = disk \cup {a}
    /\ landing' = landing \cup {a}
    /\ UNCHANGED <<used, rows, uploaded, frozen, shares, handler>>

Finalize(a) ==
    /\ a \in landing
    /\ landing' = landing \ {a}
    /\ uploaded' = uploaded \cup ({a} \cap rows)
    /\ UNCHANGED <<used, rows, frozen, disk, shares, handler>>

-----------------------------------------------------------------------------
(* DELETE by the owner: the row, and by the foreign key its shares (which  *)
(* the handler deletes once more, and finds none); then the file.  The     *)
(* admin's and the portal's read the row first and delete by id.  Purging  *)
(* or deleting the user lists the ids, then drops whatever rows there are, *)
(* then the listed files.                                                  *)
DropRows(h, gone, files) ==
    /\ rows' = rows \ gone
    /\ shares' = {s \in shares : s[1] \notin gone}
    /\ frozen' = frozen \ gone
    /\ Goto(h, [pc |-> "unlink", ids |-> files])
    /\ UNCHANGED disk

Delete(h, a) ==
    /\ At(h, "idle") /\ a \in rows
    /\ DropRows(h, {a}, {a})
    /\ UNCHANGED <<used, uploaded, landing>>

PanelFinds(h, a) ==
    /\ At(h, "idle") /\ a \in rows  \* else 404
    /\ Goto(h, [pc |-> "delete", ids |-> {a}])
    /\ UNCHANGED <<rows, stored, frozen, shares>>

PanelDrops(h) ==
    /\ At(h, "delete")
    /\ DropRows(h, handler[h].ids, handler[h].ids)
    /\ UNCHANGED <<used, uploaded, landing>>

PurgeLists(h) ==
    /\ At(h, "idle") /\ rows # {}
    /\ Goto(h, [pc |-> "purge", ids |-> rows])
    /\ UNCHANGED <<rows, stored, frozen, shares>>

PurgeDrops(h) ==
    /\ At(h, "purge")
    /\ DropRows(h, rows, handler[h].ids)
    /\ UNCHANGED <<used, uploaded, landing>>

Unlink(h) ==
    /\ At(h, "unlink")
    /\ \E a \in handler[h].ids :
        /\ disk' = disk \ {a}
        /\ Goto(h, IF handler[h].ids = {a} THEN Idle
                   ELSE [handler[h] EXCEPT !.ids = @ \ {a}])
    /\ UNCHANGED <<used, rows, uploaded, frozen, landing, shares>>

(* PUT freeze and unfreeze, from the launcher or the admin panel.          *)
SetFrozen(a) ==
    /\ a \in rows
    /\ \/ frozen' = frozen \cup {a}
       \/ frozen' = frozen \ {a}
    /\ UNCHANGED <<rows, stored, shares, handler>>

-----------------------------------------------------------------------------
(* POST share: the artifact is the owner's and uploaded, else 404.         *)
AnyRow(a) == a \in rows  \* mutant: is_uploaded is not asked
Shareable(a) == a \in Listed

ShareChecked(h, a, f) ==
    /\ At(h, "idle")
    /\ Shareable(a)
    /\ Goto(h, [pc |-> "share", id |-> a, friend |-> f])
    /\ UNCHANGED <<rows, stored, frozen, shares>>

(* The foreign key refuses a share of a row that has gone meanwhile.       *)
ShareInserts(h) ==
    /\ At(h, "share")
    /\ LET a == handler[h].id IN
        shares' = IF a \in rows THEN shares \cup {<<a, handler[h].friend>>} ELSE shares
    /\ Goto(h, Idle)
    /\ UNCHANGED <<rows, stored, frozen>>

(* DELETE share, by the owner or by the recipient.                         *)
Unshare(a, f) ==
    /\ <<a, f>> \in shares
    /\ shares' = shares \ {<<a, f>>}
    /\ UNCHANGED <<rows, stored, frozen, handler>>

Next ==
    \/ \E a \in Artifacts : Land(a) \/ Finalize(a) \/ SetFrozen(a)
    \/ \E a \in Artifacts, f \in Friends : Unshare(a, f)
    \/ \E h \in Handlers :
        \/ CreateFails(h) \/ CreateInserts(h) \/ ShareInserts(h)
        \/ PanelDrops(h) \/ PurgeLists(h) \/ PurgeDrops(h) \/ Unlink(h)
        \/ \E a \in Artifacts :
            \/ CreateCounted(h, a) \/ Delete(h, a) \/ PanelFinds(h, a)
            \/ \E f \in Friends : ShareChecked(h, a, f)

Spec == Init /\ [][Next]_vars

-----------------------------------------------------------------------------
States ==
    {Idle} \cup [pc : {"insert"}, id : Artifacts]
    \cup [pc : {"delete", "purge", "unlink"}, ids : SUBSET Artifacts]
    \cup [pc : {"share"}, id : Artifacts, friend : Friends]

(* Everything has its type, and every row was inserted under its own id    *)
(* (the tables of artifacts.rs and shares.rs).                             *)
TypeOK ==
    /\ used \subseteq Artifacts /\ rows \subseteq used
    /\ uploaded \subseteq used /\ disk \subseteq used /\ landing \subseteq used
    /\ frozen \subseteq rows
    /\ shares \subseteq rows \X Friends
    /\ handler \in [Handlers -> States]

(* The count and the INSERT of enforce_quotas and create are separate      *)
(* statements, so creations in flight together may pass the limit          *)
(* together; but a game never holds more backups than one below the limit  *)
(* and one for each request that could be in flight, however creations,    *)
(* deletions and uploads interleave.                                       *)
OverLimitOnlyByRacing ==
    \A g \in Games :
        Cardinality(Of(g))
          + Cardinality({h \in Handlers : At(h, "insert") /\ GameOf[handler[h].id] = g})
            <= Limit - 1 + Cardinality(Handlers)

(* Every share is listed by shared_with_me and can be downloaded: its      *)
(* artifact still has its row, was uploaded, and its file is in place,     *)
(* also while a deletion and a share of the same backup race.              *)
SharedIsDownloadable ==
    \A s \in shares : s[1] \in SharedWith(s[2]) \cap disk
=============================================================================
