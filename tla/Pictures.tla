------------------------------- MODULE Pictures -------------------------------
(***************************************************************************)
(* The pictures a user shows: banner and avatar, one key each on the row   *)
(* in users (src/images.rs, replace_profile_image of src/storage.rs), and  *)
(* custom artwork (src/artwork.rs), with the sweep of orphaned files       *)
(* (src/admin/storage.rs, src/admin/maintenance.rs).  A change reads the   *)
(* key it replaces, writes its own, and then removes the old file; the     *)
(* steps of several requests interleave.  One user, and one place: the     *)
(* banner (or the avatar) or the artwork of one game.                      *)
(***************************************************************************)
EXTENDS Naturals

CONSTANTS
    Keys,      \* presigned keys, each of a fresh uuid
    Workers    \* requests in flight

VARIABLES
    place,    \* "banner" or "artwork": what the keys are for
    signed,   \* keys a presigned URL is out for
    disk,     \* keys with a file
    shown,    \* the key on the row, or NoKey
    sized,    \* its file was there when its size was taken (size_in_bytes is 0
              \* otherwise); a banner's always was
    work,     \* what each request is doing
    found,    \* keys the last integrity scan listed as orphans
    claims,   \* claims[k]: how often the key was put on a row, to two (history)
    orphaned  \* keys the sweep found unreferenced by its own check (history)

row == <<shown, sized>>
history == <<claims, orphaned>>
vars == <<place, signed, disk, row, work, found, history>>

NoKey == "no key"
Idle == [pc |-> "idle"]
At(w, pc) == work[w].pc = pc
Goto(w, state) == work' = [work EXCEPT ![w] = state]

Init ==
    /\ place \in {"banner", "artwork"}
    /\ signed = {} /\ disk = {} /\ found = {}
    /\ shown = NoKey /\ sized = FALSE
    /\ work = [w \in Workers |-> Idle]
    /\ claims = [k \in Keys |-> 0] /\ orphaned = {}

-----------------------------------------------------------------------------
(* presign and upload_url: a fresh key, good for a while.                  *)
Presign(k) ==
    /\ k \notin signed
    /\ signed' = signed \cup {k}
    /\ UNCHANGED <<place, disk, row, work, found, history>>

(* The bytes arrive (Uploads has the transfer): a banner goes on to        *)
(* replace_profile_image, artwork waits for the launcher's save.           *)
Upload(w, k) ==
    /\ At(w, "idle") /\ k \in signed
    /\ disk' = disk \cup {k}
    /\ Goto(w, IF place = "banner" THEN [pc |-> "read", key |-> k, sized |-> TRUE] ELSE Idle)
    /\ UNCHANGED <<place, signed, row, found, history>>

(* save: any key under the user's prefix, whether its upload has landed or *)
(* not (then its size counts as 0), or a picture from elsewhere that has   *)
(* none.                                                                   *)
Save(w, k) ==
    /\ At(w, "idle") /\ place = "artwork"
    /\ Goto(w, [pc |-> "read", key |-> k, sized |-> k \in disk])
    /\ UNCHANGED <<place, signed, disk, row, found, history>>

(* delete_banner reads and clears; delete of artwork does both in one      *)
(* statement.                                                              *)
DeleteBanner(w) ==
    /\ At(w, "idle") /\ place = "banner"
    /\ Goto(w, [pc |-> "read", key |-> NoKey, sized |-> FALSE])
    /\ UNCHANGED <<place, signed, disk, row, found, history>>

DeleteArtwork(w) ==
    /\ At(w, "idle") /\ place = "artwork" /\ shown # NoKey
    /\ shown' = NoKey /\ sized' = FALSE
    /\ Goto(w, [pc |-> "unlink", old |-> shown])
    /\ UNCHANGED <<place, signed, disk, found, history>>

(* SELECT the key that is there, UPDATE to the new one, delete the file of *)
(* the old one when it is another.                                         *)
Read(w) ==
    /\ At(w, "read")
    /\ Goto(w, [pc |-> "write", key |-> work[w].key, sized |-> work[w].sized, old |-> shown])
    /\ UNCHANGED <<place, signed, disk, row, found, history>>

Write(w) ==
    LET key == work[w].key IN
    /\ At(w, "write")
    /\ shown' = key /\ sized' = work[w].sized
    /\ claims' = IF key = NoKey \/ claims[key] = 2 THEN claims ELSE [claims EXCEPT ![key] = @ + 1]
    /\ Goto(w, IF work[w].old \in {NoKey, key} THEN Idle ELSE [pc |-> "unlink", old |-> work[w].old])
    /\ UNCHANGED <<place, signed, disk, found, orphaned>>

Unlink(w) ==
    /\ At(w, "unlink")
    /\ disk' = disk \ {work[w].old}
    /\ Goto(w, Idle)
    /\ UNCHANGED <<place, signed, row, found, history>>

-----------------------------------------------------------------------------
(* integrity: the rows, then the files; the panel keeps the list.          *)
Referenced(k) == shown = k

Scan ==
    /\ found' = {k \in disk : ~Referenced(k)}
    /\ UNCHANGED <<place, signed, disk, row, work, history>>

(* delete_orphan_files: "each one is re-checked", then deleted.            *)
OnTheList(k) == FALSE  \* mutant: the list of the scan is believed
StillReferenced(k) == Referenced(k)

SweepCheck(w, k) ==
    /\ At(w, "idle") /\ k \in found
    /\ ~StillReferenced(k)  \* else skipped
    /\ Goto(w, [pc |-> "unlink", old |-> k])
    /\ orphaned' = IF Referenced(k) THEN orphaned ELSE orphaned \cup {k}
    /\ UNCHANGED <<place, signed, disk, row, found, claims>>

Restart ==
    /\ work' = [w \in Workers |-> Idle]
    /\ UNCHANGED <<place, signed, disk, row, found, history>>

Next ==
    \/ \E k \in Keys : Presign(k)
    \/ \E w \in Workers :
        \/ \E k \in Keys : Upload(w, k) \/ SweepCheck(w, k)
        \/ \E k \in Keys \cup {NoKey} : Save(w, k)
        \/ DeleteBanner(w) \/ DeleteArtwork(w) \/ Read(w) \/ Write(w) \/ Unlink(w)
    \/ Scan \/ Restart

Spec == Init /\ [][Next]_vars

-----------------------------------------------------------------------------
(* Everything has its type (users, game_artwork, the storage directory).   *)
TypeOK ==
    /\ signed \subseteq Keys /\ disk \subseteq Keys /\ found \subseteq Keys
    /\ shown \in Keys \cup {NoKey} /\ sized \in BOOLEAN
    /\ \A w \in Workers : work[w].pc \in {"idle", "read", "write", "unlink"}
    /\ claims \in [Keys -> 0..2] /\ orphaned \subseteq Keys

(* The picture a profile names is there, whatever overlaps: requests that  *)
(* replace it and remove it, and the operator's sweep.  Three things may   *)
(* leave it without a file: a key put on a row twice, a sweep that checked *)
(* the key before it was on a row, and artwork that was saved while its    *)
(* file was not there.                                                     *)
PictureIsThere ==
    shown # NoKey /\ sized /\ claims[shown] = 1 => shown \in disk \cup orphaned
=============================================================================
