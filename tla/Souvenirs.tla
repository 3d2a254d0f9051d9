----------------------------- MODULE Souvenirs -----------------------------
(***************************************************************************)
(* Achievements and the screenshots filed against them (the sync of        *)
(* src/achievements.rs; src/souvenirs.rs): a capture is reserved, its      *)
(* bytes land, and an achievement sync merges the unlocks and then claims  *)
(* its captures one by one, each a read, a check and an UPDATE.  A sweep   *)
(* drops reservations that grew old.  One user.                            *)
(***************************************************************************)
EXTENDS FiniteSets, FiniteSetsExt, Integers, SequencesExt

CONSTANTS
    Shots,      \* ids of souvenirs, drawn once each; the image key of one
                \* is drawn with it
    ClientOf,   \* the launcher's client id each was reserved under
    Games,      \* remote game ids
    Upper,      \* to_uppercase, on the spellings of achievement names
    Payloads,   \* [game, entries : Seq([name, time]), shots : Seq([id, names])];
                \* an entry without a time has one later than any other
    Syncs       \* achievement syncs in flight

VARIABLES
    known,      \* shots that were reserved; their keys and urls are out
    rows,       \* shots with a row
    filed,      \* what a ready row says: its game and its names
    uploaded,   \* rows with is_uploaded = 1
    disk,       \* shots whose picture is in place
    trash,      \* deleted rows whose file is deleted next
    sweep,      \* shots the sweep has listed and not come to yet
    unlocks,    \* per game, the stored list of [name, time]
    sync,       \* what each sync is doing
    accepted,   \* per game, every <<name, time>> merged since a reset (history)
    raced,      \* games whose syncs or resets overlapped (history)
    clashed,    \* games whose claims overlapped (history)
    acked,      \* shots acknowledged to the launcher (history)
    given       \* shots removed on request, or listed by the sweep when claimed (history)

pictures == <<known, uploaded, disk>>
history == <<accepted, raced, clashed, acked, given>>
vars == <<known, rows, filed, uploaded, disk, trash, sweep, unlocks,
          sync, accepted, raced, clashed, acked, given>>

Nameless == "none" \* an entry without a name
Pending == [game |-> "none", names |-> {}]
Idle == [pc |-> "idle"]
At(h, pc) == sync[h].pc = pc
Goto(h, state) == sync' = [sync EXCEPT ![h] = state]

Ready(s) == s \in rows /\ filed[s] # Pending

(* GET souvenirs and the thumbnails of the achievement list.               *)
Shown(g) == {s \in rows \cap uploaded : filed[s] # Pending /\ filed[s].game = g}

Init ==
    /\ known = {} /\ rows = {} /\ uploaded = {} /\ disk = {}
    /\ filed = [s \in Shots |-> Pending]
    /\ trash = {} /\ sweep = {}
    /\ unlocks = [g \in Games |-> <<>>]
    /\ sync = [h \in Syncs |-> Idle]
    /\ accepted = [g \in Games |-> {}]
    /\ raced = {} /\ clashed = {} /\ acked = {} /\ given = {}

-----------------------------------------------------------------------------
(* Captures.  A client id with a row is answered with that row's key and   *)
(* changes nothing; of two reservations at once the unique index refuses   *)
(* the second.                                                             *)
Authorize(s) ==
    /\ s \notin known
    /\ ~\E o \in rows : ClientOf[o] = ClientOf[s]
    /\ known' = known \cup {s}
    /\ rows' = rows \cup {s}
    /\ UNCHANGED <<filed, uploaded, disk, trash, sweep, unlocks, sync, history>>

(* The PUT of Uploads, which stores the file and then marks the row, seen  *)
(* as one step; the url outlives the row.                                  *)
Put(s) ==
    /\ s \in known \ uploaded
    /\ disk' = disk \cup {s}
    /\ uploaded' = uploaded \cup ({s} \cap rows)
    /\ UNCHANGED <<known, rows, filed, trash, sweep, unlocks, sync, history>>

-----------------------------------------------------------------------------
(* The merge: a union by upper-cased name, the earliest time kept.         *)
Names(list) == {Upper[list[i].name] : i \in DOMAIN list}

AbsorbExact(list, e) ==  \* mutant: names compared as they are spelt
    IF e.name = Nameless \/ \E i \in DOMAIN list : list[i].name = e.name
    THEN list ELSE Append(list, e)
Absorb(list, e) ==
    IF e.name = Nameless THEN list
    ELSE IF Upper[e.name] \in Names(list)
    THEN [i \in DOMAIN list |->
            IF Upper[list[i].name] = Upper[e.name] /\ e.time < list[i].time
            THEN e ELSE list[i]]
    ELSE Append(list, e)

Merge(existing, incoming) == FoldLeft(Absorb, <<>>, existing \o incoming)

-----------------------------------------------------------------------------
(* PUT /profile/games/achievements: read the game's row, merge, upsert.    *)
SyncReads(h, p) ==
    /\ At(h, "idle")
    /\ Goto(h, [pc |-> "upsert", of |-> p, base |-> unlocks[p.game]])
    /\ raced' = IF \E o \in Syncs : At(o, "upsert") /\ sync[o].of.game = p.game
                THEN raced \cup {p.game} ELSE raced
    /\ UNCHANGED <<rows, filed, pictures, trash, sweep, unlocks, accepted, clashed,
                   acked, given>>

SyncUpserts(h) ==
    /\ At(h, "upsert")
    /\ LET p == sync[h].of
           merged == Merge(sync[h].base, p.entries)
       IN
        /\ unlocks' = [unlocks EXCEPT ![p.game] = merged]
        /\ accepted' = [accepted EXCEPT ![p.game] = @ \cup
               {<<Upper[p.entries[i].name], p.entries[i].time>> :
                   i \in {j \in DOMAIN p.entries : p.entries[j].name # Nameless}}]
        /\ Goto(h, IF p.shots = <<>> THEN Idle
                   ELSE [pc |-> "claim", game |-> p.game, todo |-> p.shots,
                         unlocked |-> Names(merged), done |-> {}])
    /\ UNCHANGED <<rows, filed, pictures, trash, sweep, raced, clashed, acked, given>>

(* claim_one: the payload's own checks and the reservation.                *)
Claiming(h) == Head(sync[h].todo)
Wanted(h) == {Upper[n] : n \in Claiming(h).names}

OnItsWay(h) ==  \* mutant: an upload on its way is good enough
    /\ Wanted(h) # {} /\ Wanted(h) \subseteq sync[h].unlocked
    /\ Claiming(h).id \in rows
Claimable(h) ==
    /\ Wanted(h) # {} /\ Wanted(h) \subseteq sync[h].unlocked
    /\ Claiming(h).id \in rows
    /\ Claiming(h).id \in uploaded

ClaimReads(h) ==
    /\ At(h, "claim")
    /\ Goto(h, IF Claimable(h) THEN [sync[h] EXCEPT !.pc = "check"] ELSE Idle)
    /\ clashed' = IF \E o \in Syncs \ {h} : sync[o].pc \in {"check", "file"}
                                           /\ sync[o].game = sync[h].game
                  THEN clashed \cup {sync[h].game} ELSE clashed
    /\ UNCHANGED <<rows, filed, pictures, trash, sweep, unlocks, accepted, raced,
                   acked, given>>

(* achievement_already_captured: another ready souvenir of the game.       *)
NothingTaken(h) == {}  \* mutant: other captures are not asked
Taken(h) ==
    UNION {filed[o].names : o \in {s \in rows \ {Claiming(h).id} :
                                     Ready(s) /\ filed[s].game = sync[h].game}}

ClaimChecks(h) ==
    /\ At(h, "check")
    /\ Goto(h, IF Wanted(h) \cap Taken(h) = {} THEN [sync[h] EXCEPT !.pc = "file"] ELSE Idle)
    /\ UNCHANGED <<rows, filed, pictures, trash, sweep, unlocks, history>>

(* UPDATE ... RETURNING by id: an error when the row has gone.  A claim    *)
(* that fails ends the sync without an answer, whatever it filed before.   *)
ClaimFiles(h) ==
    /\ At(h, "file")
    /\ LET s == Claiming(h).id
           rest == Tail(sync[h].todo)
           done == sync[h].done \cup {s}
       IN IF s \notin rows
          THEN Goto(h, Idle) /\ UNCHANGED <<filed, acked, given>>
          ELSE /\ filed' = [filed EXCEPT ![s] = [game |-> sync[h].game, names |-> Wanted(h)]]
               /\ given' = IF s \in sweep THEN given \cup {s} ELSE given
               /\ IF rest = <<>>
                  THEN Goto(h, Idle) /\ acked' = acked \cup done
                  ELSE /\ Goto(h, [sync[h] EXCEPT !.pc = "claim", !.todo = rest, !.done = done])
                       /\ UNCHANGED acked
    /\ UNCHANGED <<rows, pictures, trash, sweep, unlocks, accepted, raced, clashed>>

SyncDies(h) ==
    /\ ~At(h, "idle")
    /\ Goto(h, Idle)
    /\ UNCHANGED <<rows, filed, pictures, trash, sweep, unlocks, history>>

(* DELETE achievements/{game}.                                             *)
Reset(g) ==
    /\ unlocks' = [unlocks EXCEPT ![g] = <<>>]
    /\ accepted' = [accepted EXCEPT ![g] = {}]
    /\ raced' = IF \E h \in Syncs : At(h, "upsert") /\ sync[h].of.game = g
                THEN raced \cup {g} ELSE raced \ {g}
    /\ UNCHANGED <<rows, filed, pictures, trash, sweep, sync, clashed, acked, given>>

-----------------------------------------------------------------------------
(* A row goes, then its file.                                              *)
DropRow(s) ==
    /\ rows' = rows \ {s}
    /\ filed' = [filed EXCEPT ![s] = Pending]
    /\ uploaded' = uploaded \ {s}
    /\ trash' = trash \cup ({s} \cap rows)

(* remove, on the owner's or an admin's request; a purge removes each.     *)
RemoveShot(s) ==
    /\ s \in rows
    /\ DropRow(s)
    /\ given' = given \cup {s}
    /\ UNCHANGED <<known, disk, sweep, unlocks, sync, accepted, raced,
                   clashed, acked>>

Unlink(s) ==
    /\ s \in trash
    /\ trash' = trash \ {s}
    /\ disk' = disk \ {s}
    /\ UNCHANGED <<known, rows, filed, uploaded, sweep, unlocks, sync, history>>

(* sweep_abandoned lists the reservations older than its cutoff, whichever *)
(* those are by now, then deletes by id.                                   *)
Abandoned(aged) == {s \in aged : filed[s] = Pending}

SweepLists ==
    /\ sweep = {}
    /\ \E aged \in SUBSET rows : Abandoned(aged) # {} /\ sweep' = Abandoned(aged)
    /\ UNCHANGED <<rows, filed, pictures, trash, unlocks, sync, history>>

SweepDrops(s) ==
    /\ s \in sweep
    /\ sweep' = sweep \ {s}
    /\ DropRow(s)
    /\ UNCHANGED <<known, disk, unlocks, sync, history>>

Next ==
    \/ \E s \in Shots :
        \/ Authorize(s) \/ Put(s) \/ RemoveShot(s) \/ Unlink(s)
        \/ SweepDrops(s)
    \/ \E h \in Syncs :
        \/ \E p \in Payloads : SyncReads(h, p)
        \/ SyncUpserts(h) \/ ClaimReads(h) \/ ClaimChecks(h) \/ ClaimFiles(h) \/ SyncDies(h)
    \/ \E g \in Games : Reset(g)
    \/ SweepLists

Spec == Init /\ [][Next]_vars

-----------------------------------------------------------------------------
(* Everything has its type, and what a row owns goes with it (the tables   *)
(* souvenirs and game_achievements).                                       *)
TypeOK ==
    /\ known \subseteq Shots /\ rows \subseteq known /\ uploaded \subseteq rows
    /\ disk \subseteq known /\ trash \subseteq known
    /\ sweep \subseteq known
    /\ \A s \in Shots : filed[s] = Pending \/ (s \in rows /\ filed[s].game \in Games)
    /\ raced \subseteq Games /\ clashed \subseteq Games
    /\ acked \subseteq known /\ given \subseteq known

(* The stored unlocks of a game have one entry per achievement, whatever   *)
(* the spelling, and unless syncs of the game overlapped they are every    *)
(* unlock sent since the last reset, each at its earliest time.            *)
UnlocksKept ==
    \A g \in Games :
        /\ Cardinality(Names(unlocks[g])) = Len(unlocks[g])
        /\ g \notin raced =>
            {<<Upper[unlocks[g][i].name], unlocks[g][i].time>> : i \in DOMAIN unlocks[g]}
              = {<<n, Min({a[2] : a \in {b \in accepted[g] : b[1] = n}})>> :
                    n \in {a[1] : a \in accepted[g]}}

(* One picture per unlock: two ready souvenirs of a game never share an    *)
(* achievement, unless two claims for the game overlapped.                 *)
OneCapturePerUnlock ==
    \A s, o \in rows :
        s # o /\ Ready(s) /\ Ready(o) /\ filed[s].game = filed[o].game
              /\ filed[s].game \notin clashed
            => filed[s].names \cap filed[o].names = {}

(* A souvenir the launcher was told is stored goes on being shown for its  *)
(* game, with its picture on disk, until somebody removes it - whatever    *)
(* uploads, syncs, sweeps and crashes follow - except one that the sweep   *)
(* had listed before it was claimed.                                       *)
FiledStaysFiled ==
    \A s \in acked \ given : s \in Shown(filed[s].game) \cap disk
=============================================================================
