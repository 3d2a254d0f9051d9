------------------------------- MODULE Profiles -------------------------------
(***************************************************************************)
(* SouvenirReports beside Souvenirs, LinkedAchievements and Profile.  They *)
(* share no state that the others change: a step is a step of one of them. *)
(***************************************************************************)
EXTENDS SouvenirReports, Integers, Sequences

CONSTANTS
    Shots, ClientOf, Games, Upper, Payloads,                 \* of Souvenirs
    Copies, LinkSets, Catalogue, UnlockRows,                 \* of LinkedAchievements
    Library, ShopOf, Imported, MaxDelta, MaxRecorded, RecentGames  \* of Profile

(* MAX_DELTA_SECONDS is a day.                                             *)
ASSUME MaxDeltaAssumption == MaxDelta \in Nat \ {0}

(* What a launcher sends: a game, and entries with a time, late if missing. *)
UnlockEntries == [name : DOMAIN Upper \cup {"none"}, time : Int]
ASSUME PayloadsAssumption ==
    \A p \in Payloads : p.game \in Games /\ p.entries \in Seq(UnlockEntries)

(* What a catalogue lists, in each of the copies, and what is stored of    *)
(* their unlocks.                                                          *)
CatalogueEntries ==
    [name : DOMAIN Upper \cup {"none"}, display : STRING, ext : DOMAIN Upper \cup {"none"}]
ASSUME CatalogueAssumption ==
    /\ Len(Copies) \in Nat /\ DOMAIN Copies = 1..Len(Copies)
    /\ \A n \in DOMAIN Copies : /\ Catalogue[Copies[n]] \subseteq Seq(CatalogueEntries)
                               /\ UnlockRows[Copies[n]] \in Seq(Seq(UnlockEntries))

VARIABLES
    known, shotRows, filed, shotUploaded, shotDisk, trash, sweep, unlocks, sync,
    accepted, raced, clashed, acked, given,
    links, cached, view,
    seconds, unlocked, captured, clock, hidden, viewing, open

Ach == INSTANCE Souvenirs
    WITH rows <- shotRows, uploaded <- shotUploaded, disk <- shotDisk, Syncs <- Workers
Lnk == INSTANCE LinkedAchievements WITH Rows <- UnlockRows
Pro == INSTANCE Profile WITH Games <- Library

repVars == vars
achVars == <<known, shotRows, filed, shotUploaded, shotDisk, trash, sweep, unlocks,
             sync, accepted, raced, clashed, acked, given>>
lnkVars == <<links, cached, view>>
proVars == <<seconds, unlocked, captured, clock, hidden, viewing, open>>
allVars == <<repVars, achVars, lnkVars, proVars>>

ProfilesInit == Init /\ Ach!Init /\ Lnk!Init /\ Pro!Init

ReportsStep == Next /\ UNCHANGED <<achVars, lnkVars, proVars>>
SouvenirsStep == Ach!Next /\ UNCHANGED <<repVars, lnkVars, proVars>>
LinksStep == Lnk!Next /\ UNCHANGED <<repVars, achVars, proVars>>
ProfileStep == Pro!Next /\ UNCHANGED <<repVars, achVars, lnkVars>>

ProfilesNext == ReportsStep \/ SouvenirsStep \/ LinksStep \/ ProfileStep

ProfilesSpec == ProfilesInit /\ [][ProfilesNext]_allVars

-----------------------------------------------------------------------------
(* The stored unlocks are the union of what was sent, earliest times kept. *)
UnlocksKept == Ach!UnlocksKept

(* Two souvenirs of a game never show one achievement.                     *)
OneCapturePerUnlock == Ach!OneCapturePerUnlock

(* An acknowledged souvenir stays ready, with its picture on disk.         *)
FiledStaysFiled == Ach!FiledStaysFiled

(* The combined list says of every copy what the copy says.                *)
CombinedIsWhole == Lnk!CombinedIsWhole

(* What is played of a hidden game shows on none of the pages that ask for *)
(* the hidden games: the heat map, the recent unlocks and, but for rows    *)
(* synced without a shop, the statistics.                                  *)
PlayedInHidingStaysHidden == Pro!PlayedInHidingStaysHidden

=============================================================================
