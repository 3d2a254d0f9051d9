-------------------------------- MODULE Server --------------------------------
(***************************************************************************)
(* Accounts beside Presence, LoginGuard, Pictures, DatabaseBackups,        *)
(* Webhooks and Calendar.  They share no state: a step of the server is a  *)
(* step of one of them.                                                    *)
(***************************************************************************)
EXTENDS Accounts, Integers, Sequences

CONSTANTS
    Refresh, IdleWindow, LongAgo,                       \* of Presence
    MaxAttempts, Lockout, MissWindow,                   \* of LoginGuard
    Keys,                                               \* of Pictures
    CopyNames, UploadNames, KEEP, MaxChanges,           \* of DatabaseBackups
    FAILURE_LIMIT,                                      \* of Webhooks
    Day, Hour, MinGap, MonthLengths, Offered, Delays    \* of Calendar

(* touch returns at once when the window is not positive.                  *)
ASSUME IdleWindowAssumption == IdleWindow \in Nat \ {0} /\ LongAgo \in Nat

(* record_failure takes at least 1 for either setting.                     *)
ASSUME GuardAssumption ==
    MaxAttempts \in Nat \ {0} /\ Lockout \in Nat \ {0} /\ MissWindow \in Nat \ {0}

(* FAILURE_LIMIT is 20.                                                    *)
ASSUME FailureLimitAssumption == FAILURE_LIMIT \in Nat \ {0}

(* prune keeps at least one backup, whatever backup_keep is.               *)
ASSUME KeepAssumption == KEEP \in Nat \ {0}

VARIABLES
    seen, lastSeen, call, quiet, announced,
    entry, try, misses,
    place, signed, disk, shown, sized, picWork, found, claims, orphaned,
    data, stamp, files, dbWork,
    hook, count, task, hand, run, worn,
    timer, due, last

Pre == INSTANCE Presence WITH Calls <- Callers, Window <- IdleWindow
Grd == INSTANCE LoginGuard WITH Attempts <- Callers, Window <- MissWindow
Pic == INSTANCE Pictures WITH work <- picWork, Workers <- Callers
Bak == INSTANCE DatabaseBackups WITH work <- dbWork, Workers <- Callers
Hks == INSTANCE Webhooks WITH row <- hook, Tasks <- Callers
Cal == INSTANCE Calendar

(* Time passes, and the months are those of a calendar.                    *)
ASSUME CalendarAssumption ==
    /\ Day \in Nat \ {0} /\ Hour \in Nat \ {0} /\ MinGap \in Nat /\ Delays \subseteq Nat
    /\ MonthLengths \in Seq(28..31) /\ Len(MonthLengths) > 14
    /\ \A t \in Offered :
        t.count \in Int /\ t.unit \in {"minute", "hour", "day", "week", "month"}

(* NoKey is NULL.                                                          *)
ASSUME KeysAssumption == Pic!NoKey \notin Keys

accVars == vars
preVars == <<seen, lastSeen, call, quiet, announced>>
grdVars == <<entry, try, misses>>
picVars == <<place, signed, disk, shown, sized, picWork, found, claims, orphaned>>
bakVars == <<data, stamp, files, dbWork>>
hksVars == <<hook, count, task, hand, run, worn>>
calVars == <<timer, due, last>>
allVars == <<accVars, preVars, grdVars, picVars, bakVars, hksVars, calVars>>

ServerInit ==
    Init /\ Pre!Init /\ Grd!Init /\ Pic!Init /\ Bak!Init /\ Hks!Init /\ Cal!Init

AccountsStep ==
    Next /\ UNCHANGED <<preVars, grdVars, picVars, bakVars, hksVars, calVars>>
PresenceStep ==
    Pre!Next /\ UNCHANGED <<accVars, grdVars, picVars, bakVars, hksVars, calVars>>
GuardStep ==
    Grd!Next /\ UNCHANGED <<accVars, preVars, picVars, bakVars, hksVars, calVars>>
PicturesStep ==
    Pic!Next /\ UNCHANGED <<accVars, preVars, grdVars, bakVars, hksVars, calVars>>
BackupsStep ==
    Bak!Next /\ UNCHANGED <<accVars, preVars, grdVars, picVars, hksVars, calVars>>
WebhooksStep ==
    Hks!Next /\ UNCHANGED <<accVars, preVars, grdVars, picVars, bakVars, calVars>>
CalendarStep ==
    Cal!Next /\ UNCHANGED <<accVars, preVars, grdVars, picVars, bakVars, hksVars>>

ServerNext ==
    \/ AccountsStep \/ PresenceStep \/ GuardStep \/ PicturesStep
    \/ BackupsStep \/ WebhooksStep \/ CalendarStep

ServerSpec == ServerInit /\ [][ServerNext]_allVars

-----------------------------------------------------------------------------
(* An arrival is announced at most once.                                   *)
AnnouncedOnce == Pre!AnnouncedOnce

(* The misses of a window are bounded, however sign-ins overlap.           *)
GuessesBounded == Grd!GuessesBounded

(* The picture a profile names, and whose file was there, is on disk.      *)
PictureIsThere == Pic!PictureIsThere

(* A restore about to swap has its source and a backup to go back to.      *)
RestoreIsReversible == Bak!RestoreIsReversible

(* A webhook is switched off after a run of failures, and only then.       *)
SwitchedOffAfterARun == Hks!SwitchedOffAfterARun

(* A timer keeps its place on the calendar and its step.                   *)
RunsKeepTheirStep == Cal!RunsKeepTheirStep
=============================================================================
