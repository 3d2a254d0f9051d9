------------------------------ MODULE MCServer ------------------------------
(* Server for TLC: one of its parts moves in a behaviour, as in MCSaves,   *)
(* so that their states add up and do not multiply.                        *)
EXTENDS Server, TLC

CONSTANTS k1, k2, c1, c2, c3, u1
VARIABLE focus

Months == <<31, 28, 31, 30, 31, 30, 31, 31, 30, 31, 30, 31,
            31, 29, 31, 30, 31, 30, 31, 31, 30, 31, 30, 31,
            31, 28, 31, 30>>
Timer(unit, counts, at, weekday, day) ==
    {[unit |-> unit, count |-> c, at |-> at, weekday |-> weekday, day |-> day] : c \in counts}
Timers ==
    Timer("minute", {1, 2, 300}, 0, 0, 1) \cup Timer("hour", {0, 9}, 0, 0, 1)
    \cup Timer("day", {1, 3, 900}, 1, 0, 1) \cup Timer("week", {1, 2}, 0, 6, 1)
    \cup UNION {Timer("month", {1, 2, 6, 13}, 3, 0, day) : day \in {1, 30, 31, 32}}
Still == [unit |-> "day", count |-> 1, at |-> 1, weekday |-> 0, day |-> 1]

Components == {"accounts", "presence", "guard", "pictures", "backups", "webhooks", "calendar"}

MCInit ==
    /\ focus \in Components
    /\ ServerInit
    /\ focus # "pictures" => place = "banner"
    /\ focus # "calendar" => timer = Still /\ due = 1

MCNext ==
    /\ \/ focus = "accounts" /\ AccountsStep
       \/ focus = "presence" /\ PresenceStep
       \/ focus = "guard" /\ GuardStep
       \/ focus = "pictures" /\ PicturesStep
       \/ focus = "backups" /\ BackupsStep
       \/ focus = "webhooks" /\ WebhooksStep
       \/ focus = "calendar" /\ CalendarStep
    /\ UNCHANGED focus

MCSpec == MCInit /\ [][MCNext]_<<focus, allVars>>

Symmetry ==
    {f @@ g @@ h : f \in Permutations(Callers), g \in Permutations({k1, k2}),
                   h \in Permutations({c1, c2, c3})}
=============================================================================
