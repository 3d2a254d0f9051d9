------------------------------- MODULE Presence -------------------------------
(***************************************************************************)
(* Who is around (src/presence.rs, and touch of src/auth.rs after it): a   *)
(* request is an arrival when the user was away for the idle window.  The  *)
(* map in memory is read under its read lock, then written under its write *)
(* lock; when it knows nothing the row is asked; then the row is bumped.   *)
(* One user.                                                               *)
(***************************************************************************)
EXTENDS Integers

CONSTANTS
    Calls,    \* requests in flight
    Refresh,  \* REFRESH_SECONDS, in ticks
    Window,   \* presence_idle_minutes, in ticks
    LongAgo   \* where a clock stops: no age is told apart beyond it

VARIABLES
    seen,       \* ticks since the entry in memory, or Never
    lastSeen,   \* ticks since users.last_seen_at
    call,       \* what each request is doing
    quiet,      \* ticks since a request was last let in (history)
    announced   \* user.online events since the user was last away (history)

vars == <<seen, lastSeen, call, quiet, announced>>

Never == -1
Idle == [pc |-> "idle"]
At(c, pc) == call[c].pc = pc
Goto(c, state) == call' = [call EXCEPT ![c] = state]
Older(age) == IF age = Never \/ age = LongAgo THEN age ELSE age + 1

Init ==
    /\ seen = Never /\ lastSeen = LongAgo
    /\ call = [c \in Calls |-> Idle]
    /\ quiet = LongAgo /\ announced = 0

(* Time passes, and requests are short: none stays in flight for a tick.   *)
Tick ==
    /\ \A c \in Calls : At(c, "idle")
    /\ seen' = Older(seen) /\ lastSeen' = Older(lastSeen) /\ quiet' = Older(quiet)
    /\ announced' = IF quiet' >= Window THEN 0 ELSE announced
    /\ UNCHANGED call

(* The hot path touches nothing but the read lock.                         *)
Look(c) ==
    /\ At(c, "idle")
    /\ Goto(c, [pc |-> IF seen # Never /\ seen < Refresh THEN "bump" ELSE "enter"])
    /\ UNCHANGED <<seen, lastSeen, quiet, announced>>

(* The write lock: entries past the window go, then HashMap::insert tells  *)
(* what was there.                                                         *)
ReadLocked(c) == Never  \* mutant: what the read lock saw stands
Previous(c) == IF seen # Never /\ seen < Window THEN seen ELSE Never

Enter(c) ==
    /\ At(c, "enter")
    /\ seen' = 0
    /\ Goto(c, IF Previous(c) = Never THEN [pc |-> "ask"] ELSE [pc |-> "bump"])
    /\ UNCHANGED <<lastSeen, quiet, announced>>

(* What the row remembers decides when memory does not.                    *)
Ask(c) ==
    /\ At(c, "ask")
    /\ announced' = IF lastSeen >= Window THEN announced + 1 ELSE announced
    /\ Goto(c, [pc |-> "bump"])
    /\ UNCHANGED <<seen, lastSeen, quiet>>

Bump(c) ==
    /\ At(c, "bump")
    /\ lastSeen' = 0 /\ quiet' = 0
    /\ Goto(c, Idle)
    /\ UNCHANGED <<seen, announced>>

(* The server restarts: the map is empty, the rows are not.  What was      *)
(* announced ahead of a bump that never came is forgiven.                  *)
Restart ==
    /\ seen' = Never
    /\ call' = [c \in Calls |-> Idle]
    /\ announced' = IF \A c \in Calls : At(c, "idle") THEN announced ELSE 0
    /\ UNCHANGED <<lastSeen, quiet>>

Next ==
    \/ Tick \/ Restart
    \/ \E c \in Calls : Look(c) \/ Enter(c) \/ Ask(c) \/ Bump(c)

Spec == Init /\ [][Next]_vars

-----------------------------------------------------------------------------
Ages == 0..LongAgo

(* Everything has its type (the presence map and users.last_seen_at).      *)
TypeOK ==
    /\ seen \in Ages \cup {Never} /\ lastSeen \in Ages /\ quiet \in Ages
    /\ call \in [Calls -> {Idle} \cup [pc : {"enter", "ask", "bump"}]]
    /\ announced \in Nat

(* An arrival is announced at most once, however many requests a launcher  *)
(* opens with and whatever a restart forgets, as presence.rs means by      *)
(* "coming online is the first call" - unless the restart comes between    *)
(* the announcement and the bump.                                          *)
AnnouncedOnce == announced <= 1
=============================================================================
