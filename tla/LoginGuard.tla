------------------------------ MODULE LoginGuard ------------------------------
(***************************************************************************)
(* The brute-force guard of the two sign-in forms (src/ratelimit.rs, with  *)
(* login and fail of src/portal/session.rs and login of                    *)
(* src/admin/session.rs): a sign-in is checked, tried, and only then       *)
(* counted, so the ones in flight together are checked together.  One      *)
(* scope and one address; the clock moves by ticks.                        *)
(***************************************************************************)
EXTENDS Integers, Sequences, FiniteSets

CONSTANTS
    Attempts,     \* sign-ins in flight at once
    MaxAttempts,  \* login_max_attempts
    Lockout,      \* login_lockout_minutes, in ticks
    Window        \* WINDOW_MINUTES, in ticks

VARIABLES
    entry,   \* this address in the guard, or Nothing
    try,     \* what each sign-in is doing
    misses   \* ages of the misses of the last Window, newest last (history)

vars == <<entry, try, misses>>

Nothing == [failures |-> 0, age |-> Window, lock |-> 0]
At(a, pc) == try[a] = pc
Goto(a, pc) == try' = [try EXCEPT ![a] = pc]

Init ==
    /\ entry = Nothing
    /\ try = [a \in Attempts |-> "idle"]
    /\ misses = <<>>

(* check: refused while the lock has time left.                            *)
Locked == entry.lock > 0

Check(a) ==
    /\ At(a, "idle") /\ ~Locked  \* else 429
    /\ Goto(a, "try")
    /\ UNCHANGED <<entry, misses>>

(* The password is compared, or the official API answers: a miss, a        *)
(* success, or a request that is neither.  The portal's fail counts an API *)
(* that is down as a miss.                                                 *)
Try(a) ==
    /\ At(a, "try")
    /\ \E answer \in {"miss", "hit", "idle"} : Goto(a, answer)
    /\ UNCHANGED <<entry, misses>>

(* record_failure, under the write lock: an entry neither recent nor       *)
(* locked is gone, a window that is over starts anew.                      *)
Kept == IF entry.age < Window \/ Locked THEN entry ELSE Nothing
Counted ==
    IF Kept.age < Window THEN [Kept EXCEPT !.failures = @ + 1]
    ELSE [Kept EXCEPT !.failures = 1, !.age = 0]
OneTooMany(failures) == failures > MaxAttempts  \* mutant: off by one
LastStraw(failures) == failures >= MaxAttempts

RecordFailure(a) ==
    /\ At(a, "miss")
    /\ entry' = IF LastStraw(Counted.failures) THEN [Counted EXCEPT !.lock = Lockout] ELSE Counted
    /\ misses' = Append(misses, 0)
    /\ Goto(a, "idle")

(* record_success clears the slate, and the history with it.               *)
RecordSuccess(a) ==
    /\ At(a, "hit")
    /\ entry' = Nothing
    /\ misses' = <<>>
    /\ Goto(a, "idle")

(* Time passes; the oldest misses, which come first, leave the window.     *)
Older(age) == IF age < Window THEN age + 1 ELSE Window

Tick ==
    /\ entry' = [entry EXCEPT !.age = Older(@), !.lock = IF @ > 0 THEN @ - 1 ELSE 0]
    /\ \E gone \in 0..Len(misses) :
        /\ \A i \in DOMAIN misses : i <= gone <=> misses[i] + 1 >= Window
        /\ misses' = [i \in 1..(Len(misses) - gone) |-> misses[i + gone] + 1]
    /\ UNCHANGED try

(* The guard is in memory only.                                            *)
Restart ==
    /\ entry' = Nothing
    /\ try' = [a \in Attempts |-> "idle"]
    /\ misses' = <<>>

Next ==
    \/ \E a \in Attempts : Check(a) \/ Try(a) \/ RecordFailure(a) \/ RecordSuccess(a)
    \/ Tick \/ Restart

Spec == Init /\ [][Next]_vars

-----------------------------------------------------------------------------
(* Everything has its type (the guard of state.rs).                        *)
TypeOK ==
    /\ entry \in [failures : Nat, age : 0..Window, lock : 0..Lockout]
    /\ try \in [Attempts -> {"idle", "try", "miss", "hit"}]
    /\ misses \in Seq(0..(Window - 1))

(* However sign-ins overlap, an address that never gets in misses, in any  *)
(* WINDOW_MINUTES, at most what two adjoining windows of the counter allow *)
(* and once for every sign-in in flight - ratelimit.rs "locks an address   *)
(* out after too many misses" - so long as a lockout lasts a window.       *)
GuessesBounded ==
    Lockout >= Window => Len(misses) <= 2 * (MaxAttempts - 1) + Cardinality(Attempts)
=============================================================================
