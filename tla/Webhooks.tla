------------------------------- MODULE Webhooks -------------------------------
(***************************************************************************)
(* Outbound webhooks (src/webhooks.rs, src/admin/webhooks.rs): an event is *)
(* handed to a task for the hooks that are enabled when it is recorded,    *)
(* and the task posts it and writes down the answer.  Answers of different *)
(* events arrive in any order, among the operator's edits.  One hook, whose *)
(* filters match every event.                                              *)
(***************************************************************************)
EXTENDS Naturals

CONSTANTS
    Tasks,         \* deliveries in flight at once
    FAILURE_LIMIT

VARIABLES
    row,     \* "none", "off" or "on": the row in webhooks and its enabled
    count,   \* failure_count
    task,    \* "idle", or "post" before the answer is written down
    hand,    \* what the operator last made of the hook (history)
    run,     \* failures since a success or since a hand set it on: of the
             \* deliveries, and of these and the tests (history)
    worn     \* how long a run it was that switched it off (history)

history == <<hand, run, worn>>
vars == <<row, count, task, history>>

NoRun == [deliveries |-> 0, all |-> 0]

Init ==
    /\ row = "none" /\ count = 0
    /\ task = [t \in Tasks |-> "idle"]
    /\ hand = "none" /\ run = NoRun /\ worn = 0

(* dispatch, on the path that records an event.                            *)
Dispatch(t) ==
    /\ task[t] = "idle" /\ row = "on"
    /\ task' = [task EXCEPT ![t] = "post"]
    /\ UNCHANGED <<row, count, history>>

(* deliver's UPDATE, by the id the hook had; a hook removed since has none.*)
Delivered(t) ==
    /\ task[t] = "post"
    /\ task' = [task EXCEPT ![t] = "idle"]
    /\ count' = 0 /\ run' = NoRun
    /\ UNCHANGED <<row, hand, worn>>

Exhausted(failures) == failures >= FAILURE_LIMIT

Failed(t) ==
    /\ task[t] = "post"
    /\ task' = [task EXCEPT ![t] = "idle"]
    /\ IF row = "none" THEN UNCHANGED <<row, count, run, worn>>
       ELSE /\ count' = count + 1
            /\ run' = [deliveries |-> run.deliveries + 1, all |-> run.all + 1]
            /\ row' = IF Exhausted(count + 1) THEN "off" ELSE row
            /\ worn' = IF row = "on" /\ row' = "off" THEN run'.all ELSE worn
    /\ UNCHANGED hand

-----------------------------------------------------------------------------
(* The operator: create, update, remove.  Setting it on is a fresh start.  *)
OldCount(enabled) == count  \* mutant: the count survives the repair
FreshCount(enabled) == IF enabled = "on" THEN 0 ELSE count

Create(enabled) ==
    /\ row = "none"
    /\ \A t \in Tasks : task[t] = "idle"  \* a new id: no task holds it
    /\ row' = enabled /\ hand' = enabled
    /\ count' = 0 /\ run' = NoRun /\ worn' = 0
    /\ UNCHANGED task

Update(enabled) ==
    /\ row # "none"  \* else 404
    /\ row' = enabled /\ hand' = enabled
    /\ count' = FreshCount(enabled)
    /\ run' = IF enabled = "on" THEN NoRun ELSE run
    /\ UNCHANGED <<task, worn>>

Remove ==
    /\ row # "none"  \* else 404
    /\ row' = "none" /\ hand' = "none"
    /\ count' = 0 /\ run' = NoRun /\ worn' = 0
    /\ UNCHANGED task

(* test: a success clears the count, a failure adds to it and disables     *)
(* nothing.                                                                *)
Test(ok) ==
    /\ row # "none" /\ count < FAILURE_LIMIT  \* bound
    /\ count' = IF ok THEN 0 ELSE count + 1
    /\ run' = IF ok THEN NoRun ELSE [run EXCEPT !.all = @ + 1]
    /\ UNCHANGED <<row, task, hand, worn>>

Restart ==
    /\ task' = [t \in Tasks |-> "idle"]
    /\ UNCHANGED <<row, count, history>>

Next ==
    \/ \E t \in Tasks : Dispatch(t) \/ Delivered(t) \/ Failed(t)
    \/ \E enabled \in {"on", "off"} : Create(enabled) \/ Update(enabled)
    \/ Remove
    \/ \E ok \in BOOLEAN : Test(ok)
    \/ Restart

Spec == Init /\ [][Next]_vars

-----------------------------------------------------------------------------
(* Everything has its type (the table webhooks and the tasks).             *)
TypeOK ==
    /\ row \in {"none", "off", "on"} /\ hand \in {"none", "off", "on"}
    /\ count \in Nat /\ worn \in Nat /\ run \in [deliveries : Nat, all : Nat]
    /\ task \in [Tasks -> {"idle", "post"}]

(* webhooks.rs: "a hook that fails this many times in a row is switched    *)
(* off" - no later, and, when the operator wanted it on, no sooner,        *)
(* however deliveries, tests and edits overlap.                            *)
SwitchedOffAfterARun ==
    /\ row = "on" => run.deliveries < FAILURE_LIMIT
    /\ row = "off" /\ hand = "on" => worn >= FAILURE_LIMIT
=============================================================================
