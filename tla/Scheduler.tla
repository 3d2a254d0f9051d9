----------------------------- MODULE Scheduler -----------------------------
(***************************************************************************)
(* The housekeeping schedule of hydra-server (src/schedule.rs with the     *)
(* triggers of src/triggers.rs): one loop that wakes every 30 seconds,     *)
(* asks each task's row whether a trigger fires and runs the ones that do, *)
(* one after another; operators who run a task by hand and edit its row    *)
(* meanwhile; a server that may restart at any point.                      *)
(*                                                                         *)
(* The code only ever compares timestamps, so they are kept as their rank  *)
(* among the timestamps in use, and next_run_at as ahead of the clock or   *)
(* due.  Delays, gaps and measured thresholds are a choice of each tick:   *)
(* the tasks for which they let a trigger through.                         *)
(***************************************************************************)
EXTENDS Naturals, FiniteSets, Functions

CONSTANTS
    Jobs,        \* the schedulable jobs, in the order of jobs::JOBS
    Parent,      \* the task an AfterTask trigger of each task names
    Schedules,   \* the sets of triggers an operator may save
    Operators,   \* slots for requests of the admin panel
    Loop,        \* the slot of the scheduler itself
    EditsDuringRuns, \* whether a row may be edited while its task runs
    MaxIncidents \* bound on edits, restarts, lost writes and hung-up clients

Tasks == Range(Jobs)
Runners == Operators \cup {Loop}
Kinds == {"every", "startup", "after", "event", "condition"}

ASSUME JobsAssumption == Parent \in [Tasks -> Tasks]
ASSUME SchedulesAssumption == Schedules \subseteq SUBSET Kinds /\ Schedules # {}
ASSUME RunnersAssumption == Loop \notin Operators
ASSUME LimitsAssumption == EditsDuringRuns \in BOOLEAN /\ MaxIncidents \in Nat

VARIABLES
    enabled,     \* scheduled_tasks.enabled
    triggers,    \* the kinds of its triggers
    nextRun,     \* its next_run_at: "none", "ahead" of the clock or "due"
    lastRun,     \* its last_run_at, the start of the run; Never is NULL
    lastOk,      \* last_status = 'ok'
    bootedAt,    \* AppState.started_at
    lastEvent,   \* the latest event an OnEvent trigger listens for
    running,     \* AppState.running_tasks
    queue,       \* the tasks left in the tick's list of due ones
    run,         \* what each runner is doing
    incidents    \* edits, restarts, lost writes, hung-up clients so far

row   == <<enabled, triggers, nextRun, lastOk>>
times == <<lastRun, bootedAt, lastEvent>>
vars  == <<enabled, triggers, nextRun, lastRun, lastOk, bootedAt, lastEvent,
           running, queue, run, incidents>>

Never == 0
Idle == [pc |-> "idle"]
Timed   == {"job", "save"}  \* the run still holds its start
Working == Timed \cup {"announce"}

At(s, pc) == run[s].pc = pc
Holders(t) == {s \in Runners : run[s].pc \in Working /\ run[s].task = t}

(* Task::next_timer_run, for an enabled task.                              *)
NextTimerRun(on, kinds) == IF on /\ "every" \in kinds THEN "ahead" ELSE "none"

(* A server coming up on rows that are there: ensure_rows leaves them.     *)
Init ==
    /\ enabled \in [Tasks -> BOOLEAN]
    /\ triggers \in [Tasks -> Schedules]
    /\ nextRun = [t \in Tasks |-> NextTimerRun(enabled[t], triggers[t])]
    /\ lastRun = [t \in Tasks |-> Never]
    /\ lastOk = [t \in Tasks |-> FALSE]
    /\ bootedAt = 1
    /\ lastEvent = Never
    /\ running = {}
    /\ queue = {}
    /\ run = [s \in Runners |-> Idle]
    /\ incidents = 0

Incident == incidents < MaxIncidents /\ incidents' = incidents + 1

-----------------------------------------------------------------------------
(* Timestamps.                                                             *)

Stamps(last, boot, event, runs) ==
    Range(last) \cup {Never, boot, event}
    \cup {runs[s].started : s \in {r \in Runners : runs[r].pc \in Timed}}

Now == Cardinality(Stamps(lastRun, bootedAt, lastEvent, run))

(* The next values of everything that holds a timestamp.                   *)
Stamped(last, boot, event, runs) ==
    LET T == Stamps(last, boot, event, runs)
        Rank(x) == Cardinality({y \in T : y < x}) IN
    /\ lastRun' = [t \in Tasks |-> Rank(last[t])]
    /\ bootedAt' = Rank(boot)
    /\ lastEvent' = Rank(event)
    /\ run' = [s \in Runners |->
                 IF runs[s].pc \in Timed THEN [runs[s] EXCEPT !.started = Rank(@)]
                 ELSE runs[s]]

Goto(s, state) == Stamped(lastRun, bootedAt, lastEvent, [run EXCEPT ![s] = state])

-----------------------------------------------------------------------------
(* The tick.                                                               *)

(* asking_to_run: the first trigger that fires; which one does not matter  *)
(* to the run.  passed are the tasks whose delay or gap has elapsed, and   *)
(* whose threshold is crossed.  last_run_at is when the parent started.    *)
Asks(t, passed) ==
    /\ enabled[t]
    /\ \/ "every" \in triggers[t] /\ nextRun[t] = "due"
       \/ /\ t \in passed
          /\ \/ "startup" \in triggers[t] /\ lastRun[t] < bootedAt
             \/ "after" \in triggers[t] /\ lastOk[Parent[t]] /\ lastRun[Parent[t]] > lastRun[t]
             \/ "event" \in triggers[t] /\ lastEvent > lastRun[t]
             \/ "condition" \in triggers[t]

(* due reads the rows together and a parent's row or the events a moment   *)
(* later; the list is then as old as the runs before each entry are long.  *)
Tick(passed) ==
    /\ At(Loop, "idle") /\ queue = {}
    /\ queue' = {t \in Tasks : Asks(t, passed)}
    /\ queue' # {}
    /\ UNCHANGED <<row, times, running, run, incidents>>

-----------------------------------------------------------------------------
(* schedule::run.                                                          *)

BeingEdited(t) == \E s \in Operators : At(s, "edit") /\ run[s].task = t
BeingRun(t) == \E s \in Runners : run[s].pc \in Working \cup {"claim"} /\ run[s].task = t

(* It reads the row before it has the claim.                               *)
Begin(s, t) ==
    /\ At(s, "idle")
    /\ EditsDuringRuns \/ ~BeingEdited(t)
    /\ Goto(s, [pc |-> "claim", task |-> t, enabled |-> enabled[t], triggers |-> triggers[t]])
    /\ UNCHANGED <<row, running, incidents>>

Before(t, u) ==
    \E i, j \in DOMAIN Jobs : i < j /\ Jobs[i] = t /\ Jobs[j] = u

(* The list is in the order of jobs::JOBS.                                 *)
RunDue ==
    \E t \in queue :
        /\ \A u \in queue : ~Before(u, t)
        /\ Begin(Loop, t)
        /\ queue' = queue \ {t}

RunByHand(s, t) == s \in Operators /\ Begin(s, t) /\ UNCHANGED queue

Unclaimed(t) == TRUE  \* mutant
Claimable(t) == t \notin running

Take(s) ==
    /\ At(s, "claim")
    /\ IF Claimable(run[s].task)
       THEN /\ running' = running \cup {run[s].task}
            /\ Goto(s, [pc |-> "job", task |-> run[s].task, enabled |-> run[s].enabled,
                        triggers |-> run[s].triggers, started |-> Now, ok |-> FALSE])
       ELSE Goto(s, Idle) /\ UNCHANGED running  \* 409
    /\ UNCHANGED <<row, queue, incidents>>

(* jobs::run.                                                              *)
Work(s) ==
    /\ At(s, "job")
    /\ \E ok \in BOOLEAN : Goto(s, [run[s] EXCEPT !.pc = "save", !.ok = ok])
    /\ UNCHANGED <<row, running, queue, incidents>>

(* The row learns the outcome, and the next run the row read at the start  *)
(* asks for.                                                               *)
NeverRearmed(q) == "none"  \* mutant
Rearmed(q) == NextTimerRun(q.enabled, q.triggers)

Announcing(q) == [pc |-> "announce", task |-> q.task]

NotStamped(q) == lastRun[q.task]  \* mutant
StartOf(q) == q.started

Save(s) ==
    /\ At(s, "save")
    /\ LET q == run[s] IN
        /\ nextRun' = [nextRun EXCEPT ![q.task] = Rearmed(q)]
        /\ lastOk' = [lastOk EXCEPT ![q.task] = q.ok]
        /\ Stamped([lastRun EXCEPT ![q.task] = StartOf(q)], bootedAt, lastEvent,
                   [run EXCEPT ![s] = Announcing(q)])
    /\ UNCHANGED <<enabled, triggers, running, queue, incidents>>

(* The UPDATE fails: a warning in the log, and the run goes on.            *)
SaveFails(s) ==
    /\ At(s, "save")
    /\ Incident
    /\ Goto(s, Announcing(run[s]))
    /\ UNCHANGED <<row, running, queue>>

(* The event of the run, which a trigger may itself listen for; the claim  *)
(* goes with the end of the function.                                      *)
KeepsClaim(q) == running  \* mutant
ClearsAll(q) == {}  \* mutant
Unclaim(q) == running \ {q.task}

Announce(s) ==
    /\ At(s, "announce")
    /\ \E event \in {lastEvent, Now} :
        Stamped(lastRun, bootedAt, event, [run EXCEPT ![s] = Idle])
    /\ running' = Unclaim(run[s])
    /\ UNCHANGED <<row, queue, incidents>>

(* The operator's browser hangs up: axum drops the handler where it is,    *)
(* and the claim with it.                                                  *)
HangUp(s) ==
    /\ s \in Operators /\ ~At(s, "idle")
    /\ Incident
    /\ running' = IF run[s].pc \in Working THEN Unclaim(run[s]) ELSE running
    /\ Goto(s, Idle)
    /\ UNCHANGED <<row, queue>>

-----------------------------------------------------------------------------
(* schedule::update: the panel sends either the switch or the triggers, so *)
(* the other one is what the row held when it was read.                    *)

EditRead(s, t, on, kinds) ==
    /\ At(s, "idle")
    /\ Incident
    /\ EditsDuringRuns \/ ~BeingRun(t)
    /\ on = enabled[t] \/ kinds = triggers[t]
    /\ Goto(s, [pc |-> "edit", task |-> t, enabled |-> on, triggers |-> kinds])
    /\ UNCHANGED <<row, running, queue>>

KeepsNextRun(q) == nextRun[q.task]  \* mutant
Rescheduled(q) == NextTimerRun(q.enabled, q.triggers)

EditSave(s) ==
    /\ At(s, "edit")
    /\ LET q == run[s] IN
        /\ enabled' = [enabled EXCEPT ![q.task] = q.enabled]
        /\ triggers' = [triggers EXCEPT ![q.task] = q.triggers]
        /\ nextRun' = [nextRun EXCEPT ![q.task] = Rescheduled(q)]
    /\ Goto(s, Idle)
    /\ UNCHANGED <<lastOk, running, queue, incidents>>

-----------------------------------------------------------------------------
(* The environment.                                                        *)

TimeComes(t) ==
    /\ nextRun[t] = "ahead"
    /\ nextRun' = [nextRun EXCEPT ![t] = "due"]
    /\ UNCHANGED <<enabled, triggers, lastOk, times, running, queue, run, incidents>>

EventHappens ==
    /\ \E t \in Tasks : "event" \in triggers[t]
    /\ Stamped(lastRun, bootedAt, Now, run)
    /\ UNCHANGED <<row, running, queue, incidents>>

(* The process dies with every run, the claims and the list of the tick.   *)
Restart ==
    /\ Incident
    /\ running' = {}
    /\ queue' = {}
    /\ Stamped(lastRun, Now, lastEvent, [s \in Runners |-> Idle])
    /\ UNCHANGED row

-----------------------------------------------------------------------------
LoopStep == RunDue \/ Take(Loop) \/ Work(Loop) \/ Save(Loop) \/ Announce(Loop)

HandStep(s) == Take(s) \/ Work(s) \/ Save(s) \/ Announce(s) \/ EditSave(s)

Next ==
    \/ \E passed \in SUBSET Tasks : Tick(passed)
    \/ LoopStep \/ SaveFails(Loop)
    \/ \E s \in Operators :
        \/ HandStep(s) \/ SaveFails(s) \/ HangUp(s)
        \/ \E t \in Tasks : RunByHand(s, t)
        \/ \E t \in Tasks, on \in BOOLEAN, kinds \in Schedules : EditRead(s, t, on, kinds)
    \/ \E t \in Tasks : TimeComes(t)
    \/ EventHappens
    \/ Restart

Spec == Init /\ [][Next]_vars

(* Time passes, the loop wakes and what it started goes on; a delay that   *)
(* has elapsed stays elapsed, so a tick that sees it comes sooner or later. *)
(* Operators and events owe nothing.                                       *)
Fairness ==
    /\ WF_vars(LoopStep)
    /\ \A s \in Operators : WF_vars(HandStep(s))
    /\ \A t \in Tasks : WF_vars(TimeComes(t))
    /\ \A t \in Tasks :
        SF_vars(\E passed \in SUBSET Tasks : t \in passed /\ Asks(t, passed) /\ Tick(passed))

FairSpec == Spec /\ Fairness

-----------------------------------------------------------------------------
RunStates ==
    {Idle}
    \cup [pc : {"claim", "edit"}, task : Tasks, enabled : BOOLEAN, triggers : Schedules]
    \cup [pc : Timed, task : Tasks, enabled : BOOLEAN, triggers : Schedules,
          started : Nat, ok : BOOLEAN]
    \cup [pc : {"announce"}, task : Tasks]

(* The type of every row, of the claims and of every runner.               *)
TypeOK ==
    /\ enabled \in [Tasks -> BOOLEAN]
    /\ triggers \in [Tasks -> Schedules]
    /\ nextRun \in [Tasks -> {"none", "ahead", "due"}]
    /\ lastRun \in [Tasks -> Nat]
    /\ lastOk \in [Tasks -> BOOLEAN]
    /\ bootedAt \in Nat /\ lastEvent \in Nat
    /\ running \in SUBSET Tasks
    /\ queue \in SUBSET Tasks
    /\ run \in [Runners -> RunStates]
    /\ incidents \in 0..MaxIncidents

(* A job never runs twice at the same time, whoever starts it, hangs up or *)
(* restarts the server.                                                    *)
OneRunAtATime == \A t \in Tasks : \A r, s \in Holders(t) : r = s

(* A task is claimed exactly while a run of it is under way: a claim left  *)
(* behind would refuse every later run until a restart.                    *)
ClaimsAreLive == running = {t \in Tasks : Holders(t) # {}}

(* A run never records itself over one that started after it: last_run_at  *)
(* only moves forward.                                                     *)
RunsInOrder ==
    \A s \in Runners : run[s].pc \in Timed => lastRun[run[s].task] < run[s].started

(* next_run_at says whether the timer will come for the task: it is set    *)
(* while the task is on and has a timer, and NULL otherwise.               *)
NextRunFollowsRow ==
    \A t \in Tasks :
        (nextRun[t] = "none") <=> ~(enabled[t] /\ "every" \in triggers[t])

Starts(t) == \E s \in Runners : At(s, "job") /\ run[s].task = t

(* A task with a timer is run again and again for as long as it is on,     *)
(* whatever runs, writes and restarts fail in between.                     *)
TimerFires ==
    \A t \in Tasks :
        (enabled[t] /\ "every" \in triggers[t]) ~>
            (Starts(t) \/ ~enabled[t] \/ "every" \notin triggers[t])

(* A task with a startup trigger gets its run in every life of the server. *)
StartupFires ==
    \A t \in Tasks :
        (enabled[t] /\ "startup" \in triggers[t] /\ lastRun[t] < bootedAt) ~>
            (lastRun[t] > bootedAt \/ ~enabled[t] \/ "startup" \notin triggers[t])

=============================================================================
