-------------------------- MODULE SchedulerProofs --------------------------
(***************************************************************************)
(* Theorems about Scheduler, for every set of tasks, triggers and          *)
(* operators.  Only what next_run_at says assumes that a row is not edited *)
(* while its task runs.                                                    *)
(***************************************************************************)
EXTENDS Scheduler, FiniteSetTheorems, TLAPS

-----------------------------------------------------------------------------
(* Renumbering the timestamps changes no counter and no task: Stamped      *)
(* writes one field, of records that have it.                              *)

Shaped(q) ==
    q.pc \in Timed =>
        /\ {"pc", "task", "enabled", "triggers", "started"} \subseteq DOMAIN q
        /\ q = [x \in DOMAIN q |-> q[x]]

SameRun(p, q) ==
    p.pc = q.pc /\ p.task = q.task /\ p.enabled = q.enabled /\ p.triggers = q.triggers

LEMMA StampedRuns ==
    ASSUME NEW last, NEW boot, NEW event, NEW runs,
           \A s \in Runners : Shaped(runs[s]),
           Stamped(last, boot, event, runs)
    PROVE  /\ run' = [s \in Runners |-> run'[s]]
           /\ \A s \in Runners : SameRun(run'[s], runs[s]) /\ Shaped(run'[s])
<1> DEFINE Rank(x) == Cardinality({y \in Stamps(last, boot, event, runs) : y < x})
<1>1. run' = [s \in Runners |->
                IF runs[s].pc \in Timed THEN [runs[s] EXCEPT !.started = Rank(@)]
                ELSE runs[s]]
  BY DEF Stamped
<1> HIDE DEF Rank
<1>2. ASSUME NEW s \in Runners
      PROVE  SameRun(run'[s], runs[s]) /\ Shaped(run'[s])
  <2>1. CASE runs[s].pc \in Timed
    <3>1. run'[s] = [runs[s] EXCEPT !.started = Rank(@)]
      BY <1>1, <2>1
    <3>2. /\ {"pc", "task", "enabled", "triggers", "started"} \subseteq DOMAIN runs[s]
          /\ runs[s] = [x \in DOMAIN runs[s] |-> runs[s][x]]
      BY <2>1 DEF Shaped
    <3> QED
      BY <3>1, <3>2 DEF Shaped, SameRun
  <2>2. CASE runs[s].pc \notin Timed
    BY <1>1, <2>2 DEF Shaped, SameRun
  <2> QED
    BY <2>1, <2>2
<1> QED
  BY <1>1, <1>2

-----------------------------------------------------------------------------
(* The claims.                                                             *)

RunsTyped ==
    /\ run = [s \in Runners |-> run[s]]
    /\ \A s \in Runners :
        /\ Shaped(run[s])
        /\ run[s].pc # "idle" => run[s].task \in Tasks

ClaimInv ==
    /\ RunsTyped
    /\ queue \subseteq Tasks
    /\ OneRunAtATime
    /\ ClaimsAreLive

(* What a step of runner s makes of the runs: its own goes to pc and task, *)
(* those of the others keep theirs.                                        *)
Moves(s, pc, task) ==
    /\ run' = [x \in Runners |-> run'[x]]
    /\ \A x \in Runners : Shaped(run'[x])
    /\ run'[s].pc = pc
    /\ pc # "idle" => run'[s].task = task
    /\ \A x \in Runners \ {s} : run'[x].pc = run[x].pc /\ run'[x].task = run[x].task

(* The same with the copy of the row its runner holds.                     *)
Goes(s, state) ==
    /\ SameRun(run'[s], state)
    /\ \A x \in Runners \ {s} : SameRun(run'[x], run[x])

LEMMA GotoMoves ==
    ASSUME RunsTyped, NEW s \in Runners, NEW state, Shaped(state),
           NEW last, NEW boot, NEW event,
           Stamped(last, boot, event, [run EXCEPT ![s] = state])
    PROVE  Moves(s, state.pc, state.task) /\ Goes(s, state)
<1> DEFINE runs == [run EXCEPT ![s] = state]
<1>1. runs[s] = state /\ \A x \in Runners \ {s} : runs[x] = run[x]
  BY DEF RunsTyped
<1>2. \A x \in Runners : Shaped(runs[x])
  BY <1>1 DEF RunsTyped
<1>3. Stamped(last, boot, event, runs)
  OBVIOUS
<1> HIDE DEF runs
<1>4. /\ run' = [x \in Runners |-> run'[x]]
      /\ \A x \in Runners : SameRun(run'[x], runs[x]) /\ Shaped(run'[x])
  BY <1>2, <1>3, StampedRuns
<1> QED
  BY <1>1, <1>4 DEF Moves, Goes, SameRun

LEMMA MovesTyped ==
    ASSUME RunsTyped, NEW s \in Runners, NEW pc, NEW task, Moves(s, pc, task),
           pc # "idle" => task \in Tasks
    PROVE  RunsTyped'
BY DEF RunsTyped, Moves, Shaped

(* A step that neither takes nor drops a claim.                            *)
LEMMA KeepsClaims ==
    ASSUME ClaimInv, NEW s \in Runners, NEW pc, NEW task, Moves(s, pc, task),
           pc \in Working <=> run[s].pc \in Working,
           pc \in Working => task = run[s].task,
           pc # "idle" => task \in Tasks,
           running' = running, queue' \subseteq Tasks
    PROVE  ClaimInv'
<1>1. \A x \in Runners : /\ run'[x].pc \in Working <=> run[x].pc \in Working
                         /\ run[x].pc \in Working => run'[x].task = run[x].task
  BY DEF Moves, Working, Timed
<1>2. \A t \in Tasks : Holders(t)' = Holders(t)
  BY <1>1 DEF Holders
<1>3. RunsTyped'
  BY MovesTyped DEF ClaimInv
<1>4. OneRunAtATime'
  BY <1>2 DEF ClaimInv, OneRunAtATime
<1>5. ClaimsAreLive'
  BY <1>2 DEF ClaimInv, ClaimsAreLive
<1> QED
  BY <1>3, <1>4, <1>5 DEF ClaimInv

(* A step that takes the claim of a task nobody has.                       *)
LEMMA TakesClaim ==
    ASSUME ClaimInv, NEW s \in Runners, NEW pc, NEW task \in Tasks, Moves(s, pc, task),
           pc \in Working, run[s].pc \notin Working, task \notin running,
           running' = running \cup {task}, queue' \subseteq Tasks
    PROVE  ClaimInv'
<1>1. Holders(task) = {}
  BY DEF ClaimInv, ClaimsAreLive
<1>2. Holders(task)' = {s}
  BY <1>1 DEF Holders, Moves, Working, Timed
<1>3. \A t \in Tasks \ {task} : Holders(t)' = Holders(t)
  BY DEF Holders, Moves, Working, Timed
<1>4. RunsTyped'
  BY MovesTyped DEF ClaimInv
<1>5. OneRunAtATime'
  BY <1>2, <1>3 DEF ClaimInv, OneRunAtATime
<1>6. ClaimsAreLive'
  BY <1>2, <1>3 DEF ClaimInv, ClaimsAreLive
<1> QED
  BY <1>4, <1>5, <1>6 DEF ClaimInv

(* A step that ends a run, and its claim with it.                          *)
LEMMA DropsClaim ==
    ASSUME ClaimInv, NEW s \in Runners, Moves(s, "idle", run[s].task),
           run[s].pc \in Working,
           running' = running \ {run[s].task}, queue' \subseteq Tasks
    PROVE  ClaimInv'
<1>1. run[s].task \in Tasks
  BY DEF ClaimInv, RunsTyped, Working, Timed
<1>2. Holders(run[s].task) = {s}
  BY <1>1 DEF ClaimInv, OneRunAtATime, Holders
<1>3. \A t \in Tasks :
        {x \in Runners : run'[x].pc \in Working /\ run'[x].task = t}
        = IF t = run[s].task THEN {} ELSE Holders(t)
  BY <1>2 DEF Holders, Moves, Working, Timed
<1>4. \A t \in Tasks : Holders(t)' = IF t = run[s].task THEN {} ELSE Holders(t)
  BY <1>3 DEF Holders
<1>5. RunsTyped'
  BY MovesTyped DEF ClaimInv
<1>6. OneRunAtATime'
  BY <1>4 DEF ClaimInv, OneRunAtATime
<1>7. ClaimsAreLive'
  BY <1>4 DEF ClaimInv, ClaimsAreLive
<1> QED
  BY <1>5, <1>6, <1>7 DEF ClaimInv

-----------------------------------------------------------------------------
(* Every step.                                                             *)

LEMMA InitClaimInv == Init => ClaimInv
BY DEF Init, ClaimInv, RunsTyped, Shaped, Timed, Working, Idle, OneRunAtATime,
       ClaimsAreLive, Holders

LEMMA BeginClaimInv ==
    ASSUME ClaimInv, NEW s \in Runners, NEW t \in Tasks, Begin(s, t),
           queue' \subseteq Tasks
    PROVE  ClaimInv'
<1> DEFINE state == [pc |-> "claim", task |-> t, enabled |-> enabled[t],
                     triggers |-> triggers[t]]
<1>1. Shaped(state) /\ state.pc = "claim" /\ state.task = t
  BY DEF Shaped, Timed
<1>2. Stamped(lastRun, bootedAt, lastEvent, [run EXCEPT ![s] = state])
  BY DEF Begin, Goto
<1> HIDE DEF state
<1>3. Moves(s, "claim", t)
  BY <1>1, <1>2, GotoMoves DEF ClaimInv
<1>4. run[s].pc \notin Working /\ running' = running
  BY DEF Begin, At, Working, Timed
<1> QED
  BY <1>3, <1>4, KeepsClaims DEF Working, Timed

LEMMA TakeClaimInv ==
    ASSUME ClaimInv, NEW s \in Runners, Take(s)
    PROVE  ClaimInv'
<1> DEFINE t == run[s].task
           state == [pc |-> "job", task |-> t, enabled |-> run[s].enabled,
                     triggers |-> run[s].triggers, started |-> Now, ok |-> FALSE]
<1>1. /\ run[s].pc = "claim" /\ t \in Tasks
      /\ run[s].pc \notin Working
      /\ queue' \subseteq Tasks
  BY DEF Take, At, ClaimInv, RunsTyped, Working, Timed
<1>2. CASE Claimable(t)
  <2>1. Shaped(state) /\ state.pc = "job" /\ state.task = t
    BY DEF Shaped, Timed
  <2>2. /\ Stamped(lastRun, bootedAt, lastEvent, [run EXCEPT ![s] = state])
        /\ running' = running \cup {t}
    BY <1>2 DEF Take, Goto
  <2> HIDE DEF state
  <2>3. Moves(s, "job", t)
    BY <2>1, <2>2, GotoMoves DEF ClaimInv
  <2> QED
    BY <1>1, <1>2, <2>2, <2>3, TakesClaim DEF Working, Timed, Claimable
<1>3. CASE ~Claimable(t)
  <2>1. /\ Stamped(lastRun, bootedAt, lastEvent, [run EXCEPT ![s] = Idle])
        /\ running' = running
    BY <1>3 DEF Take, Goto
  <2>2. Shaped(Idle) /\ Idle.pc = "idle"
    BY DEF Shaped, Timed, Idle
  <2>3. Moves(s, "idle", Idle.task)
    BY <2>1, <2>2, GotoMoves DEF ClaimInv
  <2> QED
    BY <1>1, <2>1, <2>3, KeepsClaims DEF Working, Timed
<1> QED
  BY <1>2, <1>3

LEMMA WorkClaimInv ==
    ASSUME ClaimInv, NEW s \in Runners, Work(s)
    PROVE  ClaimInv'
<1>1. /\ run[s].pc = "job" /\ run[s].task \in Tasks
      /\ running' = running /\ queue' \subseteq Tasks
  BY DEF Work, At, ClaimInv, RunsTyped
<1>2. PICK ok \in BOOLEAN : Goto(s, [run[s] EXCEPT !.pc = "save", !.ok = ok])
  BY DEF Work
<1> DEFINE state == [run[s] EXCEPT !.pc = "save", !.ok = ok]
<1>3. Shaped(state) /\ state.pc = "save" /\ state.task = run[s].task
  BY <1>1 DEF ClaimInv, RunsTyped, Shaped, Timed
<1>4. Stamped(lastRun, bootedAt, lastEvent, [run EXCEPT ![s] = state])
  BY <1>2 DEF Goto
<1> HIDE DEF state
<1>5. Moves(s, "save", run[s].task)
  BY <1>3, <1>4, GotoMoves DEF ClaimInv
<1> QED
  BY <1>1, <1>5, KeepsClaims DEF Working, Timed

(* Whether or not the row is written.                                      *)
LEMMA SaveClaimInv ==
    ASSUME ClaimInv, NEW s \in Runners, Save(s) \/ SaveFails(s)
    PROVE  ClaimInv'
<1>1. /\ run[s].pc = "save" /\ run[s].task \in Tasks
      /\ running' = running /\ queue' \subseteq Tasks
  BY DEF Save, SaveFails, At, ClaimInv, RunsTyped
<1>2. PICK last : Stamped(last, bootedAt, lastEvent, [run EXCEPT ![s] = Announcing(run[s])])
  BY DEF Save, SaveFails, Goto
<1>3. /\ Shaped(Announcing(run[s]))
      /\ Announcing(run[s]).pc = "announce"
      /\ Announcing(run[s]).task = run[s].task
  BY DEF Announcing, Shaped, Timed
<1>4. Moves(s, "announce", run[s].task)
  BY <1>2, <1>3, GotoMoves DEF ClaimInv
<1> QED
  BY <1>1, <1>4, KeepsClaims DEF Working, Timed

LEMMA IdleMoves ==
    ASSUME ClaimInv, NEW s \in Runners, NEW event, NEW task,
           Stamped(lastRun, bootedAt, event, [run EXCEPT ![s] = Idle])
    PROVE  Moves(s, "idle", task)
<1>1. Shaped(Idle) /\ Idle.pc = "idle"
  BY DEF Shaped, Timed, Idle
<1>2. Moves(s, "idle", Idle.task)
  BY <1>1, GotoMoves DEF ClaimInv
<1> QED
  BY <1>2 DEF Moves

LEMMA AnnounceClaimInv ==
    ASSUME ClaimInv, NEW s \in Runners, Announce(s)
    PROVE  ClaimInv'
<1>1. /\ run[s].pc \in Working
      /\ running' = running \ {run[s].task} /\ queue' \subseteq Tasks
  BY DEF Announce, At, Unclaim, ClaimInv, Working
<1>2. PICK event : Stamped(lastRun, bootedAt, event, [run EXCEPT ![s] = Idle])
  BY DEF Announce
<1>3. Moves(s, "idle", run[s].task)
  BY <1>2, IdleMoves
<1> QED
  BY <1>1, <1>3, DropsClaim

LEMMA HangUpClaimInv ==
    ASSUME ClaimInv, NEW s \in Runners, HangUp(s)
    PROVE  ClaimInv'
<1>1. Stamped(lastRun, bootedAt, lastEvent, [run EXCEPT ![s] = Idle]) /\ queue' \subseteq Tasks
  BY DEF HangUp, Goto, ClaimInv
<1>2. Moves(s, "idle", run[s].task)
  BY <1>1, IdleMoves
<1>3. CASE run[s].pc \in Working
  <2>1. running' = running \ {run[s].task}
    BY <1>3 DEF HangUp, Unclaim
  <2> QED
    BY <1>1, <1>2, <1>3, <2>1, DropsClaim
<1>4. CASE run[s].pc \notin Working
  <2>1. running' = running
    BY <1>4 DEF HangUp
  <2> QED
    BY <1>1, <1>2, <1>4, <2>1, KeepsClaims DEF Working, Timed
<1> QED
  BY <1>3, <1>4

LEMMA EditClaimInv ==
    ASSUME ClaimInv, NEW s \in Operators,
           \/ EditSave(s)
           \/ \E t \in Tasks, on \in BOOLEAN, kinds \in Schedules : EditRead(s, t, on, kinds)
    PROVE  ClaimInv'
<1> s \in Runners
  BY DEF Runners
<1>1. CASE EditSave(s)
  <2>1. /\ Stamped(lastRun, bootedAt, lastEvent, [run EXCEPT ![s] = Idle])
        /\ run[s].pc \notin Working
        /\ running' = running /\ queue' \subseteq Tasks
    BY <1>1 DEF EditSave, Goto, At, Working, Timed, ClaimInv
  <2>2. Moves(s, "idle", run[s].task)
    BY <2>1, IdleMoves
  <2> QED
    BY <2>1, <2>2, KeepsClaims DEF Working, Timed
<1>2. ASSUME NEW t \in Tasks, NEW on \in BOOLEAN, NEW kinds \in Schedules,
             EditRead(s, t, on, kinds)
      PROVE  ClaimInv'
  <2> DEFINE state == [pc |-> "edit", task |-> t, enabled |-> on, triggers |-> kinds]
  <2>1. /\ Stamped(lastRun, bootedAt, lastEvent, [run EXCEPT ![s] = state])
        /\ run[s].pc \notin Working
        /\ running' = running /\ queue' \subseteq Tasks
    BY <1>2 DEF EditRead, Goto, At, Working, Timed, ClaimInv
  <2>2. Shaped(state) /\ state.pc = "edit" /\ state.task = t
    BY DEF Shaped, Timed
  <2> HIDE DEF state
  <2>3. Moves(s, "edit", t)
    BY <2>1, <2>2, GotoMoves DEF ClaimInv
  <2> QED
    BY <2>1, <2>3, KeepsClaims DEF Working, Timed
<1> QED
  BY <1>1, <1>2

(* Steps that move no runner.                                              *)
LEMMA NobodyMoves ==
    ASSUME ClaimInv, queue' \subseteq Tasks, running' = running,
           run' = run \/ \E event : Stamped(lastRun, bootedAt, event, run)
    PROVE  ClaimInv'
<1> DEFINE Still == /\ run' = [x \in Runners |-> run'[x]]
                    /\ \A x \in Runners : /\ run'[x].pc = run[x].pc
                                          /\ run'[x].task = run[x].task
                                          /\ Shaped(run'[x])
<1>1. Still
  <2>1. CASE run' = run
    BY <2>1 DEF ClaimInv, RunsTyped
  <2>2. ASSUME NEW event, Stamped(lastRun, bootedAt, event, run)
        PROVE  Still
    BY <2>2, StampedRuns DEF SameRun, ClaimInv, RunsTyped
  <2> QED
    BY <2>1, <2>2
<1>2. \A t \in Tasks : Holders(t)' = Holders(t)
  BY <1>1 DEF Holders
<1>3. RunsTyped'
  BY <1>1 DEF ClaimInv, RunsTyped, Shaped
<1> QED
  BY <1>2, <1>3 DEF ClaimInv, OneRunAtATime, ClaimsAreLive

LEMMA RestartClaimInv == ASSUME ClaimInv, Restart PROVE ClaimInv'
<1> DEFINE runs == [s \in Runners |-> Idle]
<1>1. \A s \in Runners : Shaped(runs[s]) /\ runs[s].pc = "idle"
  BY DEF Shaped, Timed, Idle
<1>2. Stamped(lastRun, Now, lastEvent, runs) /\ running' = {} /\ queue' = {}
  BY DEF Restart
<1> HIDE DEF runs
<1>3. /\ run' = [x \in Runners |-> run'[x]]
      /\ \A x \in Runners : run'[x].pc = "idle" /\ Shaped(run'[x])
  BY <1>1, <1>2, StampedRuns DEF SameRun
<1>4. \A t \in Tasks : Holders(t)' = {}
  BY <1>3 DEF Holders, Working, Timed
<1>5. RunsTyped'
  BY <1>3 DEF RunsTyped, Shaped
<1> QED
  BY <1>2, <1>4, <1>5 DEF ClaimInv, OneRunAtATime, ClaimsAreLive

LEMMA StepClaimInv == ClaimInv /\ [Next]_vars => ClaimInv'
<1> SUFFICES ASSUME ClaimInv, [Next]_vars PROVE ClaimInv'
  OBVIOUS
<1> Loop \in Runners /\ Operators \subseteq Runners
  BY DEF Runners
<1> queue \subseteq Tasks
  BY DEF ClaimInv
<1>1. ASSUME NEW passed \in SUBSET Tasks, Tick(passed) PROVE ClaimInv'
  BY <1>1, NobodyMoves DEF Tick, times
<1>2. CASE RunDue
  BY <1>2, BeginClaimInv DEF RunDue
<1>3. ASSUME NEW s \in Runners, Take(s) \/ Work(s) \/ Save(s) \/ Announce(s)
      PROVE  ClaimInv'
  BY <1>3, TakeClaimInv, WorkClaimInv, SaveClaimInv, AnnounceClaimInv
<1>4. ASSUME NEW s \in Runners, SaveFails(s) PROVE ClaimInv'
  BY <1>4, SaveClaimInv
<1>5. ASSUME NEW s \in Operators, HangUp(s) PROVE ClaimInv'
  BY <1>5, HangUpClaimInv
<1>6. ASSUME NEW s \in Operators, NEW t \in Tasks, RunByHand(s, t) PROVE ClaimInv'
  BY <1>6, BeginClaimInv DEF RunByHand
<1>7. ASSUME NEW s \in Operators,
             \/ EditSave(s)
             \/ \E t \in Tasks, on \in BOOLEAN, kinds \in Schedules : EditRead(s, t, on, kinds)
      PROVE  ClaimInv'
  BY <1>7, EditClaimInv
<1>8. ASSUME NEW t \in Tasks, TimeComes(t) PROVE ClaimInv'
  BY <1>8, NobodyMoves DEF TimeComes
<1>9. CASE EventHappens
  BY <1>9, NobodyMoves DEF EventHappens
<1>10. CASE Restart
  BY <1>10, RestartClaimInv
<1>11. CASE UNCHANGED vars
  BY <1>11, NobodyMoves DEF vars
<1> QED
  BY <1>1, <1>2, <1>3, <1>4, <1>5, <1>6, <1>7, <1>8, <1>9, <1>10, <1>11
  DEF Next, LoopStep, HandStep

THEOREM ClaimInvariant == Spec => []ClaimInv
<1> QED
  BY InitClaimInv, StepClaimInv, PTL DEF Spec

(* A job never runs twice at the same time (schedule::run and its Claim),  *)
(* whatever the loop and the operators start and wherever they stop.       *)
THEOREM RunsAlone == Spec => []OneRunAtATime
<1>1. ClaimInv => OneRunAtATime
  BY DEF ClaimInv
<1> QED
  BY ClaimInvariant, <1>1, PTL

(* A task is in running_tasks exactly while a run of it is under way: no   *)
(* hang-up, failed write or restart leaves a claim behind.                 *)
THEOREM ClaimsLive == Spec => []ClaimsAreLive
<1>1. ClaimInv => ClaimsAreLive
  BY DEF ClaimInv
<1> QED
  BY ClaimInvariant, <1>1, PTL

-----------------------------------------------------------------------------
(* The row and its copies.  While no row is edited during a run of its     *)
(* task, a run, which reads the row before it has the claim, still knows   *)
(* the row when it writes next_run_at.                                     *)
KnowsRow(q) ==
    q.pc \in Timed \cup {"claim"} =>
        q.enabled = enabled[q.task] /\ q.triggers = triggers[q.task]

EditedApart ==
    \A s \in Operators, r \in Runners :
        run[s].pc = "edit" /\ run[r].pc \in Working \cup {"claim"} => run[s].task # run[r].task

RowTyped ==
    /\ enabled = [t \in Tasks |-> enabled[t]]
    /\ triggers = [t \in Tasks |-> triggers[t]]
    /\ nextRun = [t \in Tasks |-> nextRun[t]]

RowInv ==
    /\ RowTyped
    /\ \A s \in Runners : KnowsRow(run[s])
    /\ EditedApart
    /\ NextRunFollowsRow

LEMMA InitRowInv == Init => RowInv
BY DEF Init, RowInv, RowTyped, KnowsRow, EditedApart, NextRunFollowsRow, NextTimerRun, Idle,
   Timed, Working

(* A step of one runner that leaves the row of its task as it is.          *)
LEMMA ApartStays ==
    ASSUME EditedApart, NEW s \in Runners, NEW state, Goes(s, state),
           state.pc = "edit" => run[s].pc = "edit" /\ state.task = run[s].task,
           state.pc \in Working \cup {"claim"} =>
               run[s].pc \in Working \cup {"claim"} /\ state.task = run[s].task
    PROVE  EditedApart'
BY DEF EditedApart, Goes, SameRun, Runners

LEMMA RowStays ==
    ASSUME RowInv, NEW s \in Runners, NEW state, Goes(s, state), KnowsRow(state),
           EditedApart', UNCHANGED <<enabled, triggers>>,
           NextRunFollowsRow', nextRun' = [t \in Tasks |-> nextRun'[t]]
    PROVE  RowInv'
<1>1. \A x \in Runners : KnowsRow(run[x])'
  BY DEF RowInv, Goes, SameRun, KnowsRow
<1> QED
  BY <1>1 DEF RowInv, RowTyped

LEMMA SameRow ==
    ASSUME RowInv, UNCHANGED <<enabled, triggers, nextRun>>
    PROVE  NextRunFollowsRow' /\ nextRun' = [t \in Tasks |-> nextRun'[t]]
BY DEF RowInv, RowTyped, NextRunFollowsRow

LEMMA BeginRowInv ==
    ASSUME RunsTyped, RowInv, ~EditsDuringRuns, NEW s \in Runners, NEW t \in Tasks, Begin(s, t)
    PROVE  RowInv'
<1> PICK state : state = [pc |-> "claim", task |-> t, enabled |-> enabled[t],
                          triggers |-> triggers[t]]
  OBVIOUS
<1>1. Goto(s, state) /\ UNCHANGED <<enabled, triggers, nextRun>> /\ run[s].pc = "idle"
  BY DEF Begin, row, At
<1>2. Shaped(state) /\ KnowsRow(state) /\ state.pc = "claim" /\ state.task = t
  BY DEF Shaped, KnowsRow, Timed
<1>3. Goes(s, state)
  BY <1>1, <1>2, GotoMoves DEF Goto
<1>4. EditedApart'
  BY <1>1, <1>2, <1>3 DEF Begin, BeingEdited, At, RowInv, EditedApart, Goes, SameRun, Runners
<1> QED
  BY <1>1, <1>2, <1>3, <1>4, RowStays, SameRow

LEMMA IdleGoes ==
    ASSUME RunsTyped, RowInv, NEW s \in Runners, NEW event,
           Stamped(lastRun, bootedAt, event, [run EXCEPT ![s] = Idle]),
           UNCHANGED <<enabled, triggers, nextRun>>
    PROVE  RowInv'
<1>1. Shaped(Idle) /\ KnowsRow(Idle) /\ Idle.pc \notin Working \cup {"claim", "edit"}
  BY DEF Shaped, KnowsRow, Timed, Working, Idle
<1>2. Goes(s, Idle)
  BY <1>1, GotoMoves
<1>3. EditedApart'
  BY <1>1, <1>2, ApartStays DEF RowInv
<1> QED
  BY <1>1, <1>2, <1>3, RowStays, SameRow

LEMMA TakeRowInv ==
    ASSUME RunsTyped, RowInv, NEW s \in Runners, Take(s)
    PROVE  RowInv'
<1>1. UNCHANGED <<enabled, triggers, nextRun>> /\ run[s].pc = "claim"
  BY DEF Take, row, At
<1>2. CASE Claimable(run[s].task)
  <2> PICK state : state = [pc |-> "job", task |-> run[s].task, enabled |-> run[s].enabled,
                            triggers |-> run[s].triggers, started |-> Now, ok |-> FALSE]
    OBVIOUS
  <2>1. Goto(s, state)
    BY <1>2 DEF Take
  <2>2. state.pc = "job" /\ state.task = run[s].task /\ Shaped(state) /\ KnowsRow(state)
    BY <1>1 DEF Shaped, KnowsRow, Timed, RowInv
  <2>3. Goes(s, state)
    BY <2>1, <2>2, GotoMoves DEF Goto
  <2>4. EditedApart'
    BY <1>1, <2>2, <2>3, ApartStays DEF RowInv, Working, Timed
  <2> QED
    BY <1>1, <2>2, <2>3, <2>4, RowStays, SameRow
<1>3. CASE ~Claimable(run[s].task)
  BY <1>1, <1>3, IdleGoes DEF Take, Goto
<1> QED
  BY <1>2, <1>3

LEMMA WorkRowInv ==
    ASSUME RunsTyped, RowInv, NEW s \in Runners, Work(s)
    PROVE  RowInv'
<1>1. UNCHANGED <<enabled, triggers, nextRun>> /\ run[s].pc = "job"
  BY DEF Work, row, At
<1>2. PICK ok \in BOOLEAN : Goto(s, [run[s] EXCEPT !.pc = "save", !.ok = ok])
  BY DEF Work
<1> PICK state : state = [run[s] EXCEPT !.pc = "save", !.ok = ok]
  OBVIOUS
<1>3. SameRun(state, [run[s] EXCEPT !.pc = "save"]) /\ Shaped(state) /\ state.pc = "save"
  BY <1>1 DEF RunsTyped, Shaped, SameRun, Timed
<1>4. state.task = run[s].task /\ KnowsRow(state)
  BY <1>1, <1>3 DEF RunsTyped, Shaped, SameRun, RowInv, KnowsRow, Timed
<1>5. Goes(s, state)
  BY <1>2, <1>3, GotoMoves DEF Goto
<1>6. EditedApart'
  BY <1>1, <1>3, <1>4, <1>5, ApartStays DEF RowInv, Working, Timed
<1> QED
  BY <1>1, <1>4, <1>5, <1>6, RowStays, SameRow

LEMMA SaveRowInv ==
    ASSUME RunsTyped, RowInv, NEW s \in Runners, Save(s) \/ SaveFails(s)
    PROVE  RowInv'
<1> PICK state : state = Announcing(run[s])
  OBVIOUS
<1>1. UNCHANGED <<enabled, triggers>> /\ run[s].pc = "save"
  BY DEF Save, SaveFails, row, At
<1>2. /\ state.pc = "announce" /\ state.task = run[s].task /\ Shaped(state)
      /\ KnowsRow(state)
  BY DEF Announcing, Shaped, KnowsRow, Timed
<1>3. \E last : Stamped(last, bootedAt, lastEvent, [run EXCEPT ![s] = state])
  BY DEF Save, SaveFails, Goto
<1>4. Goes(s, state)
  BY <1>2, <1>3, GotoMoves
<1>5. EditedApart'
  BY <1>1, <1>2, <1>4, ApartStays DEF RowInv, Working, Timed
<1>6. NextRunFollowsRow' /\ nextRun' = [t \in Tasks |-> nextRun'[t]]
  <2>1. CASE UNCHANGED nextRun
    BY <1>1, <2>1, SameRow
  <2>2. CASE nextRun' = [nextRun EXCEPT ![run[s].task] = Rearmed(run[s])]
    <3>1. run[s].enabled = enabled[run[s].task] /\ run[s].triggers = triggers[run[s].task]
      BY <1>1 DEF RowInv, KnowsRow, Timed
    <3> QED
      BY <1>1, <2>2, <3>1
      DEF RowInv, RowTyped, NextRunFollowsRow, Rearmed, NextTimerRun
  <2> QED
    BY <2>1, <2>2 DEF Save, SaveFails, row
<1> QED
  BY <1>1, <1>2, <1>4, <1>5, <1>6, RowStays

LEMMA EditRowInv ==
    ASSUME RunsTyped, RowInv, ~EditsDuringRuns, NEW s \in Operators,
           \/ EditSave(s)
           \/ \E t \in Tasks, on \in BOOLEAN, kinds \in Schedules : EditRead(s, t, on, kinds)
    PROVE  RowInv'
<1> s \in Runners
  BY DEF Runners
<1>1. CASE EditSave(s)
  <2> PICK q : q = run[s]
    OBVIOUS
  <2>1. /\ q.pc = "edit" /\ q.task \in Tasks
        /\ enabled' = [enabled EXCEPT ![q.task] = q.enabled]
        /\ triggers' = [triggers EXCEPT ![q.task] = q.triggers]
        /\ nextRun' = [nextRun EXCEPT ![q.task] = NextTimerRun(q.enabled, q.triggers)]
    BY <1>1 DEF EditSave, At, Rescheduled, RunsTyped
  <2>2. Shaped(Idle) /\ Idle.pc \notin Working \cup {"claim", "edit"}
    BY DEF Shaped, Timed, Working, Idle
  <2>3. Goes(s, Idle)
    BY <1>1, <2>2, GotoMoves DEF EditSave, Goto
  <2>4. EditedApart'
    BY <2>2, <2>3, ApartStays DEF RowInv
  <2>5. RowTyped'
    BY <2>1 DEF RowInv, RowTyped
  <2>6. NextRunFollowsRow'
    BY <2>1 DEF RowInv, RowTyped, NextRunFollowsRow, NextTimerRun
  <2>7. ASSUME NEW x \in Runners PROVE KnowsRow(run[x])'
    <3>1. CASE x = s
      BY <2>2, <2>3, <3>1 DEF Goes, SameRun, KnowsRow, Working
    <3>2. CASE x # s
      <4>1. run[x].pc \in Timed \cup {"claim"} => run[x].task # q.task
        BY <2>1 DEF RowInv, EditedApart, Working
      <4>2. \A t \in Tasks \ {q.task} : enabled'[t] = enabled[t] /\ triggers'[t] = triggers[t]
        BY <2>1 DEF RowInv, RowTyped
      <4>3. run[x].pc \in Timed \cup {"claim"} => run[x].task \in Tasks
        BY DEF RunsTyped, Timed
      <4> QED
        BY <2>3, <3>2, <4>1, <4>2, <4>3 DEF RowInv, Goes, SameRun, KnowsRow
    <3> QED
      BY <3>1, <3>2
  <2> QED
    BY <2>4, <2>5, <2>6, <2>7 DEF RowInv
<1>2. ASSUME NEW t \in Tasks, NEW on \in BOOLEAN, NEW kinds \in Schedules,
             EditRead(s, t, on, kinds)
      PROVE  RowInv'
  <2> PICK state : state = [pc |-> "edit", task |-> t, enabled |-> on, triggers |-> kinds]
    OBVIOUS
  <2>1. Goto(s, state) /\ UNCHANGED <<enabled, triggers, nextRun>> /\ run[s].pc = "idle"
    BY <1>2 DEF EditRead, row, At
  <2>2. Shaped(state) /\ KnowsRow(state) /\ state.pc = "edit" /\ state.task = t
    BY DEF Shaped, KnowsRow, Timed
  <2>3. Goes(s, state)
    BY <2>1, <2>2, GotoMoves DEF Goto
  <2>4. \A r \in Runners : run[r].pc \in Working \cup {"claim"} => run[r].task # t
    BY <1>2 DEF EditRead, BeingRun
  <2>5. EditedApart'
    BY <2>2, <2>3, <2>4 DEF RowInv, EditedApart, Goes, SameRun, Working, Timed, Runners
  <2> QED
    BY <2>1, <2>2, <2>3, <2>5, RowStays, SameRow
<1> QED
  BY <1>1, <1>2

(* Steps that move no runner.                                              *)
LEMMA NobodyRowInv ==
    ASSUME RunsTyped, RowInv, UNCHANGED <<enabled, triggers>>,
           NextRunFollowsRow', nextRun' = [t \in Tasks |-> nextRun'[t]],
           run' = run \/ \E event : Stamped(lastRun, bootedAt, event, run)
    PROVE  RowInv'
<1>1. \A x \in Runners : SameRun(run'[x], run[x])
  BY StampedRuns DEF SameRun, RunsTyped
<1> QED
  BY <1>1 DEF RowInv, RowTyped, SameRun, KnowsRow, EditedApart, Runners

LEMMA RestartRowInv == ASSUME RowInv, Restart PROVE RowInv'
<1> DEFINE runs == [s \in Runners |-> Idle]
<1>1. \A s \in Runners : Shaped(runs[s]) /\ runs[s].pc = "idle"
  BY DEF Shaped, Timed, Idle
<1>2. Stamped(lastRun, Now, lastEvent, runs) /\ UNCHANGED <<enabled, triggers, nextRun>>
  BY DEF Restart, row
<1> HIDE DEF runs
<1>3. \A s \in Runners : run'[s].pc = "idle"
  BY <1>1, <1>2, StampedRuns DEF SameRun
<1>4. NextRunFollowsRow' /\ nextRun' = [t \in Tasks |-> nextRun'[t]]
  BY <1>2, SameRow
<1> QED
  BY <1>2, <1>3, <1>4 DEF RowInv, RowTyped, KnowsRow, EditedApart, Timed, Runners

LEMMA TimeComesRowInv ==
    ASSUME RowInv, NEW t \in Tasks, TimeComes(t)
    PROVE  NextRunFollowsRow' /\ nextRun' = [x \in Tasks |-> nextRun'[x]]
BY DEF TimeComes, RowInv, RowTyped, NextRunFollowsRow

LEMMA StepRowInv ==
    ASSUME ~EditsDuringRuns, ClaimInv, RowInv, [Next]_vars
    PROVE  RowInv'
<1> RunsTyped /\ Loop \in Runners /\ Operators \subseteq Runners /\ queue \subseteq Tasks
  BY DEF ClaimInv, Runners
<1>1. ASSUME NEW passed \in SUBSET Tasks, Tick(passed) PROVE RowInv'
  BY <1>1, NobodyRowInv, SameRow DEF Tick, row
<1>2. CASE RunDue
  BY <1>2, BeginRowInv DEF RunDue
<1>3. ASSUME NEW s \in Runners, Take(s) \/ Work(s) \/ Save(s) \/ SaveFails(s)
      PROVE  RowInv'
  BY <1>3, TakeRowInv, WorkRowInv, SaveRowInv
<1>4. ASSUME NEW s \in Runners, Announce(s) \/ HangUp(s) PROVE RowInv'
  BY <1>4, IdleGoes DEF Announce, HangUp, Goto, row
<1>5. ASSUME NEW s \in Operators, NEW t \in Tasks, RunByHand(s, t) PROVE RowInv'
  BY <1>5, BeginRowInv DEF RunByHand
<1>6. ASSUME NEW s \in Operators,
             \/ EditSave(s)
             \/ \E t \in Tasks, on \in BOOLEAN, kinds \in Schedules : EditRead(s, t, on, kinds)
      PROVE  RowInv'
  BY <1>6, EditRowInv
<1>7. ASSUME NEW t \in Tasks, TimeComes(t) PROVE RowInv'
  BY <1>7, NobodyRowInv, TimeComesRowInv DEF TimeComes
<1>8. CASE EventHappens
  BY <1>8, NobodyRowInv, SameRow DEF EventHappens, row
<1>9. CASE Restart
  BY <1>9, RestartRowInv
<1>10. CASE UNCHANGED vars
  BY <1>10, NobodyRowInv, SameRow DEF vars
<1> QED
  BY <1>1, <1>2, <1>3, <1>4, <1>5, <1>6, <1>7, <1>8, <1>9, <1>10
  DEF Next, LoopStep, HandStep

(* While no row is edited during a run of its task, next_run_at is set     *)
(* exactly for the tasks that are on and have a timer: whatever is run,    *)
(* switched or restarted, the timer of an enabled task is never lost, nor  *)
(* kept by one that was switched off (schedule::run and schedule::update). *)
THEOREM TimersFollowRows ==
    ASSUME ~EditsDuringRuns
    PROVE  Spec => []NextRunFollowsRow
<1>1. RowInv => NextRunFollowsRow
  BY DEF RowInv
<1> QED
  BY InitRowInv, StepRowInv, ClaimInvariant, <1>1, PTL DEF Spec

-----------------------------------------------------------------------------
(* The order of the runs.  A timestamp is its rank, so a number below the  *)
(* count of the timestamps in use: a run that starts now starts after      *)
(* everything on record.  Renumbering keeps the order.                     *)
RankIn(T, x) == Cardinality({y \in T : y < x})

LEMMA RankOrder ==
    ASSUME NEW T \in SUBSET Nat, IsFiniteSet(T), NEW x \in T
    PROVE  /\ RankIn(T, x) \in Nat /\ RankIn(T, x) < Cardinality(T)
           /\ \A y \in T : x < y => RankIn(T, x) < RankIn(T, y)
<1> DEFINE Below(z) == {y \in T : y < z}
<1>1. \A z \in T : /\ IsFiniteSet(Below(z)) /\ Cardinality(Below(z)) \in Nat
                  /\ Cardinality(Below(z)) <= Cardinality(T)
  <2> TAKE z \in T
  <2>1. Below(z) \in SUBSET T
    OBVIOUS
  <2> HIDE DEF Below
  <2> QED
    BY <2>1, FS_Subset, FS_CardinalityType
<1>2. Cardinality(T) \in Nat
  BY FS_CardinalityType
<1>3. Below(x) # T /\ Below(x) \in SUBSET T
  OBVIOUS
<1>4. ASSUME NEW y \in T, x < y PROVE Below(x) \in SUBSET Below(y) /\ Below(x) # Below(y)
  <2>1. x \in Below(y) /\ x \notin Below(x)
    BY <1>4
  <2>2. \A z \in T : z < x => z < y
    <3>1. \A a, b, c \in Nat : a < b /\ b < c => a < c
      OBVIOUS
    <3> QED
      BY <1>4, <3>1
  <2>3. Below(x) \in SUBSET Below(y)
    BY <2>2
  <2> HIDE DEF Below
  <2> QED
    BY <2>1, <2>3
<1> HIDE DEF Below
<1>5. Cardinality(Below(x)) < Cardinality(T)
  BY <1>1, <1>2, <1>3, FS_Subset
<1>6. ASSUME NEW y \in T, x < y PROVE Cardinality(Below(x)) < Cardinality(Below(y))
  BY <1>1, <1>4, <1>6, FS_Subset
<1>7. \A z : RankIn(T, z) = Cardinality(Below(z))
  BY DEF RankIn, Below
<1> QED
  BY <1>1, <1>5, <1>6, <1>7

LEMMA RankZero == ASSUME NEW T \in SUBSET Nat PROVE RankIn(T, 0) = 0
<1>1. \A y \in Nat : ~(y < 0)
  OBVIOUS
<1>2. {y \in T : y < 0} = {}
  BY <1>1
<1> QED
  BY <1>2, FS_EmptySet DEF RankIn

(* As many ranks as there were timestamps.                                 *)
LEMMA RanksCount ==
    ASSUME NEW T \in SUBSET Nat, IsFiniteSet(T),
           NEW R, R = {RankIn(T, x) : x \in T}
    PROVE  /\ R \subseteq Nat /\ IsFiniteSet(R)
           /\ \A y \in R : y < Cardinality(R)
<1> DEFINE f == [x \in T |-> RankIn(T, x)]
<1>1. f \in Surjection(T, R)
  BY DEF Surjection
<1>2. f \in Injection(T, R)
  <2>1. ASSUME NEW x \in T, NEW y \in T, x # y PROVE RankIn(T, x) # RankIn(T, y)
    <3>1. x < y \/ y < x
      BY <2>1
    <3> QED
      BY <3>1, RankOrder
  <2> QED
    BY <2>1, RankOrder DEF Injection, IsInjective
<1>3. IsFiniteSet(R) /\ Cardinality(R) = Cardinality(T)
  BY <1>1, <1>2, FS_Surjection
<1> QED
  BY <1>3, RankOrder

StampsNow == Stamps(lastRun, bootedAt, lastEvent, run)

OrderInv ==
    /\ lastRun = [t \in Tasks |-> lastRun[t]]
    /\ StampsNow \subseteq Nat /\ IsFiniteSet(StampsNow)
    /\ \A x \in StampsNow : x < Now
    /\ RunsInOrder

LEMMA InitOrderInv == Init => OrderInv
<1> SUFFICES ASSUME Init PROVE OrderInv
  OBVIOUS
<1>1. StampsNow = {0, 1}
  BY DEF Init, StampsNow, Stamps, Range, Idle, Timed, Never
<1>2. IsFiniteSet({0, 1}) /\ Cardinality({0, 1}) = 2
  <2>1. IsFiniteSet({0}) /\ Cardinality({0}) = 1
    BY FS_Singleton
  <2>2. {0, 1} = {0} \cup {1} /\ 1 \notin {0}
    OBVIOUS
  <2> QED
    BY <2>1, <2>2, FS_AddElement
<1>3. Now = 2
  BY <1>1, <1>2 DEF Now, StampsNow
<1>4. RunsInOrder
  BY DEF Init, RunsInOrder, Idle, Timed
<1> QED
  BY <1>1, <1>2, <1>3, <1>4 DEF OrderInv, Init

(* A step that renumbers timestamps that were there, or are taken now.     *)
LEMMA Renumbered ==
    ASSUME NEW last, NEW boot, NEW event, NEW runs, Stamped(last, boot, event, runs),
           last = [t \in Tasks |-> last[t]],
           \A s \in Runners : Shaped(runs[s]),
           Stamps(last, boot, event, runs) \subseteq Nat,
           IsFiniteSet(Stamps(last, boot, event, runs)),
           \A s \in Runners : runs[s].pc \in Timed =>
               runs[s].task \in Tasks /\ last[runs[s].task] < runs[s].started
    PROVE  OrderInv'
<1> PICK T : T = Stamps(last, boot, event, runs)
  OBVIOUS
<1>1. /\ lastRun' = [t \in Tasks |-> RankIn(T, last[t])]
      /\ bootedAt' = RankIn(T, boot) /\ lastEvent' = RankIn(T, event)
      /\ \A s \in Runners : runs[s].pc \in Timed => run'[s].started = RankIn(T, runs[s].started)
  BY DEF Stamped, RankIn, Shaped
<1>2. \A s \in Runners : SameRun(run'[s], runs[s])
  BY StampedRuns
<1>3. T \subseteq Nat /\ IsFiniteSet(T) /\ RankIn(T, Never) = Never
  BY RankZero DEF Never
<1>4. /\ \A t \in Tasks : last[t] \in T
      /\ \A s \in Runners : runs[s].pc \in Timed => runs[s].started \in T
  BY DEF Stamps, Range
<1>5. StampsNow' = {RankIn(T, x) : x \in T}
  <2>1. Range(lastRun') = {RankIn(T, x) : x \in Range(last)}
    BY <1>1 DEF Range
  <2>2. {r \in Runners : run'[r].pc \in Timed} = {r \in Runners : runs[r].pc \in Timed}
    BY <1>2 DEF SameRun
  <2>3. {run'[s].started : s \in {r \in Runners : run'[r].pc \in Timed}}
        = {RankIn(T, x) : x \in {runs[s].started : s \in {r \in Runners : runs[r].pc \in Timed}}}
    BY <1>1, <2>2
  <2>4. {Never, bootedAt', lastEvent'} = {RankIn(T, x) : x \in {Never, boot, event}}
    BY <1>1, <1>3
  <2> QED
    BY <2>1, <2>3, <2>4 DEF StampsNow, Stamps
<1>6. RunsInOrder'
  BY <1>1, <1>2, <1>3, <1>4, RankOrder DEF RunsInOrder, SameRun
<1>7. /\ StampsNow' \subseteq Nat /\ IsFiniteSet(StampsNow')
      /\ \A x \in StampsNow' : x < Cardinality(StampsNow')
  <2> PICK R : R = StampsNow'
    OBVIOUS
  <2>1. R = {RankIn(T, x) : x \in T} /\ T \in SUBSET Nat /\ IsFiniteSet(T)
    BY <1>3, <1>5
  <2>2. R \subseteq Nat /\ IsFiniteSet(R) /\ \A x \in R : x < Cardinality(R)
    BY <2>1, RanksCount
  <2> QED
    BY <2>2
<1> QED
  BY <1>1, <1>6, <1>7 DEF OrderInv, Now, StampsNow

Known == StampsNow \cup {Now}

LEMMA KnownStamps ==
    ASSUME RunsTyped, OrderInv
    PROVE  /\ Known \subseteq Nat /\ IsFiniteSet(Known)
           /\ bootedAt \in Known /\ lastEvent \in Known /\ Never \in Known
           /\ \A t \in Tasks : lastRun[t] \in Known /\ lastRun[t] < Now
           /\ \A s \in Runners : run[s].pc \in Timed => run[s].started \in Known
<1>1. Now \in Nat
  BY FS_CardinalityType DEF OrderInv, Now, StampsNow
<1>2. IsFiniteSet(Known)
  BY FS_AddElement DEF OrderInv, Known
<1> QED
  BY <1>1, <1>2 DEF OrderInv, Known, StampsNow, Stamps, Range

LEMMA Within ==
    ASSUME RunsTyped, OrderInv, NEW last, NEW boot \in Known, NEW event \in Known, NEW runs,
           last = [t \in Tasks |-> last[t]], \A t \in Tasks : last[t] \in Known,
           \A s \in Runners : runs[s].pc \in Timed => runs[s].started \in Known
    PROVE  /\ Stamps(last, boot, event, runs) \subseteq Nat
           /\ IsFiniteSet(Stamps(last, boot, event, runs))
<1>1. Stamps(last, boot, event, runs) \in SUBSET Known
  BY KnownStamps DEF Stamps, Range
<1> QED
  BY <1>1, KnownStamps, FS_Subset

(* A runner goes on to another state.                                      *)
LEMMA RunnerStamps ==
    ASSUME RunsTyped, OrderInv, NEW s \in Runners, NEW state, Shaped(state),
           NEW last, NEW event \in Known,
           Stamped(last, bootedAt, event, [run EXCEPT ![s] = state]),
           last = [t \in Tasks |-> last[t]], \A t \in Tasks : last[t] \in Known,
           state.pc \in Timed => /\ state.started \in Known /\ state.task \in Tasks
                                 /\ last[state.task] < state.started,
           \A x \in Runners \ {s} :
               run[x].pc \in Timed => last[run[x].task] = lastRun[run[x].task]
    PROVE  OrderInv'
<1> PICK runs : runs = [run EXCEPT ![s] = state]
  OBVIOUS
<1>1. runs[s] = state /\ \A x \in Runners \ {s} : runs[x] = run[x]
  BY DEF RunsTyped
<1>2. \A x \in Runners : Shaped(runs[x])
  BY <1>1 DEF RunsTyped
<1>3. \A x \in Runners : runs[x].pc \in Timed =>
        /\ runs[x].started \in Known
        /\ runs[x].task \in Tasks /\ last[runs[x].task] < runs[x].started
  BY <1>1, KnownStamps DEF RunsTyped, OrderInv, RunsInOrder, Timed
<1>4. bootedAt \in Known
  BY KnownStamps
<1>5. Stamps(last, bootedAt, event, runs) \subseteq Nat
      /\ IsFiniteSet(Stamps(last, bootedAt, event, runs))
  BY <1>3, <1>4, Within
<1> QED
  BY <1>2, <1>3, <1>5, Renumbered

LEMMA GotoOrder ==
    ASSUME RunsTyped, OrderInv, NEW s \in Runners, NEW state, Shaped(state), NEW event \in Known,
           Stamped(lastRun, bootedAt, event, [run EXCEPT ![s] = state]),
           state.pc \in Timed => /\ state.started \in Known /\ state.task \in Tasks
                                 /\ lastRun[state.task] < state.started
    PROVE  OrderInv'
BY KnownStamps, RunnerStamps DEF OrderInv

LEMMA QuietOrder ==
    ASSUME RunsTyped, OrderInv, NEW s \in Runners, NEW state, state.pc \notin Timed,
           NEW event \in Known, Stamped(lastRun, bootedAt, event, [run EXCEPT ![s] = state])
    PROVE  OrderInv'
BY GotoOrder DEF Shaped

LEMMA StepOrderInv ==
    ASSUME ClaimInv, OrderInv, [Next]_vars
    PROVE  OrderInv'
<1> RunsTyped /\ Loop \in Runners /\ Operators \subseteq Runners
  BY DEF ClaimInv, Runners
<1> lastEvent \in Known /\ Now \in Known
  BY KnownStamps DEF Known
<1> Idle.pc \notin Timed
  BY DEF Idle, Timed
<1>1. CASE UNCHANGED <<lastRun, bootedAt, lastEvent, run>>
  BY <1>1 DEF OrderInv, StampsNow, Stamps, Now, RunsInOrder, Timed, Range
<1>2. ASSUME NEW s \in Runners, NEW t \in Tasks, Begin(s, t) PROVE OrderInv'
  <2> PICK state : state = [pc |-> "claim", task |-> t, enabled |-> enabled[t],
                            triggers |-> triggers[t]]
    OBVIOUS
  <2>1. Stamped(lastRun, bootedAt, lastEvent, [run EXCEPT ![s] = state]) /\ state.pc \notin Timed
    BY <1>2 DEF Begin, Goto, Timed
  <2> QED
    BY <2>1, QuietOrder
<1>3. ASSUME NEW s \in Runners, Take(s) PROVE OrderInv'
  <2> PICK state : state = [pc |-> "job", task |-> run[s].task, enabled |-> run[s].enabled,
                            triggers |-> run[s].triggers, started |-> Now, ok |-> FALSE]
    OBVIOUS
  <2>1. CASE Stamped(lastRun, bootedAt, lastEvent, [run EXCEPT ![s] = Idle])
    BY <2>1, QuietOrder
  <2>2. CASE Stamped(lastRun, bootedAt, lastEvent, [run EXCEPT ![s] = state])
    <3>1. Shaped(state) /\ state.started = Now /\ state.task = run[s].task
      BY DEF Shaped
    <3>2. run[s].task \in Tasks
      BY <1>3 DEF Take, At, RunsTyped
    <3> QED
      BY <2>2, <3>1, <3>2, KnownStamps, GotoOrder
  <2> QED
    BY <1>3, <2>1, <2>2 DEF Take, Goto
<1>4. ASSUME NEW s \in Runners, Work(s) PROVE OrderInv'
  <2>1. PICK ok \in BOOLEAN : Goto(s, [run[s] EXCEPT !.pc = "save", !.ok = ok])
    BY <1>4 DEF Work
  <2> PICK state : state = [run[s] EXCEPT !.pc = "save", !.ok = ok]
    OBVIOUS
  <2>2. run[s].pc = "job"
    BY <1>4 DEF Work, At
  <2>3. Shaped(state) /\ state.started = run[s].started /\ state.task = run[s].task
    BY <2>2 DEF RunsTyped, Shaped, Timed
  <2>4. run[s].task \in Tasks /\ lastRun[run[s].task] < run[s].started
    BY <2>2 DEF RunsTyped, OrderInv, RunsInOrder, Timed
  <2>5. run[s].started \in Known
    BY <2>2, KnownStamps DEF Timed
  <2>6. Stamped(lastRun, bootedAt, lastEvent, [run EXCEPT ![s] = state])
    BY <2>1 DEF Goto
  <2> QED
    BY <2>3, <2>4, <2>5, <2>6, GotoOrder
<1>5. ASSUME NEW s \in Runners, Save(s) PROVE OrderInv'
  <2> DEFINE q == run[s]
             last == [lastRun EXCEPT ![q.task] = q.started]
  <2>1. /\ q.pc = "save" /\ q.task \in Tasks
        /\ Stamped(last, bootedAt, lastEvent, [run EXCEPT ![s] = Announcing(q)])
    BY <1>5 DEF Save, At, StartOf, RunsTyped
  <2>2. Announcing(q).pc \notin Timed /\ Shaped(Announcing(q))
    BY DEF Announcing, Timed, Shaped
  <2>3. q.started \in Known
    BY <2>1, KnownStamps DEF Timed
  <2>4. last = [t \in Tasks |-> last[t]] /\ \A t \in Tasks : last[t] \in Known
    BY <2>1, <2>3, KnownStamps DEF OrderInv
  <2>5. \A x \in Runners \ {s} :
          run[x].pc \in Timed => last[run[x].task] = lastRun[run[x].task]
    <3>1. TAKE x \in Runners \ {s}
    <3>2. HAVE run[x].pc \in Timed
    <3>3. run[x].task \in Tasks /\ run[x].task # q.task
      BY <2>1, <3>2 DEF ClaimInv, RunsTyped, OneRunAtATime, Holders, Working, Timed
    <3> QED
      BY <3>3 DEF OrderInv
  <2> HIDE DEF q, last
  <2> QED
    BY <2>1, <2>2, <2>4, <2>5, RunnerStamps
<1>6. ASSUME NEW s \in Runners, SaveFails(s) PROVE OrderInv'
  <2>1. Announcing(run[s]).pc \notin Timed
    BY DEF Announcing, Timed
  <2> QED
    BY <1>6, <2>1, QuietOrder DEF SaveFails, Goto
<1>7. ASSUME NEW s \in Runners, Announce(s) PROVE OrderInv'
  BY <1>7, QuietOrder DEF Announce
<1>8. ASSUME NEW s \in Runners, HangUp(s) \/ EditSave(s) PROVE OrderInv'
  BY <1>8, QuietOrder DEF HangUp, EditSave, Goto
<1>9. ASSUME NEW s \in Runners, NEW t \in Tasks, NEW on \in BOOLEAN, NEW kinds \in Schedules,
             EditRead(s, t, on, kinds)
      PROVE  OrderInv'
  <2> PICK state : state = [pc |-> "edit", task |-> t, enabled |-> on, triggers |-> kinds]
    OBVIOUS
  <2>1. Stamped(lastRun, bootedAt, lastEvent, [run EXCEPT ![s] = state]) /\ state.pc \notin Timed
    BY <1>9 DEF EditRead, Goto, Timed
  <2> QED
    BY <2>1, QuietOrder
<1>10. CASE EventHappens
  <2>1. Stamped(lastRun, bootedAt, Now, run)
    BY <1>10 DEF EventHappens
  <2>2. /\ lastRun = [t \in Tasks |-> lastRun[t]] /\ bootedAt \in Known
        /\ \A t \in Tasks : lastRun[t] \in Known
        /\ \A s \in Runners : run[s].pc \in Timed => run[s].started \in Known
    BY KnownStamps DEF OrderInv
  <2>3. /\ Stamps(lastRun, bootedAt, Now, run) \subseteq Nat
        /\ IsFiniteSet(Stamps(lastRun, bootedAt, Now, run))
    BY <2>2, Within
  <2>4. \A s \in Runners : Shaped(run[s])
    BY DEF RunsTyped
  <2>5. \A s \in Runners : run[s].pc \in Timed =>
          run[s].task \in Tasks /\ lastRun[run[s].task] < run[s].started
    BY DEF RunsTyped, OrderInv, RunsInOrder, Timed
  <2> QED
    BY <2>1, <2>2, <2>3, <2>4, <2>5, Renumbered
<1>11. CASE Restart
  <2> PICK runs : runs = [s \in Runners |-> Idle]
    OBVIOUS
  <2>1. Stamped(lastRun, Now, lastEvent, runs)
    BY <1>11 DEF Restart
  <2>2. \A s \in Runners : runs[s].pc \notin Timed /\ Shaped(runs[s])
    BY DEF Shaped
  <2>3. /\ lastRun = [t \in Tasks |-> lastRun[t]]
        /\ \A t \in Tasks : lastRun[t] \in Known
    BY KnownStamps DEF OrderInv
  <2>4. /\ Stamps(lastRun, Now, lastEvent, runs) \subseteq Nat
        /\ IsFiniteSet(Stamps(lastRun, Now, lastEvent, runs))
    BY <2>2, <2>3, Within
  <2> QED
    BY <2>1, <2>2, <2>3, <2>4, Renumbered
<1>12. CASE UNCHANGED vars
  BY <1>1, <1>12 DEF vars
<1>13. ASSUME NEW passed \in SUBSET Tasks, Tick(passed) PROVE OrderInv'
  BY <1>1, <1>13 DEF Tick, times
<1>14. ASSUME NEW t \in Tasks, TimeComes(t) PROVE OrderInv'
  BY <1>1, <1>14 DEF TimeComes, times
<1>15. CASE LoopStep
  BY <1>2, <1>3, <1>4, <1>5, <1>7, <1>15 DEF LoopStep, RunDue, ClaimInv
<1>16. ASSUME NEW s \in Operators,
              HandStep(s) \/ SaveFails(s) \/ HangUp(s) \/ \E t \in Tasks : RunByHand(s, t)
       PROVE  OrderInv'
  BY <1>2, <1>3, <1>4, <1>5, <1>6, <1>7, <1>8, <1>16 DEF HandStep, RunByHand
<1> QED
  BY <1>6, <1>9, <1>10, <1>11, <1>12, <1>13, <1>14, <1>15, <1>16 DEF Next

(* A run never records itself over one that started after it, for any      *)
(* tasks, runs by hand, edits, failed writes and restarts: last_run_at,    *)
(* which the triggers compare, only moves forward (schedule::run writes    *)
(* the start of the run, and only at its end).                             *)
THEOREM RunsStayInOrder == Spec => []RunsInOrder
<1>1. OrderInv => RunsInOrder
  BY DEF OrderInv
<1> QED
  BY InitOrderInv, StepOrderInv, ClaimInvariant, <1>1, PTL DEF Spec

=============================================================================
