---------------------------- MODULE MCScheduler ----------------------------
(* TLC instances of Scheduler.                                             *)
EXTENDS Scheduler, TLC

CONSTANTS backup, sweep

JobOrder == <<backup, sweep>>
Follows  == [t \in Tasks |-> IF t = backup THEN sweep ELSE backup]

TimerOrStartup == {{"every"}, {"startup"}}
SelfStarting == {{"every"}, {"startup"}, {"every", "startup"}}
AllKinds == {{"every"}, {"startup", "after"}, {"event", "condition"}}
=============================================================================
