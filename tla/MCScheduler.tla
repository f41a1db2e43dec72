---------------------------- MODULE MCScheduler ----------------------------
(* A job to be caught up and one to be given up, over a few minutes.        *)
EXTENDS Scheduler

TriggersHere == [j \in Jobs |-> IF j \in CatchUp THEN {1, 3} ELSE {1, 2}]
LegacyHere == [j \in Jobs |-> IF j \in CatchUp THEN 0 ELSE Never]
=============================================================================
