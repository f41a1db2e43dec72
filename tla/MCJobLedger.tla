---------------------------- MODULE MCJobLedger ----------------------------
(* JobLedger on a few processes of one home.                                *)
EXTENDS JobLedger, TLC

AnyOrder == Permutations(Procs \ Lockless) \cup Permutations(Pids)
=============================================================================
