----------------------------- MODULE JobLedger ------------------------------
(***************************************************************************)
(* Background jobs and their ledger (joyczl-app-server/src/jobs.rs,        *)
(* joyczl-state/src/jobs.rs), across the processes that share one          *)
(* state.db (module DaemonLock).                                           *)
(*                                                                         *)
(* A process numbers its jobs from 1; the row of job n is keyed by n alone.*)
(* A job is in its process's hands; the row is written when it starts, by  *)
(* the task that watches it when it ends, and by every process that boots, *)
(* which marks what is still `running` as interrupted.  A write that fails *)
(* is logged and left: here, one that is not made.                         *)
(***************************************************************************)
EXTENDS DaemonLock

CONSTANT MaxJobs   \* bound: jobs per process

ASSUME JobLedgerAssumption == MaxJobs \in Nat

Ids == 1..MaxJobs

VARIABLES
    next,      \* next[p]: jobs p has started
    job,       \* job[p][i]: the phase of job i of p
    reported,  \* reported[p][i]: has the watcher written how job i of p ended?
    row,       \* the jobs table: row[i] is the set of at most one [by, status]
    collided,  \* history: ids whose INSERT was refused
    visited    \* history: has a process booted next to a running one?

jobVars == <<next, job, reported, row, collided, visited>>
vars == <<lockVars, jobVars>>

\* "exited" stands for completed and failed, which differ by the exit code.
Outcomes == {"exited", "killed"}

(***************************************************************************)
(* "starting": the child runs, its row is being inserted.  "stopping":     *)
(* job_kill has been called.  "dropped": the call that started it was      *)
(* interrupted, and nobody watches.                                        *)
(***************************************************************************)
Phases == {"none", "starting", "running", "stopping", "dropped"} \cup Outcomes

Init ==
    /\ LockInit
    /\ next = [p \in Procs |-> 0]
    /\ job = [p \in Procs |-> [i \in Ids |-> "none"]]
    /\ reported = [p \in Procs |-> [i \in Ids |-> FALSE]]
    /\ row = [i \in Ids |-> {}]
    /\ collided = {}
    /\ visited = FALSE

Move(p, i, from, to) ==
    /\ pc[p] = "serving"
    /\ job[p][i] \in from
    /\ job' = [job EXCEPT ![p][i] = to]

-----------------------------------------------------------------------------
\* Mutant: the UPDATE has lost its WHERE status = 'running'.
InterruptedAll(rows) == {[r EXCEPT !.status = "interrupted"] : r \in rows}

\* reconcile_interrupted, of one row.
Interrupted(rows) ==
    {IF r.status = "running" THEN [r EXCEPT !.status = "interrupted"] ELSE r : r \in rows}

\* Server::open reaches Jobs::reconcile; then the process serves.
Reconcile(p) ==
    /\ Goto(p, "boot", "serving")
    /\ row' = [i \in Ids |-> Interrupted(row[i])]
    /\ visited' = (visited \/ \E q \in Procs \ {p} : pc[q] \in Running)
    /\ UNCHANGED <<attempt, seen, file, others, history, next, job, reported, collided>>

Spawn(p) ==
    /\ pc[p] = "serving"
    /\ next[p] < MaxJobs
    /\ next' = [next EXCEPT ![p] = @ + 1]
    /\ job' = [job EXCEPT ![p][next'[p]] = "starting"]
    /\ UNCHANGED <<lockVars, reported, row, collided, visited>>

\* record_started: id is the primary key; a refusal is only logged.
Insert(p, i) ==
    IF row[i] = {}
    THEN /\ row' = [row EXCEPT ![i] = {[by |-> p, status |-> "running"]}]
         /\ UNCHANGED collided
    ELSE /\ collided' = collided \cup {i}
         /\ UNCHANGED row

RecordStarted(p, i) ==
    /\ Move(p, i, {"starting"}, "running")
    /\ Insert(p, i)
    /\ UNCHANGED <<lockVars, next, reported, visited>>

\* The turn is interrupted here: the child dies with the future, and the row
\* may have been written.
SpawnDropped(p, i) ==
    /\ Move(p, i, {"starting"}, "dropped")
    /\ Insert(p, i) \/ UNCHANGED <<row, collided>>
    /\ UNCHANGED <<lockVars, next, reported, visited>>

\* job_kill.
Kill(p, i) ==
    /\ Move(p, i, {"running"}, "stopping")
    /\ UNCHANGED <<lockVars, next, reported, row, collided, visited>>

\* The watcher's select!: the child ended by itself, or it is to be killed.
Ends(p, i) ==
    /\ Move(p, i, {"running", "stopping"}, "exited")
    /\ UNCHANGED <<lockVars, next, reported, row, collided, visited>>

Stops(p, i) ==
    /\ Move(p, i, {"stopping"}, "killed")
    /\ UNCHANGED <<lockVars, next, reported, row, collided, visited>>

Report(p, i) ==
    /\ pc[p] = "serving"
    /\ job[p][i] \in Outcomes
    /\ ~reported[p][i]
    /\ reported' = [reported EXCEPT ![p][i] = TRUE]

\* Mutant: an end is recorded only over `running`.
RecordFinishedIfRunning(p, i) ==
    /\ Report(p, i)
    /\ row' = [row EXCEPT ![i] =
        {IF r.status = "running" THEN [r EXCEPT !.status = job[p][i]] ELSE r : r \in @}]
    /\ UNCHANGED <<lockVars, next, job, collided, visited>>

\* record_finished: UPDATE .. WHERE id = ?, whoever's row that is.
RecordFinished(p, i) ==
    /\ Report(p, i)
    /\ row' = [row EXCEPT ![i] = {[r EXCEPT !.status = job[p][i]] : r \in @}]
    /\ UNCHANGED <<lockVars, next, job, collided, visited>>

-----------------------------------------------------------------------------
JobStep(p) ==
    \/ Reconcile(p)
    \/ Spawn(p)
    \/ \E i \in Ids :
        \/ RecordStarted(p, i)
        \/ SpawnDropped(p, i)
        \/ Kill(p, i)
        \/ Ends(p, i)
        \/ Stops(p, i)
        \/ RecordFinished(p, i)

ProcessStep(p) ==
    /\ LockStep(p) \/ Exit(p) \/ Crash(p)
    /\ UNCHANGED jobVars

StrangerStep(n) ==
    /\ StrangerComes(n) \/ StrangerGoes(n)
    /\ UNCHANGED jobVars

Next ==
    \/ \E p \in Procs : ProcessStep(p) \/ JobStep(p)
    \/ \E n \in Pids : StrangerStep(n)

Spec == Init /\ [][Next]_vars

-----------------------------------------------------------------------------
TypeOK ==
    /\ LockTypeOK
    /\ next \in [Procs -> 0..MaxJobs]
    /\ job \in [Procs -> [Ids -> Phases]]
    /\ reported \in [Procs -> [Ids -> BOOLEAN]]
    /\ row \in [Ids -> SUBSET [by : Procs, status : {"running", "interrupted"} \cup Outcomes]]
    /\ \A i \in Ids : Cardinality(row[i]) <= 1
    /\ collided \subseteq Ids
    /\ visited \in BOOLEAN

(***************************************************************************)
(* How a job ended, once written, stays written: through boots that mark   *)
(* rows interrupted, their own or other processes', before or after.       *)
(***************************************************************************)
LedgerTellsTheTruth ==
    \A i \in Ids \ collided : \A r \in row[i] :
        reported[r.by][i] => r.status = job[r.by][i]

(***************************************************************************)
(* jobs.rs: "when the process dies, what ran and how far is still there".  *)
(***************************************************************************)
LedgerKeepsEveryJob ==
    \A p \in Procs, i \in Ids :
        reported[p][i] => row[i] = {[by |-> p, status |-> job[p][i]]}
=============================================================================
