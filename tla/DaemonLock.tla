----------------------------- MODULE DaemonLock -----------------------------
(***************************************************************************)
(* The daemon lock (joyczl-app-server/src/lock.rs) and the life of the     *)
(* processes that open one <home> (joyczl-cli/src/main.rs).                *)
(*                                                                         *)
(* The lock is a file: created exclusively, then filled with the pid.  An  *)
(* app-server that finds one reads the pid, looks whether it is alive, and *)
(* either gives up or removes the file and tries again.  The REPL,         *)
(* `joy schedule` and `joy gather` take no lock.  Every system call is a   *)
(* step; a removal removes whatever file has the name by then.             *)
(*                                                                         *)
(* A pid is free again when its process is gone: another process of this   *)
(* home may get it, or a stranger, a process of any other program.         *)
(***************************************************************************)
EXTENDS Naturals, FiniteSets

CONSTANTS
    Procs,      \* the processes; each is started once
    Lockless,   \* those that are not app-servers
    Pids        \* bound: the pids of the machine

ASSUME DaemonLockAssumption == Lockless \subseteq Procs

VARIABLES
    pc,        \* where each process is
    attempt,   \* attempt[p]: attempts p has used up, of two
    seen,      \* seen[p]: whose pid p read, as the set of at most one process
    file,      \* the lock file: the set of at most one [by, written]
    pid,       \* pid[p]: the pid p gets when it is started
    strangers, \* the pids that processes of other programs have
    raced,     \* history: have two app-servers been acquiring at once?
    misjudged  \* history: has a process been taken for dead that lives?

others == <<pid, strangers>>
history == <<raced, misjudged>>
lockVars == <<pc, attempt, seen, file, others, history>>

Acquiring == {"open", "write", "read", "judge", "reap"}
Running == {"boot", "serving"}

Live == {p \in Procs : pc[p] \in Acquiring \cup Running}

Borne == strangers \cup {pid[p] : p \in Live}

\* Mutant: a pid once given out counts as alive.
AliveForEver(n) == \E p \in Procs : pc[p] # "new" /\ pid[p] = n

\* `kill -0`: any process that has the pid will do.
Alive(n) == n \in Borne

LockInit ==
    /\ pc = [p \in Procs |-> "new"]
    /\ attempt = [p \in Procs |-> 0]
    /\ seen = [p \in Procs |-> {}]
    /\ file = {}
    /\ pid \in [Procs -> Pids]
    /\ strangers = {}
    /\ raced = FALSE
    /\ misjudged = FALSE

Goto(p, from, to) ==
    /\ pc[p] = from
    /\ pc' = [pc EXCEPT ![p] = to]

-----------------------------------------------------------------------------
Launch(p) ==
    /\ p \notin Lockless
    /\ pid[p] \notin Borne
    /\ Goto(p, "new", "open")
    /\ raced' = (raced \/ \E q \in Procs : pc[q] \in Acquiring)
    /\ UNCHANGED <<attempt, seen, file, others, misjudged>>

LaunchLockless(p) ==
    /\ p \in Lockless
    /\ pid[p] \notin Borne
    /\ Goto(p, "new", "boot")
    /\ UNCHANGED <<attempt, seen, file, others, history>>

\* create_new: there was no file.
Create(p) ==
    /\ file = {}
    /\ Goto(p, "open", "write")
    /\ file' = {[by |-> p, written |-> FALSE]}
    /\ UNCHANGED <<attempt, seen, others, history>>

\* The pid goes into the file p created, whether or not it still has the name.
WritePid(p) ==
    /\ Goto(p, "write", "boot")
    /\ file' = {IF f.by = p THEN [f EXCEPT !.written = TRUE] ELSE f : f \in file}
    /\ UNCHANGED <<attempt, seen, others, history>>

WriteFails(p) ==
    /\ Goto(p, "write", "refused")
    /\ file' = {}
    /\ UNCHANGED <<attempt, seen, others, history>>

AlreadyExists(p) ==
    /\ file # {}
    /\ Goto(p, "open", "read")
    /\ UNCHANGED <<attempt, seen, file, others, history>>

\* A file that is gone or still empty reads as "".
ReadPid(p) ==
    /\ Goto(p, "read", "judge")
    /\ seen' = [seen EXCEPT ![p] = {f.by : f \in {g \in file : g.written}}]
    /\ UNCHANGED <<attempt, file, others, history>>

GiveUp(p) ==
    /\ \E q \in seen[p] : Alive(pid[q])
    /\ Goto(p, "judge", "refused")
    /\ seen' = [seen EXCEPT ![p] = {}]
    /\ UNCHANGED <<attempt, file, others, history>>

\* Mutant: a file that is there is taken for a leftover.
JudgeAlwaysStale(p) ==
    /\ Goto(p, "judge", "reap")
    /\ seen' = [seen EXCEPT ![p] = {}]
    /\ UNCHANGED <<attempt, file, others, history>>

\* Empty, or the process is gone.
Judge(p) ==
    /\ \A q \in seen[p] : ~Alive(pid[q])
    /\ Goto(p, "judge", "reap")
    /\ seen' = [seen EXCEPT ![p] = {}]
    /\ UNCHANGED <<attempt, file, others, history>>

\* `kill` could not be run, or may not ask: that counts as gone.
ProbeFails(p) ==
    /\ \E q \in seen[p] : Alive(pid[q])
    /\ Goto(p, "judge", "reap")
    /\ seen' = [seen EXCEPT ![p] = {}]
    /\ misjudged' = TRUE
    /\ UNCHANGED <<attempt, file, others, raced>>

\* Remove it and try again; there are two attempts.
Reap(p) ==
    /\ Goto(p, "reap", IF attempt[p] = 1 THEN "refused" ELSE "open")
    /\ attempt' = [attempt EXCEPT ![p] = @ + 1]
    /\ file' = {}
    /\ UNCHANGED <<seen, others, history>>

\* DaemonLock::drop removes the file by its name.
Exit(p) ==
    /\ pc[p] \in Running
    /\ pc' = [pc EXCEPT ![p] = "gone"]
    /\ file' = IF p \in Lockless THEN file ELSE {}
    /\ UNCHANGED <<attempt, seen, others, history>>

Crash(p) ==
    /\ p \in Live
    /\ pc' = [pc EXCEPT ![p] = "gone"]
    /\ UNCHANGED <<attempt, seen, file, others, history>>

StrangerComes(n) ==
    /\ n \notin Borne
    /\ strangers' = strangers \cup {n}
    /\ UNCHANGED <<pc, attempt, seen, file, pid, history>>

StrangerGoes(n) ==
    /\ n \in strangers
    /\ strangers' = strangers \ {n}
    /\ UNCHANGED <<pc, attempt, seen, file, pid, history>>

-----------------------------------------------------------------------------
LockStep(p) ==
    \/ Launch(p)
    \/ LaunchLockless(p)
    \/ Create(p)
    \/ WritePid(p)
    \/ WriteFails(p)
    \/ AlreadyExists(p)
    \/ ReadPid(p)
    \/ GiveUp(p)
    \/ Judge(p)
    \/ ProbeFails(p)
    \/ Reap(p)

Daemons == {p \in Procs \ Lockless : pc[p] \in Running}

LockTypeOK ==
    /\ pc \in [Procs -> {"new", "refused", "gone"} \cup Acquiring \cup Running]
    /\ attempt \in [Procs -> 0..2]
    /\ seen \in [Procs -> SUBSET Procs]
    /\ file \subseteq [by : Procs, written : BOOLEAN]
    /\ pid \in [Procs -> Pids]
    /\ strangers \subseteq Pids
    /\ raced \in BOOLEAN
    /\ misjudged \in BOOLEAN

\* No two app-servers were started at the same time, and nobody who was asked
\* after was taken for dead in his lifetime.
Orderly == ~raced /\ ~misjudged

(***************************************************************************)
(* lock.rs: one app-server per <home>, also after crashes that leave the   *)
(* file behind, and whoever has got the pid in it since.  So it is as long *)
(* as no two are started at the same time and `kill -0` can be asked: that *)
(* it cannot be run is taken for an answer (process_alive).                *)
(***************************************************************************)
OneDaemon ==
    Orderly => Cardinality(Daemons) <= 1

(***************************************************************************)
(* A leftover lock is cleared away: an app-server is turned away only when *)
(* there is another, when it cannot write the file (acquire), or when the  *)
(* one that left the file is gone and its pid belongs to somebody else --  *)
(* a stranger, or this very app-server.  lock.rs has no such exception:    *)
(* "alive: an error; dead: the remains of a crash, cleared away".          *)
(***************************************************************************)
NotRefusedByTheDead ==
    [][Orderly =>
        \A p \in Procs : pc[p] # "refused" /\ pc'[p] = "refused" =>
            \/ pc[p] = "write"
            \/ \E q \in Daemons : q # p
            \/ \E q \in seen[p] : pc[q] = "gone" /\ pid[q] \in Borne]_lockVars
=============================================================================
