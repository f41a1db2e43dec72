-------------------------- MODULE JobLedgerProofs --------------------------
(***************************************************************************)
(* The daemon lock and the ledger of jobs, for every set of processes and  *)
(* every number of jobs: one app-server per home, a leftover lock that     *)
(* stops nobody, and a ledger that says how each job ended.                *)
(***************************************************************************)
EXTENDS JobLedger, FiniteSetTheorems, TLAPS

-----------------------------------------------------------------------------
(* The lock                                                                *)

\* Only an app-server acquires, and a pid is in the file only once its owner
\* is through acquiring or dead.
Owners ==
    /\ \A p \in Procs : pc[p] \in Acquiring => p \notin Lockless
    /\ \A f \in file : f.by \notin Lockless /\ (f.written => pc[f.by] \in Running \cup {"gone"})
    /\ \A p \in Procs : \A q \in seen[p] : q \notin Lockless /\ pc[q] \in Running \cup {"gone"}

\* One at a time, while no two have been started at once and none was taken for
\* dead in its lifetime.  The file is the
\* acquirer's while it writes its pid, and a daemon's as long as it runs; who
\* has read it has read every daemon there is.
OneAcquires == \A p, q \in Procs : pc[p] \in Acquiring /\ pc[q] \in Acquiring => p = q

Held ==
    /\ \A p \in Daemons : file = {[by |-> p, written |-> TRUE]}
    /\ \A p \in Procs : pc[p] = "write" => file = {[by |-> p, written |-> FALSE]}

ReadIsTrue ==
    \A p \in Procs :
        /\ pc[p] = "judge" => Daemons \subseteq seen[p]
        /\ pc[p] = "reap" => Daemons = {}

FirstTry ==
    \A p \in Procs :
        /\ pc[p] \in {"read", "judge", "reap"} => attempt[p] = 0
        /\ pc[p] = "open" /\ attempt[p] # 0 => file = {}

\* There are two attempts.
Tries ==
    \A p \in Procs :
        /\ pc[p] = "new" => attempt[p] = 0
        /\ pc[p] \in Acquiring => attempt[p] \in {0, 1}

Unraced == OneAcquires /\ Held /\ ReadIsTrue /\ FirstTry

LockIInv == LockTypeOK /\ Owners /\ Tries /\ (Orderly => Unraced)

LEMMA LockAtTheStart == LockInit => LockIInv
<1> SUFFICES ASSUME LockInit PROVE LockIInv
    OBVIOUS
<1> USE DEF LockInit, Acquiring, Running, others, history
<1>1. LockTypeOK
  <2>1. pc \in [Procs -> {"new", "refused", "gone"} \cup Acquiring \cup Running]
      OBVIOUS
  <2>2. attempt \in [Procs -> 0..2] /\ seen \in [Procs -> SUBSET Procs]
      OBVIOUS
  <2>3. /\ file \subseteq [by : Procs, written : BOOLEAN] /\ raced \in BOOLEAN /\ misjudged \in BOOLEAN
        /\ pid \in [Procs -> Pids] /\ strangers \subseteq Pids
      OBVIOUS
  <2> QED
      BY <2>1, <2>2, <2>3 DEF LockTypeOK
<1>2. Tries
    BY DEF Tries
<1>3. Owners
    BY DEF Owners
<1>4. Unraced
    BY DEF Unraced, OneAcquires, Held, ReadIsTrue, FirstTry, Daemons
<1> QED
    BY <1>1, <1>2, <1>3, <1>4 DEF LockIInv

\* The file in which an acquirer writes its pid is no daemon's.
LEMMA WriterIsAlone ==
    ASSUME LockIInv, Orderly, NEW p \in Procs, pc[p] = "write"
    PROVE  file = {[by |-> p, written |-> FALSE]} /\ Daemons = {}
<1>1. file = {[by |-> p, written |-> FALSE]}
    BY DEF LockIInv, Unraced, Held
<1>2. ASSUME NEW q \in Daemons PROVE FALSE
  <2>1. file = {[by |-> q, written |-> TRUE]}
      BY <1>2 DEF LockIInv, Unraced, Held
  <2>2. [by |-> p, written |-> FALSE] = [by |-> q, written |-> TRUE]
      BY <1>1, <2>1
  <2>3. [by |-> p, written |-> FALSE].written = [by |-> q, written |-> TRUE].written
      BY <2>2
  <2> QED
      BY <2>3
<1> QED
    BY <1>1, <1>2

\* Launching beside an acquirer is what raced records.
LEMMA LaunchKeepsLock ==
    ASSUME LockIInv, NEW p \in Procs, Launch(p) \/ LaunchLockless(p)
    PROVE  LockIInv'
<1> USE DEF Goto, Acquiring, Running, others, history, Orderly
<1>1. LockTypeOK' /\ Tries'
    BY DEF LockIInv, LockTypeOK, Tries, Launch, LaunchLockless
<1>2. Owners'
    BY DEF LockIInv, LockTypeOK, Owners, Launch, LaunchLockless
<1>3. ASSUME Orderly' PROVE Unraced'
  <2>1. Orderly /\ Unraced
      BY <1>3 DEF LockIInv, LockTypeOK, Launch, LaunchLockless
  <2>2. Daemons' = Daemons
      BY DEF LockIInv, LockTypeOK, Daemons, Launch, LaunchLockless
  <2>3. OneAcquires'
      BY <1>3, <2>1 DEF LockIInv, LockTypeOK, Unraced, OneAcquires, Launch, LaunchLockless
  <2>4. Held' /\ ReadIsTrue'
      BY <2>1, <2>2 DEF LockIInv, LockTypeOK, Unraced, Held, ReadIsTrue, Launch, LaunchLockless
  <2>5. FirstTry'
      BY <2>1 DEF LockIInv, LockTypeOK, Unraced, Tries, FirstTry, Launch, LaunchLockless
  <2> QED
      BY <2>3, <2>4, <2>5 DEF Unraced
<1> QED
    BY <1>1, <1>2, <1>3 DEF LockIInv

\* Creating and filling the file: nobody else has one.
LEMMA CreateKeepsLock ==
    ASSUME LockIInv, NEW p \in Procs, Create(p) \/ WritePid(p) \/ WriteFails(p)
    PROVE  LockIInv'
<1> USE DEF Goto, Acquiring, Running, others, history, Orderly
<1>1. LockTypeOK' /\ Tries'
  <2>1. /\ pc' \in [Procs -> {"new", "refused", "gone"} \cup Acquiring \cup Running]
        /\ UNCHANGED <<attempt, seen, others, history>>
      BY DEF LockIInv, LockTypeOK, Create, WritePid, WriteFails
  <2>2. file' \subseteq [by : Procs, written : BOOLEAN]
    <3>1. CASE Create(p) \/ WriteFails(p)
      <4>1. [by |-> p, written |-> FALSE] \in [by : Procs, written : BOOLEAN]
          OBVIOUS
      <4> QED
          BY <3>1, <4>1 DEF Create, WriteFails
    <3>2. CASE WritePid(p)
      <4> DEFINE fill(f) == IF f.by = p THEN [f EXCEPT !.written = TRUE] ELSE f
      <4>1. \A f \in file : fill(f) \in [by : Procs, written : BOOLEAN]
          BY DEF LockIInv, LockTypeOK
      <4>2. file' = {fill(f) : f \in file}
          BY <3>2 DEF WritePid
      <4> HIDE DEF fill
      <4> QED
          BY <4>1, <4>2
    <3> QED
        BY <3>1, <3>2
  <2>3. Tries'
      BY DEF LockIInv, LockTypeOK, Tries, Create, WritePid, WriteFails
  <2> QED
      BY <2>1, <2>2, <2>3 DEF LockIInv, LockTypeOK
<1>2. Owners'
    BY DEF LockIInv, LockTypeOK, Owners, Create, WritePid, WriteFails
<1>3. ASSUME Orderly' PROVE Unraced'
  <2>1. Orderly /\ Unraced
      BY <1>3 DEF LockIInv, LockTypeOK, Create, WritePid, WriteFails
  <2>2. OneAcquires'
      BY <2>1 DEF LockIInv, LockTypeOK, Unraced, OneAcquires, Create, WritePid, WriteFails
  <2>3. CASE Create(p)
    <3>1. Daemons = {} /\ Daemons' = {}
        BY <2>1, <2>3 DEF LockIInv, LockTypeOK, Unraced, Held, Daemons, Create
    <3>2. Held'
        BY <2>1, <2>3, <3>1 DEF LockIInv, LockTypeOK, Unraced, OneAcquires, Held, Create
    <3>3. ReadIsTrue' /\ FirstTry'
        BY <2>1, <2>3, <3>1 DEF LockIInv, LockTypeOK, Unraced, OneAcquires, ReadIsTrue, FirstTry, Create
    <3> QED
        BY <2>2, <3>2, <3>3 DEF Unraced
  <2>4. CASE WritePid(p)
    <3>1. file = {[by |-> p, written |-> FALSE]} /\ Daemons = {}
        BY <2>1, <2>4, WriterIsAlone DEF WritePid
    <3>2. file' = {[by |-> p, written |-> TRUE]} /\ Daemons' = {p}
        BY <2>4, <3>1 DEF LockIInv, LockTypeOK, Owners, Daemons, WritePid
    <3>3. \A q \in Procs : pc'[q] \notin Acquiring
        BY <2>1, <2>4 DEF LockIInv, LockTypeOK, Unraced, OneAcquires, WritePid
    <3>4. Held' /\ ReadIsTrue'
        BY <3>2, <3>3 DEF Held, ReadIsTrue
    <3>5. FirstTry'
        BY <2>1, <2>4, <3>3 DEF LockIInv, LockTypeOK, Unraced, FirstTry, WritePid
    <3> QED
        BY <2>2, <3>4, <3>5 DEF Unraced
  <2>5. CASE WriteFails(p)
    <3>1. Daemons = {}
        BY <2>1, <2>5, WriterIsAlone DEF WriteFails
    <3>2. Daemons' = {}
        BY <2>5, <3>1 DEF LockIInv, LockTypeOK, Daemons, WriteFails
    <3>3. \A q \in Procs : pc'[q] \notin Acquiring
        BY <2>1, <2>5 DEF LockIInv, LockTypeOK, Unraced, OneAcquires, WriteFails
    <3>4. Held' /\ ReadIsTrue'
        BY <3>2, <3>3 DEF Held, ReadIsTrue
    <3>5. FirstTry'
        BY <2>1, <2>5, <3>3 DEF LockIInv, LockTypeOK, Unraced, FirstTry, WriteFails
    <3> QED
        BY <2>2, <3>4, <3>5 DEF Unraced
  <2> QED
      BY <2>3, <2>4, <2>5
<1> QED
    BY <1>1, <1>2, <1>3 DEF LockIInv

\* Reading the file and judging the pid in it.
LEMMA JudgingKeepsLock ==
    ASSUME LockIInv, NEW p \in Procs,
           AlreadyExists(p) \/ ReadPid(p) \/ GiveUp(p) \/ Judge(p) \/ ProbeFails(p) \/ Reap(p)
    PROVE  LockIInv'
<1> USE DEF Goto, Acquiring, Running, others, history, Orderly
<1>1. LockTypeOK' /\ Tries'
  <2>1. CASE Reap(p)
      BY <2>1 DEF LockIInv, LockTypeOK, Tries, Reap
  <2>2. CASE AlreadyExists(p) \/ GiveUp(p) \/ Judge(p) \/ ProbeFails(p)
      BY <2>2 DEF LockIInv, LockTypeOK, Tries, AlreadyExists, GiveUp, Judge, ProbeFails
  <2>3. CASE ReadPid(p)
    <3>1. {f.by : f \in {g \in file : g.written}} \in SUBSET Procs
        BY DEF LockIInv, LockTypeOK
    <3> QED
        BY <2>3, <3>1 DEF LockIInv, LockTypeOK, Tries, ReadPid
  <2> QED
      BY <2>1, <2>2, <2>3
<1>2. Owners'
    BY DEF LockIInv, LockTypeOK, Owners, AlreadyExists, ReadPid, GiveUp, Judge, ProbeFails, Reap
<1>3. Daemons' = Daemons
    BY DEF LockIInv, LockTypeOK, Daemons, AlreadyExists, ReadPid, GiveUp, Judge, ProbeFails, Reap
<1>4. ASSUME Orderly' PROVE Unraced'
  <2>1. Orderly /\ Unraced
      BY <1>4 DEF LockIInv, LockTypeOK, AlreadyExists, ReadPid, GiveUp, Judge, ProbeFails, Reap
  <2>2. OneAcquires'
      BY <2>1 DEF LockIInv, LockTypeOK, Unraced, OneAcquires, AlreadyExists, ReadPid, GiveUp, Judge, ProbeFails, Reap
  <2>3. CASE AlreadyExists(p)
      BY <1>3, <2>1, <2>2, <2>3 DEF LockIInv, LockTypeOK, Unraced, Held, ReadIsTrue, FirstTry, AlreadyExists
  <2>4. CASE ReadPid(p)
    <3>1. ASSUME NEW q \in Daemons PROVE q \in seen'[p]
      <4>1. file = {[by |-> q, written |-> TRUE]}
          BY <2>1 DEF Unraced, Held
      <4>2. seen'[p] = {f.by : f \in {g \in file : g.written}}
          BY <2>4 DEF LockIInv, LockTypeOK, ReadPid
      <4>3. [by |-> q, written |-> TRUE] \in {g \in file : g.written}
          BY <4>1
      <4>4. [by |-> q, written |-> TRUE].by = q
          OBVIOUS
      <4> QED
          BY <4>2, <4>3, <4>4
    <3> QED
        BY <1>3, <2>1, <2>2, <2>4, <3>1
           DEF LockIInv, LockTypeOK, Unraced, OneAcquires, Held, ReadIsTrue, FirstTry, ReadPid
  <2>5. CASE GiveUp(p)
      BY <1>3, <2>1, <2>2, <2>5
         DEF LockIInv, LockTypeOK, Unraced, OneAcquires, Held, ReadIsTrue, FirstTry, GiveUp
  <2>6. CASE Judge(p)
    <3>1. Daemons = {}
        BY <2>1, <2>6 DEF LockIInv, LockTypeOK, Unraced, ReadIsTrue, Daemons, Alive, Borne, Live, Judge
    <3> QED
        BY <1>3, <2>1, <2>2, <2>6, <3>1
           DEF LockIInv, LockTypeOK, Unraced, OneAcquires, Held, ReadIsTrue, FirstTry, Judge
  <2>7. CASE Reap(p)
    <3>1. Daemons = {} /\ file' = {}
        BY <2>1, <2>7 DEF LockIInv, Unraced, ReadIsTrue, Reap
    <3> QED
        BY <1>3, <2>1, <2>2, <2>7, <3>1
           DEF LockIInv, LockTypeOK, Unraced, OneAcquires, Held, ReadIsTrue, FirstTry, Reap
  <2>8. CASE ProbeFails(p)
      BY <1>4, <2>8 DEF ProbeFails
  <2> QED
      BY <2>3, <2>4, <2>5, <2>6, <2>7, <2>8
<1> QED
    BY <1>1, <1>2, <1>4 DEF LockIInv

\* A process that is gone, in order or not: a daemon takes its file along or
\* leaves it behind with the pid of a dead process.
LEMMA GoingKeepsLock ==
    ASSUME LockIInv, NEW p \in Procs, Exit(p) \/ Crash(p)
    PROVE  LockIInv'
<1> USE DEF Acquiring, Running, others, history, Orderly
<1>1. /\ pc' = [pc EXCEPT ![p] = "gone"] /\ pc[p] \in Acquiring \cup Running
      /\ UNCHANGED <<attempt, seen, others, history>>
      /\ \/ pc[p] \in Running /\ p \notin Lockless /\ file' = {}
         \/ pc[p] \in Running /\ p \in Lockless /\ file' = file
         \/ Crash(p) /\ file' = file
    BY DEF Exit, Crash, Live
<1>2. LockTypeOK' /\ Tries'
    BY <1>1 DEF LockIInv, LockTypeOK, Tries
<1>3. Owners'
    BY <1>1 DEF LockIInv, LockTypeOK, Owners
<1>4. Daemons' = Daemons \ {p}
    BY <1>1 DEF LockIInv, LockTypeOK, Daemons
<1>5. ASSUME Orderly' PROVE Unraced'
  <2>1. Orderly /\ Unraced
      BY <1>1, <1>5 DEF LockIInv
  <2>2. OneAcquires' /\ ReadIsTrue' /\ FirstTry'
      BY <1>1, <1>4, <2>1 DEF LockIInv, LockTypeOK, Unraced, OneAcquires, ReadIsTrue, FirstTry
  <2>3. CASE file' = file
    <3>1. Held'
        BY <1>1, <1>4, <2>1, <2>3 DEF LockIInv, LockTypeOK, Unraced, Held
    <3> QED
        BY <2>2, <3>1 DEF Unraced
  <2>4. CASE pc[p] \in Running /\ p \notin Lockless /\ file' = {}
    <3>1. p \in Daemons /\ file = {[by |-> p, written |-> TRUE]}
        BY <2>1, <2>4 DEF Unraced, Held, Daemons
    <3>2. \A q \in Daemons : q = p
      <4>1. ASSUME NEW q \in Daemons PROVE [by |-> q, written |-> TRUE] = [by |-> p, written |-> TRUE]
          BY <2>1, <3>1 DEF Unraced, Held
      <4>2. ASSUME NEW q \in Daemons PROVE [by |-> q, written |-> TRUE].by = [by |-> p, written |-> TRUE].by
          BY <4>1
      <4> QED
          BY <4>2
    <3>3. \A q \in Procs : pc[q] # "write"
        BY <2>1, <3>1, WriterIsAlone
    <3>4. Held'
        BY <1>1, <1>4, <3>2, <3>3 DEF LockIInv, LockTypeOK, Held
    <3> QED
        BY <2>2, <3>4 DEF Unraced
  <2> QED
      BY <1>1, <2>2, <2>3, <2>4 DEF Unraced
<1> QED
    BY <1>2, <1>3, <1>5 DEF LockIInv

\* Between boot and serving a process is running all the same.
LEMMA ServingKeepsLock ==
    ASSUME LockIInv, NEW p \in Procs, Reconcile(p)
    PROVE  LockIInv'
<1> USE DEF Acquiring, Running, others, history, Orderly
<1>1. pc[p] = "boot" /\ pc' = [pc EXCEPT ![p] = "serving"] /\ UNCHANGED <<attempt, seen, file, others, history>>
    BY DEF Reconcile, Goto
<1>2. LockTypeOK' /\ Tries'
    BY <1>1 DEF LockIInv, LockTypeOK, Tries
<1>3. Owners'
    BY <1>1 DEF LockIInv, LockTypeOK, Owners
<1>4. Daemons' = Daemons
    BY <1>1 DEF LockIInv, LockTypeOK, Daemons
<1>5. Unraced => Unraced'
    BY <1>1, <1>4 DEF LockIInv, LockTypeOK, Unraced, OneAcquires, Held, ReadIsTrue, FirstTry
<1> QED
    BY <1>1, <1>2, <1>3, <1>5 DEF LockIInv

\* Whoever else comes and goes on the machine.
LEMMA StrangersKeepLock ==
    ASSUME LockIInv, NEW n \in Pids, StrangerStep(n)
    PROVE  LockIInv'
<1>1. UNCHANGED <<pc, attempt, seen, file, pid, raced, misjudged>> /\ strangers' \subseteq Pids
    BY DEF StrangerStep, StrangerComes, StrangerGoes, history, LockIInv, LockTypeOK
<1> QED
    BY <1>1 DEF LockIInv, LockTypeOK, Owners, Tries, Unraced, OneAcquires, Held, ReadIsTrue, FirstTry,
       Daemons, Orderly

LEMMA StutterKeepsLock == LockIInv /\ UNCHANGED lockVars => LockIInv'
BY DEF LockIInv, LockTypeOK, Owners, Tries, Unraced, OneAcquires, Held, ReadIsTrue, FirstTry,
   Daemons, lockVars, others, history, Orderly

LEMMA StepsKeepLock == LockIInv /\ [Next]_vars => LockIInv'
<1> SUFFICES ASSUME LockIInv, [Next]_vars PROVE LockIInv'
    OBVIOUS
<1>1. CASE UNCHANGED vars
    BY <1>1, StutterKeepsLock DEF vars
<1>2. ASSUME NEW p \in Procs, ProcessStep(p) PROVE LockIInv'
    BY <1>2, LaunchKeepsLock, CreateKeepsLock, JudgingKeepsLock, GoingKeepsLock
       DEF ProcessStep, LockStep
<1>3. ASSUME NEW p \in Procs, JobStep(p) PROVE LockIInv'
  <2>1. Reconcile(p) \/ UNCHANGED lockVars
      BY <1>3 DEF JobStep, Spawn, RecordStarted, SpawnDropped, Kill, Ends, Stops, RecordFinished
  <2> QED
      BY <2>1, ServingKeepsLock, StutterKeepsLock
<1> QED
    BY <1>1, <1>2, <1>3, StrangersKeepLock DEF Next

LEMMA LockIInvHolds == Spec => []LockIInv
<1>1. Init => LockIInv
    BY LockAtTheStart DEF Init
<1> QED
    BY <1>1, StepsKeepLock, PTL DEF Spec

\* Two daemons would both own the one file there is.
LEMMA OwnersAreOne == LockIInv => OneDaemon
<1> SUFFICES ASSUME LockIInv, Orderly PROVE Cardinality(Daemons) <= 1
    BY DEF OneDaemon
<1>1. ASSUME NEW p \in Daemons, NEW q \in Daemons PROVE p = q
  <2>1. {[by |-> p, written |-> TRUE]} = {[by |-> q, written |-> TRUE]}
      BY DEF LockIInv, Unraced, Held
  <2>2. [by |-> p, written |-> TRUE].by = [by |-> q, written |-> TRUE].by
      BY <2>1
  <2> QED
      BY <2>2
<1>2. CASE Daemons = {}
    BY <1>2, FS_EmptySet
<1>3. CASE \E p \in Daemons : TRUE
  <2>1. PICK p \in Daemons : Daemons = {p}
      BY <1>1, <1>3
  <2>2. Cardinality(Daemons) = 1
      BY <2>1, FS_Singleton
  <2> QED
      BY <2>2
<1> QED
    BY <1>2, <1>3

\* One app-server per home, as long as no two are started at the same time and
\* none is taken for dead in its lifetime: for any number of processes, however
\* they end, whatever file they leave and whoever has its pid since.
THEOREM OneDaemonPerHome == Spec => []OneDaemon
BY LockIInvHolds, OwnersAreOne, PTL

\* An app-server is turned away by another that runs, by a file it cannot write,
\* or by a process that has got the pid of the dead one that left the file: for
\* any number of processes and pids, whoever is given them, and by nothing else.
THEOREM NobodyBowsToTheDead == Spec => NotRefusedByTheDead
<1> DEFINE Excuse(p) == \/ pc[p] = "write"
                        \/ \E q \in Daemons : q # p
                        \/ \E q \in seen[p] : pc[q] = "gone" /\ pid[q] \in Borne
<1>1. ASSUME LockIInv, [Next]_vars, Orderly, NEW p \in Procs, pc[p] # "refused", pc'[p] = "refused"
      PROVE  Excuse(p)
  <2>1. WriteFails(p) \/ GiveUp(p) \/ Reap(p)
    <3>1. pc \in [Procs -> {"new", "refused", "gone"} \cup Acquiring \cup Running]
        BY <1>1 DEF LockIInv, LockTypeOK
    <3>2. CASE UNCHANGED vars
        BY <1>1, <3>2 DEF vars, lockVars
    <3>3. ASSUME NEW q \in Procs, JobStep(q) PROVE FALSE
      <4>1. Reconcile(q) \/ UNCHANGED lockVars
          BY <3>3 DEF JobStep, Spawn, RecordStarted, SpawnDropped, Kill, Ends, Stops, RecordFinished
      <4> QED
          BY <1>1, <3>1, <4>1 DEF Reconcile, Goto, lockVars
    <3>4. ASSUME NEW q \in Procs, ProcessStep(q) PROVE WriteFails(p) \/ GiveUp(p) \/ Reap(p)
      <4>1. CASE WriteFails(q) \/ GiveUp(q) \/ Reap(q)
        <5>1. q = p
            BY <1>1, <3>1, <4>1 DEF WriteFails, GiveUp, Reap, Goto
        <5> QED
            BY <4>1, <5>1
      <4>2. CASE \/ Launch(q) \/ LaunchLockless(q) \/ Create(q) \/ WritePid(q)
                 \/ AlreadyExists(q) \/ ReadPid(q) \/ Judge(q) \/ ProbeFails(q) \/ Exit(q) \/ Crash(q)
          BY <1>1, <3>1, <4>2 DEF Launch, LaunchLockless, Create, WritePid, AlreadyExists, ReadPid,
             Judge, ProbeFails, Exit, Crash, Goto
      <4> QED
          BY <3>4, <4>1, <4>2 DEF ProcessStep, LockStep
    <3>5. ASSUME NEW n \in Pids, StrangerStep(n) PROVE FALSE
        BY <1>1, <3>5 DEF StrangerStep, StrangerComes, StrangerGoes
    <3> QED
        BY <1>1, <3>2, <3>3, <3>4, <3>5 DEF Next
  <2>2. CASE WriteFails(p)
      BY <2>2 DEF WriteFails, Goto
  <2>3. CASE GiveUp(p)
    <3>1. PICK q \in seen[p] : Alive(pid[q])
        BY <2>3 DEF GiveUp
    <3>2. q \in Procs /\ q \notin Lockless /\ pc[q] \in Running \cup {"gone"} /\ pc[p] = "judge"
        BY <1>1, <2>3 DEF LockIInv, LockTypeOK, Owners, GiveUp, Goto
    <3>3. CASE pc[q] \in Running
      <4>1. q \in Daemons /\ q # p
          BY <3>2, <3>3 DEF Daemons, Running
      <4> QED
          BY <4>1
    <3>4. CASE pc[q] = "gone"
        BY <3>1, <3>4 DEF Alive
    <3> QED
        BY <3>2, <3>3, <3>4
  <2>4. CASE Reap(p)
    <3>1. pc[p] = "reap" /\ attempt[p] = 0
        BY <1>1, <2>4 DEF LockIInv, Unraced, FirstTry, Reap, Goto
    <3>2. pc' = [pc EXCEPT ![p] = "open"]
        BY <2>4, <3>1 DEF Reap, Goto
    <3> QED
        BY <1>1, <3>2 DEF LockIInv, LockTypeOK
  <2> QED
      BY <2>1, <2>2, <2>3, <2>4
<1>2. LockIInv /\ [Next]_vars =>
        [Orderly =>
          \A p \in Procs : pc[p] # "refused" /\ pc'[p] = "refused" => Excuse(p)]_lockVars
  <2> HIDE DEF Excuse
  <2> QED
      BY <1>1
<1> QED
    BY <1>2, LockIInvHolds, PTL DEF Spec, NotRefusedByTheDead

-----------------------------------------------------------------------------
(* The ledger                                                              *)

LedgerTypeOK ==
    /\ next \in [Procs -> Nat]
    /\ job \in [Procs -> [Ids -> Phases]]
    /\ reported \in [Procs -> [Ids -> BOOLEAN]]
    /\ row \in [Ids -> SUBSET [by : Procs, status : {"running", "interrupted"} \cup Outcomes]]
    /\ collided \in SUBSET Ids

\* What has been recorded as started: an id beyond the counter is unused, and
\* unless it was refused the row of a recorded job is its own.
Recorded == {"running", "stopping"} \cup Outcomes

Numbered == \A p \in Procs, i \in Ids : i > next[p] => job[p][i] = "none"

OwnRow ==
    \A p \in Procs, i \in Ids \ collided : job[p][i] \in Recorded =>
        row[i] # {} /\ \A r \in row[i] : r.by = p

ReportedHasEnded ==
    \A p \in Procs, i \in Ids : reported[p][i] => job[p][i] \in Outcomes

LedgerIInv == LedgerTypeOK /\ Numbered /\ OwnRow /\ ReportedHasEnded /\ LedgerTellsTheTruth

LEMMA LedgerAtTheStart == Init => LedgerIInv
<1> SUFFICES ASSUME Init PROVE LedgerIInv
    OBVIOUS
<1>1. LedgerTypeOK
    BY DEF Init, LedgerTypeOK, Phases
<1>2. Numbered /\ OwnRow /\ ReportedHasEnded /\ LedgerTellsTheTruth
    BY DEF Init, Numbered, OwnRow, Recorded, Outcomes, ReportedHasEnded, LedgerTellsTheTruth
<1> QED
    BY <1>1, <1>2 DEF LedgerIInv

\* A boot touches only rows nobody has reported on.
LEMMA ReconcilingIsTrue ==
    ASSUME LedgerIInv, NEW p \in Procs, Reconcile(p)
    PROVE  LedgerIInv'
<1>1. /\ UNCHANGED <<next, job, reported, collided>>
      /\ row' = [i \in Ids |-> Interrupted(row[i])]
    BY DEF Reconcile
<1>2. ASSUME NEW i \in Ids
      PROVE  /\ row'[i] \subseteq [by : Procs, status : {"running", "interrupted"} \cup Outcomes]
             /\ row[i] # {} => row'[i] # {}
             /\ \A s \in row'[i] : \E r \in row[i] :
                  s.by = r.by /\ (s.status = r.status \/ r.status = "running")
  <2> DEFINE mark(r) == IF r.status = "running" THEN [r EXCEPT !.status = "interrupted"] ELSE r
  <2>1. row'[i] = {mark(r) : r \in row[i]}
      BY <1>1 DEF Interrupted
  <2>2. \A r \in row[i] :
          /\ mark(r) \in [by : Procs, status : {"running", "interrupted"} \cup Outcomes]
          /\ mark(r).by = r.by /\ (mark(r).status = r.status \/ r.status = "running")
      BY DEF LedgerIInv, LedgerTypeOK
  <2> HIDE DEF mark
  <2> QED
      BY <2>1, <2>2
<1>3. LedgerTypeOK'
    BY <1>1, <1>2 DEF LedgerIInv, LedgerTypeOK
<1>4. Numbered' /\ ReportedHasEnded'
    BY <1>1 DEF LedgerIInv, Numbered, ReportedHasEnded
<1>5. OwnRow'
    BY <1>1, <1>2 DEF LedgerIInv, OwnRow
<1>6. LedgerTellsTheTruth'
  <2> SUFFICES ASSUME NEW i \in Ids \ collided, NEW s \in row'[i], reported[s.by][i]
               PROVE  s.status = job[s.by][i]
      BY <1>1 DEF LedgerTellsTheTruth
  <2>1. PICK r \in row[i] : s.by = r.by /\ (s.status = r.status \/ r.status = "running")
      BY <1>2
  <2>2. r.by \in Procs
      BY DEF LedgerIInv, LedgerTypeOK
  <2>3. r.status = job[r.by][i] /\ job[r.by][i] \in Outcomes
      BY <2>1, <2>2 DEF LedgerIInv, LedgerTellsTheTruth, ReportedHasEnded
  <2> QED
      BY <2>1, <2>3 DEF Outcomes
<1> QED
    BY <1>3, <1>4, <1>5, <1>6 DEF LedgerIInv

\* A job that starts takes a number that has none.
LEMMA SpawningIsTrue ==
    ASSUME LedgerIInv, NEW p \in Procs, Spawn(p)
    PROVE  LedgerIInv'
<1> DEFINE n == next[p] + 1
<1>1. /\ n \in Ids /\ next' = [next EXCEPT ![p] = n]
      /\ job' = [job EXCEPT ![p][n] = "starting"]
      /\ UNCHANGED <<reported, row, collided>>
    BY JobLedgerAssumption DEF LedgerIInv, LedgerTypeOK, JobLedgerAssumption, Spawn, Ids
<1>2. job[p][n] = "none"
    BY <1>1 DEF LedgerIInv, LedgerTypeOK, Numbered
<1>3. LedgerTypeOK'
    BY <1>1 DEF LedgerIInv, LedgerTypeOK, Phases
<1>4. \A q \in Procs, i \in Ids :
        job'[q][i] = IF q = p /\ i = n THEN "starting" ELSE job[q][i]
    BY <1>1 DEF LedgerIInv, LedgerTypeOK
<1>5. Numbered'
    BY <1>1, <1>4 DEF LedgerIInv, LedgerTypeOK, Numbered, Ids
<1>6. ~reported[p][n]
    BY <1>1, <1>2 DEF LedgerIInv, ReportedHasEnded, Outcomes
<1> HIDE DEF n
<1>7. OwnRow' /\ ReportedHasEnded'
    BY <1>1, <1>4, <1>6 DEF LedgerIInv, OwnRow, Recorded, Outcomes, ReportedHasEnded
<1>8. LedgerTellsTheTruth'
  <2> SUFFICES ASSUME NEW i \in Ids \ collided, NEW r \in row[i], reported[r.by][i]
               PROVE  r.status = job'[r.by][i]
      BY <1>1 DEF LedgerTellsTheTruth
  <2>1. r.by \in Procs /\ r.status = job[r.by][i]
      BY DEF LedgerIInv, LedgerTypeOK, LedgerTellsTheTruth
  <2> QED
      BY <1>4, <1>6, <2>1
<1> QED
    BY <1>3, <1>5, <1>7, <1>8 DEF LedgerIInv

\* A step of one job to another phase, while nothing has been said of its end.
LEMMA MovingIsTrue ==
    ASSUME LedgerIInv, NEW p \in Procs, NEW i \in Ids, NEW to \in Phases \ {"none"},
           job' = [job EXCEPT ![p][i] = to], job[p][i] # "none",
           UNCHANGED <<next, reported>>, ~reported[p][i],
           \/ /\ UNCHANGED <<row, collided>>
              /\ to \in Recorded => job[p][i] \in Recorded
           \/ Insert(p, i) /\ job[p][i] = "starting"
    PROVE  LedgerIInv'
<1>1. \A q \in Procs, k \in Ids : job'[q][k] = IF q = p /\ k = i THEN to ELSE job[q][k]
    BY DEF LedgerIInv, LedgerTypeOK
<1>2. Numbered' /\ ReportedHasEnded'
    BY <1>1 DEF LedgerIInv, Numbered, ReportedHasEnded
<1>3. CASE UNCHANGED <<row, collided>> /\ (to \in Recorded => job[p][i] \in Recorded)
  <2>1. LedgerTypeOK'
      BY <1>3 DEF LedgerIInv, LedgerTypeOK
  <2>2. OwnRow'
      BY <1>1, <1>3 DEF LedgerIInv, OwnRow
  <2>3. LedgerTellsTheTruth'
    <3> SUFFICES ASSUME NEW k \in Ids \ collided, NEW r \in row[k], reported[r.by][k]
                 PROVE  r.status = job'[r.by][k]
        BY <1>3 DEF LedgerTellsTheTruth
    <3>1. r.by \in Procs /\ r.status = job[r.by][k]
        BY DEF LedgerIInv, LedgerTypeOK, LedgerTellsTheTruth
    <3> QED
        BY <1>1, <3>1
  <2> QED
      BY <1>2, <2>1, <2>2, <2>3 DEF LedgerIInv
<1>4. CASE Insert(p, i) /\ job[p][i] = "starting"
  <2>1. \/ row[i] = {} /\ row' = [row EXCEPT ![i] = {[by |-> p, status |-> "running"]}]
           /\ collided' = collided
        \/ row[i] # {} /\ row' = row /\ collided' = collided \cup {i}
      BY <1>4 DEF Insert
  <2>2. LedgerTypeOK'
      BY <2>1 DEF LedgerIInv, LedgerTypeOK
  <2>3. OwnRow'
    <3> SUFFICES ASSUME NEW q \in Procs, NEW k \in Ids \ collided', job'[q][k] \in Recorded
                 PROVE  row'[k] # {} /\ \A r \in row'[k] : r.by = q
        BY DEF OwnRow
    <3>1. CASE k = i
      <4>1. row[i] = {} /\ row' = [row EXCEPT ![i] = {[by |-> p, status |-> "running"]}]
            /\ i \notin collided
          BY <2>1, <3>1
      <4>2. q = p
          BY <1>1, <3>1, <4>1 DEF LedgerIInv, OwnRow
      <4>3. row'[i] = {[by |-> p, status |-> "running"]}
          BY <4>1 DEF LedgerIInv, LedgerTypeOK
      <4> QED
          BY <3>1, <4>2, <4>3
    <3>2. CASE k # i
        BY <1>1, <2>1, <3>2 DEF LedgerIInv, LedgerTypeOK, OwnRow
    <3> QED
        BY <3>1, <3>2
  <2>4. LedgerTellsTheTruth'
    <3> SUFFICES ASSUME NEW k \in Ids \ collided', NEW r \in row'[k], reported[r.by][k]
                 PROVE  r.status = job'[r.by][k]
        BY DEF LedgerTellsTheTruth
    <3>1. CASE k = i
      <4>1. row' = [row EXCEPT ![i] = {[by |-> p, status |-> "running"]}]
          BY <2>1, <3>1
      <4>2. r = [by |-> p, status |-> "running"]
          BY <3>1, <4>1 DEF LedgerIInv, LedgerTypeOK
      <4> QED
          BY <3>1, <4>2
    <3>2. CASE k # i
      <4>1. r \in row[k] /\ k \notin collided
          BY <2>1, <3>2 DEF LedgerIInv, LedgerTypeOK
      <4>2. r.by \in Procs /\ r.status = job[r.by][k]
          BY <4>1 DEF LedgerIInv, LedgerTypeOK, LedgerTellsTheTruth
      <4> QED
          BY <1>1, <3>2, <4>2
    <3> QED
        BY <3>1, <3>2
  <2> QED
      BY <1>2, <2>2, <2>3, <2>4 DEF LedgerIInv
<1> QED
    BY <1>3, <1>4

\* The end of a job goes into the row of its id: its own, unless the id was
\* refused.
LEMMA ReportingIsTrue ==
    ASSUME LedgerIInv, NEW p \in Procs, NEW i \in Ids, RecordFinished(p, i)
    PROVE  LedgerIInv'
<1> DEFINE end(r) == [r EXCEPT !.status = job[p][i]]
<1>1. /\ job[p][i] \in Outcomes /\ ~reported[p][i]
      /\ reported' = [reported EXCEPT ![p][i] = TRUE]
      /\ UNCHANGED <<next, job, collided>>
      /\ row' = [row EXCEPT ![i] = {end(r) : r \in @}]
    BY DEF RecordFinished, Report
<1>2. \A r \in row[i] :
        /\ end(r) \in [by : Procs, status : {"running", "interrupted"} \cup Outcomes]
        /\ end(r).by = r.by /\ end(r).status = job[p][i]
    BY <1>1 DEF LedgerIInv, LedgerTypeOK
<1> HIDE DEF end
<1>3. /\ row'[i] = {end(r) : r \in row[i]}
      /\ \A k \in Ids : k # i => row'[k] = row[k]
    BY <1>1 DEF LedgerIInv, LedgerTypeOK
<1>4. \A q \in Procs, k \in Ids : reported'[q][k] = IF q = p /\ k = i THEN TRUE ELSE reported[q][k]
    BY <1>1 DEF LedgerIInv, LedgerTypeOK
<1>5. LedgerTypeOK'
  <2>1. row' \in [Ids -> SUBSET [by : Procs, status : {"running", "interrupted"} \cup Outcomes]]
      BY <1>1, <1>2 DEF LedgerIInv, LedgerTypeOK
  <2> QED
      BY <1>1, <2>1 DEF LedgerIInv, LedgerTypeOK
<1>6. Numbered' /\ ReportedHasEnded'
    BY <1>1, <1>4 DEF LedgerIInv, Numbered, ReportedHasEnded
<1>7. OwnRow'
    BY <1>1, <1>2, <1>3 DEF LedgerIInv, OwnRow
<1>8. LedgerTellsTheTruth'
  <2> SUFFICES ASSUME NEW k \in Ids \ collided, NEW s \in row'[k], reported'[s.by][k]
               PROVE  s.status = job[s.by][k]
      BY <1>1 DEF LedgerTellsTheTruth
  <2>1. CASE k = i
    <3>1. PICK r \in row[i] : s = end(r)
        BY <1>3, <2>1
    <3>2. s.by = p
        BY <1>1, <1>2, <2>1, <3>1 DEF LedgerIInv, OwnRow, Recorded
    <3> QED
        BY <1>2, <2>1, <3>1, <3>2
  <2>2. CASE k # i
    <3>1. s \in row[k] /\ s.by \in Procs
        BY <1>3, <2>2 DEF LedgerIInv, LedgerTypeOK
    <3>2. reported[s.by][k]
        BY <1>4, <2>2, <3>1
    <3> QED
        BY <3>1, <3>2 DEF LedgerIInv, LedgerTellsTheTruth
  <2> QED
      BY <2>1, <2>2
<1> QED
    BY <1>5, <1>6, <1>7, <1>8 DEF LedgerIInv

LEMMA StepsKeepLedger == LedgerIInv /\ [Next]_vars => LedgerIInv'
<1> SUFFICES ASSUME LedgerIInv, [Next]_vars PROVE LedgerIInv'
    OBVIOUS
<1>1. CASE UNCHANGED jobVars
    BY <1>1 DEF LedgerIInv, LedgerTypeOK, Numbered, OwnRow, ReportedHasEnded, LedgerTellsTheTruth,
       jobVars
<1>2. ASSUME NEW p \in Procs, NEW i \in Ids,
             \/ RecordStarted(p, i) \/ SpawnDropped(p, i) \/ Kill(p, i) \/ Ends(p, i) \/ Stops(p, i)
      PROVE  LedgerIInv'
  <2>1. PICK from \in {"starting", "running", "stopping"},
             to \in {"running", "dropped", "stopping", "exited", "killed"} :
          /\ job[p][i] = from /\ job' = [job EXCEPT ![p][i] = to]
          /\ UNCHANGED <<next, reported>>
          /\ \/ from = "starting" /\ Insert(p, i)
             \/ (from # "starting" \/ to = "dropped") /\ UNCHANGED <<row, collided>>
      BY <1>2 DEF RecordStarted, SpawnDropped, Kill, Ends, Stops, Move
  <2>2. ~reported[p][i]
      BY <2>1 DEF LedgerIInv, ReportedHasEnded, Outcomes
  <2>3. to \in Phases \ {"none"}
      BY <2>1 DEF Phases, Outcomes
  <2> QED
      BY <2>1, <2>2, <2>3, MovingIsTrue DEF Recorded, Outcomes
<1> QED
    BY <1>1, <1>2, ReconcilingIsTrue, SpawningIsTrue, ReportingIsTrue
       DEF Next, ProcessStep, JobStep, StrangerStep, vars

\* The ledger says of every job, unless its id was refused, how it ended, from
\* the moment that is written: for any number of processes and jobs, whoever
\* boots in between and marks what is running as interrupted.
THEOREM LedgerIsTrue == Spec => []LedgerTellsTheTruth
<1>1. LedgerIInv => LedgerTellsTheTruth
    BY DEF LedgerIInv
<1> QED
    BY <1>1, LedgerAtTheStart, StepsKeepLedger, PTL DEF Spec
=============================================================================
