----------------------------- MODULE Scheduler ------------------------------
(***************************************************************************)
(* `joy schedule`, the resident process that fires declared jobs           *)
(* (joyczl-cli/src/schedule.rs), over its table schedule_state             *)
(* (joyczl-state/src/schedules.rs).                                        *)
(*                                                                         *)
(* A firing is claimed before it runs and confirmed after; the process may *)
(* die and be started again between any two steps, and boot then resumes   *)
(* or abandons what was claimed and catches up on what was missed.  A run  *)
(* may take many minutes: jobs are fired one at a time and the clock goes  *)
(* on.  Minutes stand for the "%Y-%m-%dT%H:%M" keys; the seven-day cap on  *)
(* looking back lies beyond the horizon.                                   *)
(*                                                                         *)
(* Any statement on the table may fail.  The scheduler goes on regardless: *)
(* it skips a job it cannot register, takes a failed read for an empty     *)
(* one, and runs a job whose claim was not written.                        *)
(***************************************************************************)
EXTENDS Integers, FiniteSets, FiniteSetsExt

CONSTANTS
    Jobs,        \* the jobs declared sooner or later
    Declared,    \* those declared from the start
    CatchUp,     \* those declared with catch_up = true
    Triggers,    \* Triggers[j]: the minutes the cron expression of j matches
    Legacy,      \* Legacy[j]: what schedules-state.json, which nobody writes any more,
                 \* says of j: a minute before all others, or Never
    LastMinute,  \* bound: the horizon
    MaxCrashes,  \* bound: how often the process dies
    MaxFaults    \* bound: how often the table fails

Never == -1
Minutes == 0..LastMinute

ASSUME SchedulerAssumption ==
    /\ CatchUp \subseteq Jobs
    /\ Declared \subseteq Jobs
    /\ LastMinute \in Nat
    /\ Triggers \in [Jobs -> SUBSET (0..LastMinute)]
    /\ Legacy \in [Jobs -> {0, Never}]
    /\ MaxCrashes \in Nat
    /\ MaxFaults \in Nat

VARIABLES
    now,         \* the wall clock
    declared,    \* the jobs in skills and schedules.json
    pc,          \* where the process is
    at,          \* now0 during boot, then the minute of the current look
    todo,        \* jobs of this boot, or of this look, not yet handled
    fired,       \* fired[j]: the in-memory table of last fired minutes
    firing,      \* the run in hand: [job, kind, slot, key]
    ensured,     \* the jobs that have a row in schedule_state
    row,         \* row[j] = [last, claimed]
    crashes,     \* how often the process has died
    runs,        \* history: runs[j][m], how often j was started for minute m
    rowless,     \* history: jobs started with no row to claim it in
    faults,      \* history: how often the table has failed
    troubled,    \* history: the jobs it has failed
    interrupted  \* history: jobs whose run was cut short and not run again

memory == <<at, todo, fired, firing>>
table == <<ensured, row>>
trouble == <<faults, troubled>>
history == <<crashes, runs, rowless, trouble, interrupted>>
vars == <<now, declared, pc, memory, table, history>>

NoRun == [job |-> "none", kind |-> "none", slot |-> Never, key |-> Never]

Init ==
    /\ now = 0
    /\ declared = Declared
    /\ pc = "down"
    /\ at = 0
    /\ todo = {}
    /\ fired = [j \in Jobs |-> Never]
    /\ firing = NoRun
    /\ ensured = {}
    /\ row = [j \in Jobs |-> [last |-> Never, claimed |-> Never]]
    /\ crashes = 0
    /\ runs = [j \in Jobs |-> [m \in Minutes |-> 0]]
    /\ rowless = {}
    /\ faults = 0
    /\ troubled = {}
    /\ interrupted = {}

\* The statements made for a job succeed, or one of them at least fails.
Answers(j, well) ==
    \/ well /\ UNCHANGED trouble
    \/ ~well /\ faults < MaxFaults /\ faults' = faults + 1 /\ troubled' = troubled \cup {j}

Tick ==
    /\ now < LastMinute
    /\ now' = now + 1
    /\ UNCHANGED <<declared, pc, memory, table, history>>

\* A skill gains a `schedule:` line, or schedules.json an entry.
Declare(j) ==
    /\ j \notin declared
    /\ declared' = declared \cup {j}
    /\ UNCHANGED <<now, pc, memory, table, history>>

-----------------------------------------------------------------------------
(* Boot                                                                    *)

Boot ==
    /\ pc = "down"
    /\ pc' = "boot"
    /\ at' = now
    /\ todo' = declared
    /\ UNCHANGED <<now, declared, fired, firing, table, history>>

\* The table's last_fired, imported from the old file if the table has none.
LastFired(j) == IF row[j].last = Never THEN Legacy[j] ELSE row[j].last

\* What boot finds in a row: the last minute fired, which it may just have
\* imported, what it then reads of that minute, and the claim.
Reading(j) == [last |-> LastFired(j), read |-> LastFired(j), claim |-> row[j].claimed]

\* A read that fails finds nothing: no minute, so that the old file's is written
\* over it; no minute to catch up from; no claim.  The import may fail as well.
Misreadings(j) ==
    {found \in [last : {row[j].last} \cup ({Legacy[j]} \ {Never}),
                read : {row[j].last, Legacy[j], Never},
                claim : {row[j].claimed, Never}] :
        found.read \in {found.last, Never}}

\* Mutant: looking back starts at the minute that was fired.
MissedInclusive(j, found) == {m \in Triggers[j] : found.read <= m /\ m <= at}

\* Mutant: looking back stops short of the minute boot began in.
MissedBeforeNow(j, found) == {m \in Triggers[j] : found.read < m /\ m < at}

Missed(j, found) == {m \in Triggers[j] : found.read < m /\ m <= at}

\* Boot takes up a job: it makes sure that it has a row, and reads it.
Begin(j, found) ==
    /\ pc = "boot"
    /\ j \in todo
    /\ todo' = todo \ {j}
    /\ ensured' = ensured \cup {j}
    /\ found \in {Reading(j)} \cup Misreadings(j)

\* The row cannot be made sure of: the job is passed over.
Unregistered(j) ==
    /\ pc = "boot"
    /\ j \in todo
    /\ todo' = todo \ {j}
    /\ Answers(j, FALSE)
    /\ UNCHANGED <<now, declared, pc, at, fired, firing, table, crashes, runs, rowless, interrupted>>

\* Mutant: the claim is settled first and run again after.
ResumeConfirmedFirst(j, found) ==
    /\ Begin(j, found)
    /\ found.claim # Never
    /\ j \in CatchUp
    /\ pc' = "fire"
    /\ row' = [row EXCEPT ![j] = [last |-> at, claimed |-> Never]]
    /\ firing' = [job |-> j, kind |-> "resumed", slot |-> found.claim, key |-> at]
    /\ Answers(j, found = Reading(j))
    /\ UNCHANGED <<now, declared, at, fired, crashes, runs, rowless, interrupted>>

\* A claim that was never confirmed, catch_up: run it again.
Resume(j, found) ==
    /\ Begin(j, found)
    /\ found.claim # Never
    /\ j \in CatchUp
    /\ pc' = "fire"
    /\ row' = [row EXCEPT ![j].last = found.last]
    /\ firing' = [job |-> j, kind |-> "resumed", slot |-> found.claim, key |-> at]
    /\ Answers(j, found = Reading(j))
    /\ UNCHANGED <<now, declared, at, fired, crashes, runs, rowless, interrupted>>

\* A claim that was never confirmed, no catch_up: confirm it unrun.
Abandon(j, found, written) ==
    /\ Begin(j, found)
    /\ found.claim # Never
    /\ j \notin CatchUp
    /\ row' = [row EXCEPT ![j] = IF written THEN [last |-> found.claim, claimed |-> Never]
                                 ELSE [@ EXCEPT !.last = found.last]]
    /\ fired' = [fired EXCEPT ![j] = found.claim]
    /\ Answers(j, written /\ found = Reading(j))
    /\ UNCHANGED <<now, declared, pc, at, firing, crashes, runs, rowless, interrupted>>

\* Minutes went by with the process down: run the latest of them.
Recover(j, found, written) ==
    /\ Begin(j, found)
    /\ found.claim = Never
    /\ found.read # Never
    /\ Missed(j, found) # {}
    /\ pc' = "fire"
    /\ row' = [row EXCEPT ![j] = [last |-> found.last,
                                  claimed |-> IF written THEN at ELSE @.claimed]]
    /\ fired' = [fired EXCEPT ![j] = found.read]
    /\ firing' = [job |-> j, kind |-> "missed", slot |-> Max(Missed(j, found)), key |-> at]
    /\ Answers(j, written /\ found = Reading(j))
    /\ UNCHANGED <<now, declared, at, crashes, runs, rowless, interrupted>>

NothingMissed(j, found) ==
    /\ Begin(j, found)
    /\ found.claim = Never
    /\ found.read = Never \/ Missed(j, found) = {}
    /\ row' = [row EXCEPT ![j].last = found.last]
    /\ fired' = [fired EXCEPT ![j] = found.read]
    /\ Answers(j, found = Reading(j))
    /\ UNCHANGED <<now, declared, pc, at, firing, crashes, runs, rowless, interrupted>>

TakeUp(j) ==
    \/ Unregistered(j)
    \/ \E found \in {Reading(j)} \cup Misreadings(j) :
         \/ Resume(j, found)
         \/ NothingMissed(j, found)
         \/ \E written \in BOOLEAN : Abandon(j, found, written) \/ Recover(j, found, written)

Booted ==
    /\ pc = "boot"
    /\ todo = {}
    /\ pc' = "loop"
    /\ UNCHANGED <<now, declared, memory, table, history>>

-----------------------------------------------------------------------------
(* The loop reads the declarations afresh each time.  `claim` and          *)
(* `confirm` are UPDATEs: they change nothing where there is no row.  What *)
(* they return is not looked at.                                           *)

Write(j, r, written) ==
    /\ row' = IF written /\ j \in ensured THEN [row EXCEPT ![j] = r] ELSE row
    /\ Answers(j, written)

Due == {j \in declared : now \in Triggers[j] /\ fired[j] # now}

Look ==
    /\ pc = "loop"
    /\ Due # {}
    /\ pc' = "dispatch"
    /\ at' = now
    /\ todo' = Due
    /\ UNCHANGED <<now, declared, fired, firing, table, history>>

\* Mutant: the claim is kept in memory and not in the table.
ClaimInMemory(j, written) ==
    /\ pc = "dispatch"
    /\ j \in todo
    /\ todo' = todo \ {j}
    /\ pc' = "fire"
    /\ fired' = [fired EXCEPT ![j] = at]
    /\ firing' = [job |-> j, kind |-> "due", slot |-> at, key |-> at]
    /\ UNCHANGED <<now, declared, at, table, history>>

Claim(j, written) ==
    /\ pc = "dispatch"
    /\ j \in todo
    /\ todo' = todo \ {j}
    /\ pc' = "fire"
    /\ Write(j, [row[j] EXCEPT !.claimed = at], written)
    /\ fired' = [fired EXCEPT ![j] = at]
    /\ firing' = [job |-> j, kind |-> "due", slot |-> at, key |-> at]
    /\ UNCHANGED <<now, declared, ensured, at, crashes, runs, rowless, interrupted>>

Dispatched ==
    /\ pc = "dispatch"
    /\ todo = {}
    /\ pc' = "loop"
    /\ UNCHANGED <<now, declared, memory, table, history>>

-----------------------------------------------------------------------------
(* Firing, and settling it                                                 *)

StartRun ==
    /\ pc = "fire"
    /\ pc' = "running"
    /\ runs' = [runs EXCEPT ![firing.job][firing.slot] = @ + 1]
    /\ rowless' = IF firing.job \in ensured THEN rowless ELSE rowless \cup {firing.job}
    /\ UNCHANGED <<now, declared, memory, table, crashes, trouble, interrupted>>

\* The turn is over, well or badly; the product is delivered or not.
EndRun ==
    /\ pc = "running"
    /\ pc' = "confirm"
    /\ interrupted' = interrupted \ {firing.job}
    /\ UNCHANGED <<now, declared, memory, table, crashes, runs, rowless, trouble>>

Confirm(written) ==
    /\ pc = "confirm"
    /\ pc' = IF firing.kind = "due" THEN "dispatch" ELSE "boot"
    /\ Write(firing.job, [last |-> firing.key, claimed |-> Never], written)
    /\ fired' = [fired EXCEPT ![firing.job] = firing.key]
    /\ firing' = NoRun
    /\ UNCHANGED <<now, declared, ensured, at, todo, crashes, runs, rowless, interrupted>>

Crash ==
    /\ pc # "down"
    /\ crashes < MaxCrashes
    /\ crashes' = crashes + 1
    /\ pc' = "down"
    /\ at' = 0
    /\ todo' = {}
    /\ fired' = [j \in Jobs |-> Never]
    /\ firing' = NoRun
    /\ interrupted' = IF pc \in {"fire", "running"}
                      THEN interrupted \cup {firing.job} ELSE interrupted
    /\ UNCHANGED <<now, declared, table, runs, rowless, trouble>>

-----------------------------------------------------------------------------
Work ==
    \/ Boot
    \/ \E j \in Jobs : TakeUp(j)
    \/ Booted
    \/ Look
    \/ \E j \in Jobs, written \in BOOLEAN : Claim(j, written)
    \/ Dispatched
    \/ StartRun
    \/ EndRun
    \/ \E written \in BOOLEAN : Confirm(written)

Next == Tick \/ Work \/ Crash \/ \E j \in Jobs : Declare(j)

Spec == Init /\ [][Next]_vars

\* The process is restarted by its supervisor, and a run ends: a turn does.
FairSpec == Spec /\ WF_vars(Work)

-----------------------------------------------------------------------------
TypeOK ==
    /\ now \in Minutes
    /\ declared \subseteq Jobs
    /\ pc \in {"down", "boot", "loop", "dispatch", "fire", "running", "confirm"}
    /\ at \in Minutes
    /\ todo \subseteq Jobs
    /\ fired \in [Jobs -> Minutes \cup {Never}]
    /\ firing = NoRun \/ firing \in [job : Jobs, kind : {"due", "missed", "resumed"},
                                     slot : Minutes, key : Minutes]
    /\ (firing # NoRun) <=> pc \in {"fire", "running", "confirm"}
    /\ ensured \subseteq declared
    /\ row \in [Jobs -> [last : Minutes \cup {Never}, claimed : Minutes \cup {Never}]]
    /\ crashes \in 0..MaxCrashes
    /\ runs \in [Jobs -> [Minutes -> Nat]]
    /\ rowless \subseteq Jobs
    /\ faults \in 0..MaxFaults
    /\ troubled \subseteq Jobs
    /\ interrupted \subseteq Jobs

\* The jobs every run of which had a row that could be read and written.
Kept == Jobs \ (rowless \cup troubled)

(***************************************************************************)
(* schedules.rs: "claim: taken first, persisted before a crash".  A run is *)
(* in the table as long as it lasts, over crashes and restarts, if the job *)
(* has a row there (it was declared when a process booted) and the table   *)
(* has never failed it: a claim that fails is passed over, and the job     *)
(* runs unclaimed (schedule.rs, `let _ = schedules.claim`).                *)
(***************************************************************************)
KnownRunsAreClaimed ==
    firing # NoRun /\ firing.job \in ensured \ troubled => row[firing.job].claimed # Never

(***************************************************************************)
(* A minute of a job is run once, wherever the process dies and however    *)
(* soon it is back: a job without catch_up at most once, and one with it   *)
(* once more for each crash and no oftener.  So it is for the jobs the     *)
(* table has kept.                                                         *)
(***************************************************************************)
OnlyCrashesRepeatARun ==
    \A j \in Kept, m \in Minutes :
        runs[j][m] <= 1 + IF j \in CatchUp THEN crashes ELSE 0

(***************************************************************************)
(* catch_up = 1 is "at least once": a run cut short is made again, unless  *)
(* the table fails the job.                                                *)
(***************************************************************************)
InterruptedIsRunAgain ==
    \A j \in CatchUp : j \in interrupted /\ j \in Kept ~> j \notin interrupted \/ j \notin Kept

(***************************************************************************)
(* "What was missed is not silently swallowed": a minute of a catch_up job *)
(* that went by while the process was down is run once it is back, or a    *)
(* later one for it.  Not so where a claim was left unconfirmed, though    *)
(* the code means it so: boot then runs the claimed minute again, settles  *)
(* the job as of now, and looks for missed minutes no more; the excepted   *)
(* row[j].claimed # Never is that case.                                    *)
(***************************************************************************)
MissedIsMadeUp ==
    \A j \in CatchUp : \A m \in Triggers[j] :
        (/\ pc = "down" /\ j \in Kept
         /\ row[j].last # Never /\ row[j].last < m /\ m <= now
         /\ row[j].claimed = Never)
        ~> (\E n \in Minutes : n >= m /\ runs[j][n] > 0) \/ j \notin Kept
=============================================================================
