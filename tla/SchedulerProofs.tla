-------------------------- MODULE SchedulerProofs --------------------------
(***************************************************************************)
(* The scheduler's claims, for every set of jobs, every choice of minutes, *)
(* and any number of crashes and of failing reads and writes: a run is in  *)
(* the table as long as it lasts, and only crashes make a job run a minute *)
(* again, if the table has not failed the job.                             *)
(***************************************************************************)
EXTENDS Scheduler, FiniteSetTheorems, TLAPS

Booting == pc = "boot" \/ (firing # NoRun /\ firing.kind # "due")

\* The table and the memory agree on a job that is not in hand.
Settled(j) == row[j].claimed = Never /\ fired[j] = row[j].last

\* Nothing lies in the future, and a claim lies after what was fired before.
Past ==
    /\ at <= now
    /\ \A j \in Jobs : row[j].last <= now /\ row[j].claimed <= now
    /\ \A j \in Jobs \ troubled : row[j].claimed # Never => row[j].last < row[j].claimed

\* A row that has been made sure of holds what the old file said.
Imported ==
    /\ \A j \in Jobs \ ensured : row[j].last = Never /\ row[j].claimed = Never
    /\ \A j \in ensured \ troubled : row[j].last = Never => Legacy[j] = Never

\* Of the jobs with a row each is still to be taken up by this boot, in hand,
\* or settled.
Handled ==
    /\ todo \subseteq declared
    /\ pc = "down" => todo = {}
    /\ pc # "down" => \A j \in ensured \ troubled :
         (Booting /\ j \in todo) \/ (firing # NoRun /\ firing.job = j) \/ Settled(j)
    /\ Booting => \A j \in todo : row[j].last <= at /\ row[j].claimed <= at
    /\ pc # "down" /\ ~Booting =>
           \A j \in (todo \cap ensured) \ troubled : row[j].last < at

\* The run in hand has a claim, unless there is no row to claim it in, or the
\* table has failed the job.
InHand ==
    firing # NoRun =>
        /\ firing.job \notin todo
        /\ firing.key = at /\ firing.slot <= at
        /\ firing.kind # "due" => firing.job \in ensured
        /\ firing.kind = "resumed" => firing.job \in CatchUp
        /\ firing.job \in ensured \ troubled =>
             /\ row[firing.job].claimed # Never
             /\ row[firing.job].claimed <= at
             /\ firing.kind = "resumed" => firing.slot = row[firing.job].claimed
             /\ firing.kind # "resumed" =>
                    row[firing.job].claimed = at /\ row[firing.job].last < firing.slot

Claims == TypeOK /\ Past /\ Imported /\ Handled /\ InHand

\* The latest minute a row speaks of.
Reached(j) == IF row[j].claimed = Never THEN row[j].last ELSE row[j].claimed

\* What was started in a row lies no later than what the row says.
Recorded ==
    \A j \in Kept, m \in Minutes : runs[j][m] > 0 => j \in ensured /\ m <= Reached(j)

\* What is about to be started for the first time lies after all that was started.
Fresh ==
    pc = "fire" /\ firing.kind # "resumed" /\ firing.job \in ensured \cap Kept =>
        \A m \in Minutes : runs[firing.job][m] > 0 => m <= row[firing.job].last

\* A claim whose run is not under way was run only where a crash cut it short.
Owed ==
    \A j \in CatchUp \cap Kept :
        /\ row[j].claimed # Never
        /\ ~(pc \in {"running", "confirm"} /\ firing.job = j)
        => runs[j][row[j].claimed] <= crashes

History == Recorded /\ Fresh /\ OnlyCrashesRepeatARun /\ Owed

SchedulerIInv == Claims /\ History

(***************************************************************************)
(* The last of a number of minutes is one of them.                         *)
(***************************************************************************)
LEMMA MaxIsReached ==
    ASSUME NEW n \in Nat, NEW S \in SUBSET (0..n), S # {}
    PROVE  Max(S) \in S
<1> DEFINE Above(x) == {y \in S : y > x}
           Cuts == {Above(x) : x \in S}
<1>0. IsFiniteSet(0..n)
    BY FS_Interval
<1>1. IsFiniteSet(S)
    BY <1>0, FS_Subset
<1>2. Cuts \subseteq FiniteSubsetsOf(S) /\ Cuts # {}
    <2>1. \A x \in S : Above(x) \in FiniteSubsetsOf(S)
        <3> TAKE x \in S
        <3>1. Above(x) \in SUBSET S
            OBVIOUS
        <3>2. IsFiniteSet(Above(x))
            <4> HIDE DEF Above
            <4> QED BY <1>1, <3>1, FS_Subset 
        <3> QED
            BY <3>1, <3>2 DEF FiniteSubsetsOf
    <2> HIDE DEF Above
    <2> QED
        BY <2>1
<1>3. IsWellFoundedOn(StrictSubsetOrdering(S), FiniteSubsetsOf(S))
    BY FS_StrictSubsetOrderingWellFounded
<1>4. PICK c \in Cuts : \A d \in Cuts : <<d, c>> \notin StrictSubsetOrdering(S)
    <2> HIDE DEF Cuts
    <2> QED BY <1>2, <1>3, WFMin
<1>5. PICK x \in S : c = Above(x)
    OBVIOUS
<1>6. \A y \in S : x >= y
    <2> SUFFICES ASSUME NEW y \in S, y > x PROVE FALSE
        OBVIOUS
    <2>1. \A z \in S : z > y => z > x
        OBVIOUS
    <2>2. y \in Above(x) /\ y \notin Above(y)
        OBVIOUS
    <2>3. Above(y) \subseteq Above(x) 
        BY <2>1
    <2>4. <<Above(y), Above(x)>> \in StrictSubsetOrdering(S)
        <3>1. Above(x) \in SUBSET S /\ Above(y) \in SUBSET S
            OBVIOUS
        <3> HIDE DEF Above
        <3> QED
            BY <2>2, <2>3, <3>1 DEF StrictSubsetOrdering
    <2> QED
        BY <1>4, <1>5, <2>4
<1> QED
    BY <1>6 DEF Max

Firings == [job : Jobs, kind : {"due", "missed", "resumed"}, slot : Minutes, key : Minutes]
Rows == [last : Minutes \cup {Never}, claimed : Minutes \cup {Never}]

LEMMA NoRunIsNoJob == NoRun \notin Firings
BY SchedulerAssumption DEF SchedulerAssumption, NoRun, Never, Minutes, Firings

LEMMA ScheduleAtTheStart == Init => SchedulerIInv
<1> SUFFICES ASSUME Init PROVE SchedulerIInv
    OBVIOUS
<1> USE SchedulerAssumption DEF SchedulerAssumption, Init, Minutes, Never
<1>1. TypeOK
    BY DEF TypeOK
<1>2. Past /\ Imported
    BY DEF Past, Imported
<1>3. Handled /\ InHand
    BY DEF Handled, Booting, InHand
<1>4. History
    BY DEF History, Recorded, Fresh, OnlyCrashesRepeatARun, Owed, Kept
<1> QED
    BY <1>1, <1>2, <1>3, <1>4 DEF SchedulerIInv, Claims

(***************************************************************************)
(* The columns of the table.                                               *)
(***************************************************************************)
LEMMA RowsAreMinutes ==
    ASSUME TypeOK, NEW j \in Jobs
    PROVE  /\ row[j] \in Rows
           /\ row[j].last \in Minutes \cup {Never} /\ row[j].claimed \in Minutes \cup {Never}
           /\ row[j].last \in Int /\ row[j].claimed \in Int /\ now \in Nat /\ at \in Nat
BY SchedulerAssumption DEF SchedulerAssumption, Minutes, Never, TypeOK, Rows

(***************************************************************************)
(* A job whose statements do not all succeed is a troubled one.            *)
(***************************************************************************)
LEMMA TroubleIsNoted ==
    ASSUME TypeOK, NEW j \in Jobs, NEW well \in BOOLEAN, Answers(j, well)
    PROVE  /\ faults' \in 0..MaxFaults /\ troubled' \subseteq Jobs
           /\ troubled \subseteq troubled' /\ troubled' \subseteq troubled \cup {j}
           /\ j \notin troubled' => well /\ j \notin troubled
BY SchedulerAssumption DEF SchedulerAssumption, Answers, TypeOK, trouble

(***************************************************************************)
(* Steps that touch neither the table nor what was run.                    *)
(***************************************************************************)
LEMMA LookingKeepsClaims ==
    ASSUME Claims, Boot \/ Booted \/ Look \/ Dispatched
    PROVE  Claims'
<1> USE SchedulerAssumption DEF SchedulerAssumption, Minutes, Never, Claims, memory, table, history, trouble
<1>1. TypeOK'
    BY DEF TypeOK, Boot, Booted, Look, Dispatched, Due, Handled
<1>2. Past' /\ Imported'
    BY DEF TypeOK, Boot, Booted, Look, Dispatched, Past, Imported
<1>3. InHand'
    BY DEF TypeOK, Boot, Booted, Look, Dispatched, InHand
<1>4. CASE Boot
    BY <1>1, <1>2, <1>3, <1>4 DEF TypeOK, Boot, Past, Handled, Booting
<1>5. CASE Booted
    BY <1>1, <1>2, <1>3, <1>5 DEF TypeOK, Booted, Handled, Booting, Settled
<1>6. CASE Look
    <2>1. ~Booting /\ ~Booting' /\ pc # "down" /\ firing = NoRun
        BY <1>6 DEF Look, Booting, TypeOK
    <2>2. \A j \in ensured \ troubled : Settled(j)
        BY <1>6, <2>1 DEF Look, Handled
    <2>3. ASSUME NEW j \in (todo' \cap ensured') \ troubled' PROVE row'[j].last < at'
        <3>1. j \in Jobs /\ j \in ensured \ troubled /\ fired[j] # now /\ at' = now /\ row' = row
            BY <1>6, <2>3 DEF Look, Due, TypeOK
        <3>2. row[j].last # now /\ row[j].last <= now
            BY <2>2, <3>1 DEF Settled, Past
        <3> QED
            BY <3>1, <3>2, RowsAreMinutes
    <2>4. Handled'
        BY <1>6, <2>1, <2>2, <2>3 DEF Look, Due, Handled, Settled, TypeOK
    <2> QED
        BY <1>1, <1>2, <1>3, <2>4
<1>7. CASE Dispatched
    BY <1>1, <1>2, <1>3, <1>7 DEF TypeOK, Dispatched, Handled, Booting, Settled
<1> QED
    BY <1>4, <1>5, <1>6, <1>7

LEMMA PassingKeepsClaims ==
    ASSUME Claims, Tick \/ (\E j \in Jobs : Declare(j)) \/ StartRun \/ EndRun \/ Crash \/ UNCHANGED vars
    PROVE  Claims'
<1> USE SchedulerAssumption DEF SchedulerAssumption, Minutes, Never, Claims, memory, table, history, trouble
<1>1. CASE Tick
    <2>1. TypeOK'
        BY <1>1 DEF Tick, TypeOK
    <2>2. Past'
        <3>1. now' = now + 1 /\ at' = at /\ row' = row /\ troubled' = troubled
            BY <1>1 DEF Tick
        <3>2. at <= now'
            BY <3>1 DEF Past, TypeOK
        <3>3. ASSUME NEW j \in Jobs PROVE row[j].last <= now' /\ row[j].claimed <= now'
            <4> HIDE DEF Never, Minutes
            <4>1. row[j].last <= now /\ row[j].claimed <= now
                BY DEF Past
            <4> QED
                BY <3>1, <4>1, RowsAreMinutes
        <3> QED
            BY <3>1, <3>2, <3>3 DEF Past
    <2>3. Imported' /\ InHand'
        BY <1>1 DEF Tick, Imported, InHand
    <2>4. Handled'
        BY <1>1 DEF Tick, Handled, Booting, Settled
    <2> QED
        BY <2>1, <2>2, <2>3, <2>4
<1>2. ASSUME NEW j \in Jobs, Declare(j) PROVE Claims'
    BY <1>2 DEF Declare, TypeOK, Past, Imported, Handled, InHand, Booting, Settled
<1>3. CASE StartRun
    <2>1. firing \in Firings
        BY <1>3 DEF StartRun, TypeOK, Firings
    <2>2. runs' \in [Jobs -> [Minutes -> Nat]] /\ rowless' \subseteq Jobs
        BY <1>3, <2>1 DEF StartRun, TypeOK, Firings
    <2>3. TypeOK'
        BY <1>3, <2>2 DEF StartRun, TypeOK
    <2> QED
        BY <1>3, <2>3 DEF StartRun, TypeOK, Past, Imported, Handled, InHand, Booting, Settled
<1>4. CASE EndRun
    BY <1>4 DEF EndRun, TypeOK, Past, Imported, Handled, InHand, Booting, Settled
<1>5. CASE Crash
    <2>1. crashes' \in 0..MaxCrashes
        BY <1>5 DEF Crash, TypeOK
    <2>2. interrupted' \subseteq Jobs
        BY <1>5, NoRunIsNoJob DEF Crash, TypeOK, Firings
    <2>3. TypeOK'
        BY <1>5, <2>1, <2>2 DEF Crash, TypeOK
    <2> QED
        BY <1>5, <2>3 DEF Crash, TypeOK, Past, Imported, Handled, InHand, Booting, Settled
<1>6. CASE UNCHANGED vars
    BY <1>6 DEF vars, TypeOK, Past, Imported, Handled, InHand, Booting, Settled
<1> QED
    BY <1>1, <1>2, <1>3, <1>4, <1>5, <1>6


(***************************************************************************)
(* What boot finds in a row lies in the past, and is what the row holds    *)
(* where no statement fails.                                               *)
(***************************************************************************)
LEMMA FoundIsPast ==
    ASSUME Claims, pc = "boot", NEW j \in todo, NEW found \in {Reading(j)} \cup Misreadings(j)
    PROVE  /\ j \in Jobs /\ j \in declared
           /\ found.last \in Minutes \cup {Never} /\ found.last <= at
           /\ found.read \in {found.last, Never}
           /\ found.claim \in {row[j].claimed, Never}
           /\ row[j].claimed # Never => j \in ensured
           /\ found = Reading(j) /\ j \notin troubled =>
                /\ found.read = found.last /\ found.claim = row[j].claimed
                /\ j \in ensured => found.last = row[j].last
                /\ found.last = Never => Legacy[j] = Never
<1> USE SchedulerAssumption DEF SchedulerAssumption, Minutes, Never
<1>1. j \in declared /\ j \in Jobs
    BY DEF Claims, Handled, TypeOK
<1>2. row[j].last <= at /\ row[j].last \in Minutes \cup {Never} /\ at \in Minutes
    BY <1>1 DEF Claims, Handled, Booting, TypeOK
<1>3. j \in ensured \ troubled => LastFired(j) = row[j].last
    BY <1>1 DEF Claims, Imported, LastFired
<1>4. row[j].claimed # Never => j \in ensured
    BY <1>1 DEF Claims, Imported
<1>5. LastFired(j) \in {row[j].last, Legacy[j]} /\ (LastFired(j) = Never => Legacy[j] = Never)
    BY <1>1, <1>2 DEF LastFired
<1>6. /\ found.last \in {row[j].last, Legacy[j]} /\ found.read \in {found.last, Never}
      /\ found.claim \in {row[j].claimed, Never}
    BY <1>5 DEF Reading, Misreadings
<1>7. Legacy[j] \in Minutes \cup {Never} /\ Legacy[j] <= at
    BY <1>1, <1>2
<1>8. found = Reading(j) =>
        found.last = LastFired(j) /\ found.read = LastFired(j) /\ found.claim = row[j].claimed
    BY DEF Reading
<1>9. found.last \in Minutes \cup {Never} /\ found.last <= at
    <2> HIDE DEF Minutes, Never
    <2> QED
        BY <1>2, <1>6, <1>7
<1> HIDE DEF Minutes, Never
<1> QED
    BY <1>1, <1>3, <1>4, <1>5, <1>6, <1>8, <1>9

LEMMA LatestMissed ==
    ASSUME Claims, pc = "boot", NEW j \in todo, NEW found, Missed(j, found) # {}
    PROVE  /\ Max(Missed(j, found)) \in Minutes /\ found.read < Max(Missed(j, found))
           /\ Max(Missed(j, found)) <= at
<1>1. j \in Jobs
    BY DEF Claims, Handled, TypeOK
<1>2. Missed(j, found) \in SUBSET (0..LastMinute)
    BY <1>1, SchedulerAssumption DEF Missed, SchedulerAssumption
<1>3. Max(Missed(j, found)) \in Missed(j, found)
    BY <1>2, MaxIsReached, SchedulerAssumption DEF SchedulerAssumption
<1> QED
    BY <1>2, <1>3 DEF Missed, Minutes

(***************************************************************************)
(* Boot takes up a job.                                                    *)
(***************************************************************************)
LEMMA PassingOverKeepsClaims ==
    ASSUME Claims, NEW j \in Jobs, Unregistered(j)
    PROVE  Claims'
<1> USE SchedulerAssumption DEF SchedulerAssumption, Minutes, Never
<1>1. /\ pc = "boot" /\ j \in todo /\ todo' = todo \ {j}
      /\ UNCHANGED <<now, declared, pc, at, fired, firing, ensured, row, crashes, runs, rowless, interrupted>>
    BY DEF Unregistered, table
<1>2. /\ faults' \in 0..MaxFaults /\ troubled' \subseteq Jobs
      /\ troubled \subseteq troubled' /\ j \in troubled'
    <2>1. FALSE \in BOOLEAN /\ TypeOK /\ Answers(j, FALSE)
        BY DEF Unregistered, Claims
    <2> QED
        BY <2>1, TroubleIsNoted
<1>3. TypeOK'
    BY <1>1, <1>2 DEF Claims, TypeOK
<1>4. Past' /\ Imported'
    BY <1>1, <1>2 DEF Claims, Past, Imported
<1>5. Handled' /\ InHand'
    BY <1>1, <1>2 DEF Claims, Handled, InHand, Booting, Settled
<1> QED
    BY <1>3, <1>4, <1>5 DEF Claims

LEMMA ResumingKeepsClaims ==
    ASSUME Claims, NEW j \in Jobs, NEW found \in {Reading(j)} \cup Misreadings(j), Resume(j, found)
    PROVE  /\ Claims'
           /\ j \in ensured /\ (j \notin troubled' => row' = row)
<1> USE SchedulerAssumption DEF SchedulerAssumption, Minutes, Never
<1>1. /\ pc = "boot" /\ j \in todo /\ j \in declared /\ j \in ensured /\ j \in CatchUp
      /\ row[j].claimed # Never /\ found.claim = row[j].claimed
      /\ found.last \in Minutes \cup {Never} /\ found.last <= at
    BY FoundIsPast DEF Resume, Begin
<1>2. /\ pc' = "fire" /\ todo' = todo \ {j} /\ ensured' = ensured /\ now' = now /\ declared' = declared
      /\ at' = at /\ fired' = fired /\ UNCHANGED <<crashes, runs, rowless, interrupted>>
    BY <1>1 DEF Resume, Begin
<1>3. /\ faults' \in 0..MaxFaults /\ troubled' \subseteq Jobs
      /\ troubled \subseteq troubled' /\ troubled' \subseteq troubled \cup {j}
      /\ j \notin troubled' => found = Reading(j) /\ j \notin troubled
    <2>1. (found = Reading(j)) \in BOOLEAN /\ TypeOK /\ Answers(j, found = Reading(j))
        BY DEF Resume, Claims
    <2> QED
        BY <2>1, TroubleIsNoted
<1>4. /\ row' = [row EXCEPT ![j].last = found.last]
      /\ firing' = [job |-> j, kind |-> "resumed", slot |-> row[j].claimed, key |-> at]
    BY <1>1 DEF Resume
<1>5. /\ row'[j].last = found.last /\ row'[j].claimed = row[j].claimed
      /\ \A k \in Jobs \ {j} : row'[k] = row[k]
    BY <1>4 DEF Claims, TypeOK
<1>6. j \notin troubled' => row' = row
    <2>1. j \notin troubled' => found.last = row[j].last
        BY <1>1, <1>3, FoundIsPast
    <2> QED
        BY <1>4, <2>1 DEF Claims, TypeOK
<1>7. firing' \in Firings /\ firing' # NoRun
    BY <1>1, <1>4, NoRunIsNoJob DEF Claims, TypeOK, Firings
<1>8. TypeOK'
    <2>1. row' \in [Jobs -> Rows]
        BY <1>1, <1>4 DEF Claims, TypeOK, Rows
    <2> QED
        BY <1>1, <1>2, <1>3, <1>7, <2>1 DEF Claims, TypeOK, Firings, Rows
<1>9. row[j].claimed <= at /\ row[j].claimed <= now /\ found.last <= now
    <2>1. row[j].claimed \in Int /\ found.last \in Int /\ at \in Int /\ now \in Int /\ at <= now
        BY <1>1, RowsAreMinutes DEF Claims, Past
    <2> QED
        BY <1>1, <2>1 DEF Claims, Handled, Booting, Past
<1>10. Past' /\ Imported'
    <2>1. Past'
        <3>1. \A k \in Jobs : row'[k].last <= now /\ row'[k].claimed <= now
            BY <1>5, <1>9 DEF Claims, Past
        <3>2. \A k \in Jobs \ troubled' : row'[k] = row[k] /\ k \notin troubled
            BY <1>3, <1>5, <1>6
        <3> QED
            BY <1>2, <3>1, <3>2 DEF Claims, Past
    <2>2. Imported'
        BY <1>1, <1>2, <1>3, <1>5, <1>6 DEF Claims, Imported, TypeOK
    <2> QED
        BY <2>1, <2>2
<1>11. InHand'
    BY <1>1, <1>2, <1>3, <1>4, <1>6, <1>9 DEF InHand
<1>12. Handled'
    <2>1. Booting /\ Booting' /\ firing = NoRun
        BY <1>1, <1>4, <1>7 DEF Booting, Claims, TypeOK
    <2>2. todo \subseteq Jobs /\ ensured \subseteq Jobs
        BY DEF Claims, TypeOK
    <2> QED
        BY <1>1, <1>2, <1>3, <1>4, <1>5, <1>7, <2>1, <2>2 DEF Claims, Handled, Settled
<1> QED
    BY <1>1, <1>6, <1>8, <1>10, <1>11, <1>12 DEF Claims

LEMMA SettlingKeepsClaims ==
    ASSUME Claims, NEW j \in Jobs, NEW found \in {Reading(j)} \cup Misreadings(j), NEW written \in BOOLEAN,
           Abandon(j, found, written) \/ NothingMissed(j, found)
    PROVE  /\ Claims'
           /\ troubled \subseteq troubled' /\ troubled' \subseteq troubled \cup {j}
           /\ j \notin troubled' => /\ row'[j].claimed = Never
                                    /\ j \in ensured => row'[j].last = Reached(j)
           /\ \A k \in Jobs \ {j} : row'[k] = row[k]
<1> USE SchedulerAssumption DEF SchedulerAssumption, Minutes, Never
<1> DEFINE past == IF found.claim # Never THEN found.claim ELSE found.read
<1>1. /\ pc = "boot" /\ j \in todo /\ j \in declared
      /\ found.last \in Minutes \cup {Never} /\ found.last <= at
      /\ found.read \in {found.last, Never} /\ found.claim \in {row[j].claimed, Never}
      /\ found = Reading(j) /\ j \notin troubled =>
            /\ found.read = found.last /\ found.claim = row[j].claimed
            /\ j \in ensured => found.last = row[j].last
            /\ found.last = Never => Legacy[j] = Never
    <2>1. pc = "boot" /\ j \in todo
        BY DEF Abandon, NothingMissed, Begin
    <2> HIDE DEF Minutes, Never
    <2> QED
        BY <2>1, FoundIsPast
<1>2. /\ pc' = pc /\ todo' = todo \ {j} /\ ensured' = ensured \cup {j} /\ now' = now /\ declared' = declared
      /\ at' = at /\ firing' = firing
      /\ UNCHANGED <<crashes, runs, rowless, interrupted>>
    BY DEF Abandon, NothingMissed, Begin
<1>3. /\ faults' \in 0..MaxFaults /\ troubled' \subseteq Jobs
      /\ troubled \subseteq troubled' /\ troubled' \subseteq troubled \cup {j}
      /\ j \notin troubled' => found = Reading(j) /\ j \notin troubled /\ (written \/ NothingMissed(j, found))
    <2>1. CASE Abandon(j, found, written)
        <3>1. (written /\ found = Reading(j)) \in BOOLEAN /\ TypeOK /\ Answers(j, written /\ found = Reading(j))
            BY <2>1 DEF Abandon, Claims
        <3> QED
            BY <3>1, TroubleIsNoted
    <2>2. CASE NothingMissed(j, found)
        <3>1. (found = Reading(j)) \in BOOLEAN /\ TypeOK /\ Answers(j, found = Reading(j))
            BY <2>2 DEF NothingMissed, Claims
        <3> QED
            BY <2>2, <3>1, TroubleIsNoted
    <2> QED
        BY <2>1, <2>2
<1>4. /\ row[j] \in Rows /\ row[j].last <= at /\ row[j].claimed <= at /\ at \in Minutes /\ now \in Minutes /\ at <= now
    BY <1>1 DEF Claims, TypeOK, Rows, Handled, Booting, Past
<1>5. /\ row'[j] \in Rows /\ row'[j].last <= at /\ row'[j].claimed <= at
      /\ \A k \in Jobs \ {j} : row'[k] = row[k]
      /\ row' = [row EXCEPT ![j] = row'[j]]
    <2>1. CASE Abandon(j, found, written)
        <3>1. \E x \in Rows : row' = [row EXCEPT ![j] = x] /\ x.last <= at /\ x.claimed <= at
            <4>1. CASE written
                <5>1. row' = [row EXCEPT ![j] = [last |-> found.claim, claimed |-> Never]]
                    BY <2>1, <4>1 DEF Abandon
                <5>2. [last |-> found.claim, claimed |-> Never] \in Rows /\ found.claim <= at /\ Never <= at
                    BY <1>1, <1>4 DEF Rows
                <5> QED
                    BY <5>1, <5>2
            <4>2. CASE ~written
                <5>1. row' = [row EXCEPT ![j] = [row[j] EXCEPT !.last = found.last]]
                    BY <2>1, <4>2 DEF Abandon
                <5>2. /\ [row[j] EXCEPT !.last = found.last] \in Rows
                      /\ [row[j] EXCEPT !.last = found.last].last = found.last
                      /\ [row[j] EXCEPT !.last = found.last].claimed = row[j].claimed
                    BY <1>1, <1>4 DEF Rows
                <5> QED
                    BY <1>1, <1>4, <5>1, <5>2
            <4> QED
                BY <4>1, <4>2
        <3> QED
            BY <3>1 DEF Claims, TypeOK
    <2>2. CASE NothingMissed(j, found)
        <3>1. row' = [row EXCEPT ![j] = [row[j] EXCEPT !.last = found.last]]
            BY <2>2 DEF NothingMissed
        <3>2. /\ [row[j] EXCEPT !.last = found.last] \in Rows
              /\ [row[j] EXCEPT !.last = found.last].last = found.last
              /\ [row[j] EXCEPT !.last = found.last].claimed = row[j].claimed
            BY <1>1, <1>4 DEF Rows
        <3> QED
            BY <1>1, <1>4, <3>1, <3>2 DEF Claims, TypeOK
    <2> QED
        BY <2>1, <2>2
<1>6. /\ past \in Minutes \cup {Never} /\ past <= at
      /\ fired' = [fired EXCEPT ![j] = past]
    BY <1>1, <1>4 DEF Abandon, NothingMissed, Rows
<1>7. j \notin troubled' =>
        /\ row'[j].claimed = Never /\ row'[j].last = past
        /\ past = Never => Legacy[j] = Never
        /\ j \in ensured => past = Reached(j)
    <2> SUFFICES ASSUME j \notin troubled'
                 PROVE  /\ row'[j].claimed = Never /\ row'[j].last = past
                        /\ past = Never => Legacy[j] = Never
                        /\ j \in ensured => past = Reached(j)
        OBVIOUS
    <2>1. /\ found.read = found.last /\ found.claim = row[j].claimed
          /\ j \in ensured => found.last = row[j].last
          /\ found.last = Never => Legacy[j] = Never
        BY <1>1, <1>3
    <2>2. CASE found.claim # Never
        <3>1. Abandon(j, found, written) /\ written
            BY <1>3, <2>2 DEF NothingMissed
        <3> QED
            BY <2>1, <2>2, <3>1 DEF Abandon, Claims, TypeOK, Reached
    <2>3. CASE found.claim = Never
        <3>1. row' = [row EXCEPT ![j].last = found.last]
            BY <2>3 DEF Abandon, NothingMissed
        <3>2. row'[j].claimed = row[j].claimed /\ row'[j].last = found.last
            BY <3>1 DEF Claims, TypeOK
        <3>3. past = found.last
            BY <2>1, <2>3
        <3> HIDE DEF past
        <3> QED
            BY <2>1, <2>3, <3>2, <3>3 DEF Reached
    <2> QED
        BY <2>2, <2>3
<1>8. row' \in [Jobs -> Rows] /\ now \in Int /\ at \in Int
    <2>1. row \in [Jobs -> Rows]
        BY DEF Claims, TypeOK, Rows
    <2>2. row' \in [Jobs -> Rows]
        BY <1>5, <2>1
    <2> QED
        BY <1>4, <2>2
<1>9. TypeOK'
    <2>1. fired' \in [Jobs -> Minutes \cup {Never}]
        <3> HIDE DEF past
        <3> QED
            BY <1>6 DEF Claims, TypeOK
    <2> QED
        BY <1>1, <1>2, <1>3, <1>8, <2>1 DEF Claims, TypeOK, Rows
<1> HIDE DEF past
<1>10. Past'
    <2>1. ASSUME NEW k \in Jobs
          PROVE  row'[k].last <= now /\ row'[k].claimed <= now
        <3>1. row'[k].last \in Int /\ row'[k].claimed \in Int
            BY <1>8 DEF Rows
        <3>2. CASE k = j
            BY <1>4, <1>5, <1>8, <3>1, <3>2
        <3>3. CASE k # j
            BY <1>5, <3>3 DEF Claims, Past
        <3> QED
            BY <3>2, <3>3
    <2>2. ASSUME NEW k \in Jobs \ troubled', row'[k].claimed # Never
          PROVE  row'[k].last < row'[k].claimed
        BY <1>3, <1>5, <1>7, <2>2 DEF Claims, Past
    <2> QED
        BY <1>2, <2>1, <2>2 DEF Claims, Past
<1>11. Imported'
    <2>1. \A k \in Jobs \ ensured' : k # j /\ row'[k] = row[k] /\ k \notin ensured
        BY <1>2, <1>5
    <2>2. ensured' \subseteq Jobs
        BY <1>2 DEF Claims, TypeOK
    <2>3. \A k \in ensured' \ troubled' : row'[k].last = Never => Legacy[k] = Never
        BY <1>2, <1>3, <1>5, <1>7, <2>2 DEF Claims, Imported
    <2> QED
        BY <2>1, <2>3 DEF Claims, Imported
<1>12. Handled'
    <2>1. Booting /\ Booting' /\ firing = NoRun
        BY <1>1, <1>2 DEF Booting, Claims, TypeOK
    <2>2. j \notin troubled' => Settled(j)'
        BY <1>6, <1>7 DEF Claims, TypeOK, Settled
    <2>3. \A k \in Jobs \ {j} : fired'[k] = fired[k]
        BY <1>6 DEF Claims, TypeOK
    <2>4. todo \subseteq Jobs /\ ensured \subseteq Jobs
        BY DEF Claims, TypeOK
    <2> QED
        BY <1>1, <1>2, <1>3, <1>5, <2>1, <2>2, <2>3, <2>4 DEF Claims, Handled, Settled
<1>13. InHand'
    BY <1>1, <1>2 DEF InHand, Claims, TypeOK
<1> QED
    BY <1>3, <1>5, <1>7, <1>9, <1>10, <1>11, <1>12, <1>13 DEF Claims

LEMMA RecoveringKeepsClaims ==
    ASSUME Claims, NEW j \in Jobs, NEW found \in {Reading(j)} \cup Misreadings(j), NEW written \in BOOLEAN,
           Recover(j, found, written)
    PROVE  /\ Claims'
           /\ troubled \subseteq troubled' /\ troubled' \subseteq troubled \cup {j}
           /\ \A k \in Jobs \ {j} : row'[k] = row[k]
           /\ j \notin troubled' => /\ row[j].claimed = Never
                                    /\ row'[j].claimed = at /\ row'[j].last < at
                                    /\ j \in ensured => row'[j].last = row[j].last
<1> USE SchedulerAssumption DEF SchedulerAssumption, Minutes, Never
<1> DEFINE missed == Max(Missed(j, found))
           past == found.last
           claim == IF written THEN at ELSE row[j].claimed
<1>1. /\ pc = "boot" /\ j \in todo /\ j \in declared
      /\ past \in Minutes /\ past <= at /\ found.read = past /\ found.claim = Never
      /\ found = Reading(j) /\ j \notin troubled =>
            row[j].claimed = Never /\ (j \in ensured => past = row[j].last)
    <2>1. pc = "boot" /\ j \in todo /\ found.read # Never /\ found.claim = Never
        BY DEF Recover, Begin
    <2> HIDE DEF Minutes, Never
    <2> QED
        BY <2>1, FoundIsPast
<1>2. missed \in Minutes /\ past < missed /\ missed <= at
    BY <1>1, LatestMissed DEF Recover
<1>3. /\ pc' = "fire" /\ todo' = todo \ {j} /\ ensured' = ensured \cup {j} /\ now' = now /\ declared' = declared
      /\ at' = at
      /\ fired' = [fired EXCEPT ![j] = past]
      /\ row' = [row EXCEPT ![j] = [last |-> past, claimed |-> claim]]
      /\ firing' = [job |-> j, kind |-> "missed", slot |-> missed, key |-> at]
      /\ UNCHANGED <<crashes, runs, rowless, interrupted>>
    BY <1>1 DEF Recover, Begin, Claims, TypeOK
<1>4. /\ faults' \in 0..MaxFaults /\ troubled' \subseteq Jobs
      /\ troubled \subseteq troubled' /\ troubled' \subseteq troubled \cup {j}
      /\ j \notin troubled' => found = Reading(j) /\ j \notin troubled /\ written
    <2>1. /\ (written /\ found = Reading(j)) \in BOOLEAN /\ TypeOK
          /\ Answers(j, written /\ found = Reading(j))
        BY DEF Recover, Claims
    <2> QED
        BY <2>1, TroubleIsNoted
<1>5. claim \in Minutes \cup {Never} /\ claim <= at /\ (j \notin troubled' => claim = at)
    <2>1. row[j].claimed \in Minutes \cup {Never} /\ row[j].claimed <= at /\ at \in Minutes
        BY <1>1 DEF Claims, TypeOK, Handled, Booting
    <2> QED
        BY <1>4, <2>1
<1> HIDE DEF missed, past, claim
<1>6. now \in Nat /\ at \in Minutes /\ at <= now /\ past < at
    BY <1>1, <1>2, RowsAreMinutes DEF Claims, Past, TypeOK
<1>7. row' \in [Jobs -> Rows]
    BY <1>1, <1>3, <1>5 DEF Claims, TypeOK, Rows
<1>8. /\ row'[j].last = past /\ row'[j].claimed = claim
      /\ \A k \in Jobs \ {j} : row'[k] = row[k]
    BY <1>3 DEF Claims, TypeOK
<1>9. firing' \in Firings /\ firing' # NoRun
    BY <1>1, <1>2, <1>3, <1>6, NoRunIsNoJob DEF Firings
<1>10. TypeOK'
    BY <1>1, <1>3, <1>4, <1>7, <1>9 DEF Claims, TypeOK, Rows, Firings
<1>11. Past'
    <2>1. ASSUME NEW k \in Jobs
          PROVE  row'[k].last <= now /\ row'[k].claimed <= now
        <3>1. CASE k = j
            BY <1>1, <1>5, <1>6, <1>8, <3>1
        <3>2. CASE k # j
            BY <1>8, <3>2 DEF Claims, Past
        <3> QED
            BY <3>1, <3>2
    <2>2. ASSUME NEW k \in Jobs \ troubled', row'[k].claimed # Never
          PROVE  row'[k].last < row'[k].claimed
        BY <1>4, <1>5, <1>6, <1>8, <2>2 DEF Claims, Past
    <2> QED
        BY <1>3, <2>1, <2>2 DEF Claims, Past
<1>12. Imported'
    BY <1>1, <1>3, <1>4, <1>8 DEF Claims, Imported, TypeOK
<1>13. Handled'
    <2>1. Booting /\ Booting' /\ firing = NoRun /\ firing'.job = j
        BY <1>1, <1>3, <1>9 DEF Booting, Claims, TypeOK
    <2>2. \A k \in Jobs \ {j} : fired'[k] = fired[k]
        BY <1>3 DEF Claims, TypeOK
    <2>3. todo \subseteq Jobs /\ ensured \subseteq Jobs
        BY DEF Claims, TypeOK
    <2> QED
        BY <1>1, <1>3, <1>4, <1>8, <1>9, <2>1, <2>2, <2>3 DEF Claims, Handled, Settled
<1>14. InHand'
    BY <1>1, <1>2, <1>3, <1>4, <1>5, <1>6, <1>8 DEF InHand
<1>15. j \notin troubled' => row[j].claimed = Never /\ row'[j].claimed = at /\ row'[j].last < at
                             /\ (j \in ensured => row'[j].last = row[j].last)
    BY <1>1, <1>4, <1>5, <1>6, <1>8
<1> QED
    BY <1>4, <1>8, <1>10, <1>11, <1>12, <1>13, <1>14, <1>15 DEF Claims

(***************************************************************************)
(* The loop claims a minute, and a run is confirmed.                       *)
(***************************************************************************)
LEMMA ClaimingKeepsClaims ==
    ASSUME Claims, NEW j \in Jobs, NEW written \in BOOLEAN, Claim(j, written)
    PROVE  /\ Claims'
           /\ troubled \subseteq troubled' /\ troubled' \subseteq troubled \cup {j}
           /\ \A k \in Jobs \ {j} : row'[k] = row[k]
           /\ row'[j].last = row[j].last
           /\ j \notin ensured => row'[j] = row[j]
           /\ j \in ensured /\ j \notin troubled' =>
                row[j].claimed = Never /\ row'[j].claimed = at /\ row[j].last < at
<1> USE SchedulerAssumption DEF SchedulerAssumption, Minutes, Never
<1>1. /\ pc = "dispatch" /\ j \in todo /\ j \in declared
      /\ pc' = "fire" /\ todo' = todo \ {j} /\ ensured' = ensured /\ now' = now /\ declared' = declared
      /\ at' = at
      /\ fired' = [fired EXCEPT ![j] = at]
      /\ firing' = [job |-> j, kind |-> "due", slot |-> at, key |-> at]
      /\ UNCHANGED <<crashes, runs, rowless, interrupted>>
    BY DEF Claim, Claims, Handled
<1>2. firing = NoRun /\ ~Booting
    BY <1>1 DEF Claims, TypeOK, Booting
<1>3. /\ faults' \in 0..MaxFaults /\ troubled' \subseteq Jobs
      /\ troubled \subseteq troubled' /\ troubled' \subseteq troubled \cup {j}
      /\ j \notin troubled' => j \notin troubled /\ written
    BY TroubleIsNoted DEF Claim, Write, Claims
<1>4. j \in ensured \ troubled => Settled(j) /\ row[j].last < at
    BY <1>1, <1>2 DEF Claims, Handled
<1>5. now \in Nat /\ at \in Minutes /\ at <= now
    BY RowsAreMinutes DEF Claims, Past, TypeOK
<1>6. row' \in [Jobs -> Rows]
    BY <1>5 DEF Claim, Write, Claims, TypeOK, Rows
<1>7. /\ row'[j].last = row[j].last
      /\ row'[j].claimed \in {row[j].claimed, at}
      /\ j \in ensured /\ written => row'[j].claimed = at
      /\ j \notin ensured => row'[j] = row[j]
      /\ \A k \in Jobs \ {j} : row'[k] = row[k]
    BY DEF Claim, Write, Claims, TypeOK
<1>8. firing' \in Firings /\ firing' # NoRun /\ ~Booting'
    BY <1>1, <1>5, NoRunIsNoJob DEF Firings, Booting
<1>9. TypeOK'
    BY <1>1, <1>3, <1>6, <1>8 DEF Claims, TypeOK, Rows, Firings
<1>10. Past'
    <2>1. \A k \in Jobs : row'[k].last <= now /\ row'[k].claimed <= now
        BY <1>5, <1>7 DEF Claims, Past
    <2>2. ASSUME NEW k \in Jobs \ troubled', row'[k].claimed # Never
          PROVE  row'[k].last < row'[k].claimed
        <3>1. CASE k = j /\ j \in ensured
            BY <1>3, <1>4, <1>7, <2>2, <3>1
        <3>2. CASE k # j \/ j \notin ensured
            BY <1>3, <1>7, <2>2, <3>2 DEF Claims, Past
        <3> QED
            BY <3>1, <3>2
    <2> QED
        BY <1>1, <2>1, <2>2 DEF Claims, Past
<1>11. Imported'
    <2>1. \A k \in Jobs : row'[k].last = row[k].last
        BY <1>7
    <2>2. \A k \in Jobs \ ensured : row'[k] = row[k]
        BY <1>7
    <2>3. ensured \subseteq Jobs
        BY DEF Claims, TypeOK
    <2> QED
        BY <1>1, <1>3, <2>1, <2>2, <2>3 DEF Claims, Imported
<1>12. Handled'
    <2>1. \A k \in Jobs \ {j} : fired'[k] = fired[k]
        BY <1>1 DEF Claims, TypeOK
    <2>2. todo \subseteq Jobs /\ ensured \subseteq Jobs
        BY DEF Claims, TypeOK
    <2> QED
        BY <1>1, <1>2, <1>3, <1>7, <1>8, <2>1, <2>2 DEF Claims, Handled, Settled
<1>13. InHand'
    BY <1>1, <1>3, <1>4, <1>5, <1>7 DEF InHand
<1>14. j \in ensured /\ j \notin troubled' =>
            row[j].claimed = Never /\ row'[j].claimed = at /\ row[j].last < at
    BY <1>3, <1>4, <1>7 DEF Settled
<1> QED
    BY <1>3, <1>7, <1>9, <1>10, <1>11, <1>12, <1>13, <1>14 DEF Claims

LEMMA ConfirmingKeepsClaims ==
    ASSUME Claims, NEW written \in BOOLEAN, Confirm(written)
    PROVE  Claims' /\ troubled \subseteq troubled' /\ (firing.job \notin troubled' => written)
<1> USE SchedulerAssumption DEF SchedulerAssumption, Minutes, Never
<1> DEFINE j == firing.job
           due == firing.kind = "due"
<1>1. /\ firing # NoRun /\ firing \in Firings /\ j \in Jobs /\ j \notin todo /\ firing.key = at
    BY DEF Confirm, Claims, TypeOK, InHand, Firings
<1>2. /\ pc = "confirm" /\ pc' = (IF due THEN "dispatch" ELSE "boot")
      /\ todo' = todo /\ ensured' = ensured /\ now' = now /\ declared' = declared /\ at' = at
      /\ fired' = [fired EXCEPT ![j] = at] /\ firing' = NoRun
      /\ UNCHANGED <<crashes, runs, rowless, interrupted>>
    BY <1>1 DEF Confirm
<1>3. row' = IF written /\ j \in ensured THEN [row EXCEPT ![j] = [last |-> at, claimed |-> Never]] ELSE row
    BY <1>1 DEF Confirm, Write
<1> HIDE DEF j
<1>0. /\ faults' \in 0..MaxFaults /\ troubled' \subseteq Jobs
      /\ troubled \subseteq troubled' /\ troubled' \subseteq troubled \cup {j}
      /\ j \notin troubled' => written /\ j \notin troubled
    BY <1>1, TroubleIsNoted DEF Confirm, Write, Claims, j
<1>4. now \in Nat /\ at \in Minutes /\ at <= now
    BY <1>1, RowsAreMinutes DEF Claims, Past, TypeOK
<1>5. row' \in [Jobs -> Rows]
    BY <1>3, <1>4 DEF Claims, TypeOK, Rows
<1>6. /\ j \in ensured /\ written => row'[j].last = at /\ row'[j].claimed = Never
      /\ ~(j \in ensured /\ written) => row'[j] = row[j]
      /\ \A k \in Jobs \ {j} : row'[k] = row[k]
    BY <1>1, <1>3 DEF Claims, TypeOK
<1>7. TypeOK'
    <2>1. fired' \in [Jobs -> Minutes \cup {Never}]
        BY <1>1, <1>2, <1>4 DEF Claims, TypeOK
    <2> QED
        BY <1>0, <1>2, <1>5, <2>1 DEF Claims, TypeOK, Rows
<1>8. Past'
    <2>1. \A k \in Jobs : row'[k].last <= now /\ row'[k].claimed <= now
        BY <1>4, <1>6 DEF Claims, Past
    <2>2. ASSUME NEW k \in Jobs \ troubled', row'[k].claimed # Never
          PROVE  row'[k].last < row'[k].claimed
        BY <1>0, <1>6, <2>2 DEF Claims, Past
    <2> QED
        BY <1>2, <2>1, <2>2 DEF Claims, Past
<1>9. Imported'
    <2>1. \A k \in Jobs \ ensured : row'[k] = row[k]
        BY <1>6
    <2>2. \A k \in ensured : row'[k].last = Never => row'[k] = row[k]
        <3>1. ensured \subseteq Jobs
            BY DEF Claims, TypeOK
        <3> QED
            BY <1>4, <1>6, <3>1
    <2> QED
        BY <1>0, <1>2, <2>1, <2>2 DEF Claims, Imported
<1>10. Handled'
    <2>1. Booting <=> ~due
        BY <1>1, <1>2 DEF Booting
    <2>2. Booting' <=> ~due
        BY <1>2 DEF Booting
    <2>3. /\ \A k \in Jobs \ {j} : fired'[k] = fired[k]
          /\ fired'[j] = at
        BY <1>1, <1>2 DEF Claims, TypeOK
    <2>4. todo \subseteq Jobs /\ ensured \subseteq Jobs
        BY DEF Claims, TypeOK
    <2>5. \A k \in ensured \ troubled' : (Booting' /\ k \in todo') \/ Settled(k)'
        <3> SUFFICES ASSUME NEW k \in ensured \ troubled' PROVE (Booting' /\ k \in todo') \/ Settled(k)'
            OBVIOUS
        <3>1. CASE k = j
            BY <1>0, <1>6, <2>3, <3>1 DEF Settled
        <3>2. CASE k # j
            <4>1. (Booting /\ k \in todo) \/ Settled(k)
                BY <1>0, <1>2, <3>2 DEF Claims, Handled, j
            <4> QED
                BY <1>2, <1>6, <2>1, <2>2, <2>3, <2>4, <3>2, <4>1 DEF Settled
        <3> QED
            BY <3>1, <3>2
    <2> QED
        BY <1>0, <1>1, <1>2, <1>6, <2>1, <2>2, <2>4, <2>5 DEF Claims, Handled
<1>11. InHand'
    BY <1>2 DEF InHand
<1> QED
    BY <1>0, <1>7, <1>8, <1>9, <1>10, <1>11 DEF Claims, j

(***************************************************************************)
(* No step of the program spoils the claims.                               *)
(***************************************************************************)
LEMMA ClaimsAreKept == Claims /\ [Next]_vars => Claims'
<1> SUFFICES ASSUME Claims, [Next]_vars PROVE Claims'
    OBVIOUS
<1>1. CASE Tick \/ (\E j \in Jobs : Declare(j)) \/ StartRun \/ EndRun \/ Crash \/ UNCHANGED vars
    BY <1>1, PassingKeepsClaims
<1>2. CASE Boot \/ Booted \/ Look \/ Dispatched
    BY <1>2, LookingKeepsClaims
<1>3. CASE \E j \in Jobs : TakeUp(j)
    <2> SUFFICES ASSUME NEW j \in Jobs, TakeUp(j) PROVE Claims'
        BY <1>3
    <2> DEFINE Found == {Reading(j)} \cup Misreadings(j)
    <2>1. CASE Unregistered(j)
        BY <2>1, PassingOverKeepsClaims
    <2>2. CASE \E found \in Found : Resume(j, found)
        BY <2>2, ResumingKeepsClaims
    <2>3. CASE \E found \in Found, written \in BOOLEAN :
                  Abandon(j, found, written) \/ NothingMissed(j, found)
        BY <2>3, SettlingKeepsClaims
    <2>4. CASE \E found \in Found, written \in BOOLEAN : Recover(j, found, written)
        BY <2>4, RecoveringKeepsClaims
    <2> QED
        BY <2>1, <2>2, <2>3, <2>4 DEF TakeUp
<1>4. CASE \E j \in Jobs, written \in BOOLEAN : Claim(j, written)
    BY <1>4, ClaimingKeepsClaims
<1>5. CASE \E written \in BOOLEAN : Confirm(written)
    BY <1>5, ConfirmingKeepsClaims
<1> QED
    BY <1>1, <1>2, <1>3, <1>4, <1>5 DEF Next, Work

(***************************************************************************)
(* schedules.rs, "claim: taken first, persisted before a crash": whenever  *)
(* a job that has a row is being run, its row says so, for every set of    *)
(* jobs, every choice of minutes, any number of crashes and any reads and  *)
(* writes that fail, unless one of them was a statement for this very job. *)
(***************************************************************************)
THEOREM RunsAreClaimed == Spec => []KnownRunsAreClaimed
<1>1. Init => Claims
    BY ScheduleAtTheStart DEF SchedulerIInv
<1>2. Claims => KnownRunsAreClaimed
    BY DEF Claims, InHand, KnownRunsAreClaimed
<1> QED
    BY <1>1, <1>2, ClaimsAreKept, PTL DEF Spec

-----------------------------------------------------------------------------
(***************************************************************************)
(* How often a minute is run.                                              *)
(***************************************************************************)
LEMMA RunsAreCounted ==
    ASSUME TypeOK, NEW j \in Jobs, NEW m \in Minutes
    PROVE  runs[j][m] \in Nat /\ crashes \in Nat /\ (runs[j][m] > 0 \/ runs[j][m] = 0)
BY SchedulerAssumption DEF SchedulerAssumption, TypeOK

LEMMA QuietStepsKeepHistory ==
    ASSUME Claims, History,
           UNCHANGED <<row, ensured, runs, rowless, crashes, firing>>, troubled \subseteq troubled',
           pc' = "fire" => pc = "fire",
           pc \in {"running", "confirm"} => pc' \in {"running", "confirm"}
    PROVE  History'
BY DEF History, Recorded, Reached, Fresh, OnlyCrashesRepeatARun, Owed, Kept

LEMMA ResumingKeepsHistory ==
    ASSUME Claims, History, NEW j \in Jobs, NEW found \in {Reading(j)} \cup Misreadings(j), Resume(j, found)
    PROVE  History'
<1>1. pc = "boot" /\ pc' = "fire" /\ firing'.kind = "resumed"
      /\ UNCHANGED <<crashes, runs, rowless>>
    BY DEF Resume, Begin
<1>2. j \in ensured /\ ensured' = ensured /\ (j \notin troubled' => row' = row)
    BY ResumingKeepsClaims DEF Resume, Begin
<1>3. \A k \in Jobs \ {j} : row'[k] = row[k]
    BY DEF Resume, Claims, TypeOK
<1>4. troubled \subseteq troubled'
    BY DEF Resume, Answers, trouble
<1>5. Kept' \subseteq Kept /\ \A k \in Kept' : row'[k] = row[k]
    BY <1>1, <1>2, <1>3, <1>4 DEF Kept
<1>6. Recorded' /\ OnlyCrashesRepeatARun'
    BY <1>1, <1>2, <1>5 DEF History, Recorded, Reached, OnlyCrashesRepeatARun, Kept
<1>7. Owed'
    BY <1>1, <1>5 DEF History, Owed
<1> QED
    BY <1>1, <1>6, <1>7 DEF History, Fresh

LEMMA SettlingKeepsHistory ==
    ASSUME Claims, History, NEW j \in Jobs, NEW found \in {Reading(j)} \cup Misreadings(j), NEW written \in BOOLEAN,
           Abandon(j, found, written) \/ NothingMissed(j, found)
    PROVE  History'
<1>1. pc = "boot" /\ pc' = "boot" /\ runs' = runs /\ rowless' = rowless /\ crashes' = crashes
      /\ ensured' = ensured \cup {j}
    BY DEF Abandon, NothingMissed, Begin
<1>2. /\ troubled \subseteq troubled'
      /\ j \notin troubled' => row'[j].claimed = Never /\ (j \in ensured => row'[j].last = Reached(j))
      /\ \A k \in Jobs \ {j} : row'[k] = row[k]
    BY SettlingKeepsClaims
<1>3. Kept' \subseteq Kept /\ \A k \in Kept' : k \in ensured => Reached(k)' = Reached(k)
    BY <1>1, <1>2 DEF Kept, Reached
<1>4. Recorded'
    BY <1>1, <1>3 DEF History, Recorded
<1>5. Owed'
    BY <1>1, <1>2, <1>3 DEF History, Owed, Kept
<1> QED
    BY <1>1, <1>3, <1>4, <1>5 DEF History, Fresh, OnlyCrashesRepeatARun

\* A minute after all that a settled row speaks of has not been run.
LEMMA NewMinutesAreUnrun ==
    ASSUME TypeOK, Recorded, NEW j \in Kept, NEW m \in Minutes,
           j \in ensured => row[j].claimed = Never /\ row[j].last < m
    PROVE  runs[j][m] = 0
<1>1. row[j].last \in Int /\ m \in Int /\ j \in Jobs
    BY RowsAreMinutes, SchedulerAssumption DEF Minutes, SchedulerAssumption, Kept
<1>2. ~ (runs[j][m] > 0)
    BY <1>1 DEF Recorded, Reached
<1> QED
    BY <1>1, <1>2, RunsAreCounted

\* A job gets a claim for the present minute, unless the table fails it, and its
\* run is next.
LEMMA NewClaimsKeepHistory ==
    ASSUME Claims, Claims', History, NEW j \in Jobs,
           troubled \subseteq troubled',
           j \notin troubled' =>
             /\ j \in ensured => row[j].claimed = Never /\ row'[j].last = row[j].last
             /\ j \in ensured' => row'[j].claimed = at /\ row'[j].last < at
             /\ j \notin ensured' => row'[j] = row[j],
           \A k \in Jobs \ {j} : row'[k] = row[k],
           ensured \subseteq ensured', ensured' \subseteq ensured \cup {j},
           pc \notin {"running", "confirm"}, pc' = "fire", firing'.job = j,
           UNCHANGED <<runs, rowless, crashes>>
    PROVE  History'
<1>1. at \in Minutes /\ at \in Nat
    BY RowsAreMinutes DEF Claims, TypeOK
<1>2. Kept' \subseteq Kept /\ (j \in Kept' => j \notin troubled') /\ Kept' \subseteq Jobs
    BY DEF Kept
<1>3. Recorded'
    <2> SUFFICES ASSUME NEW k \in Kept', NEW m \in Minutes, runs[k][m] > 0
                 PROVE  k \in ensured' /\ m <= Reached(k)'
        BY DEF Recorded
    <2>1. k \in ensured /\ m <= Reached(k) /\ k \in Jobs
        BY <1>2 DEF History, Recorded
    <2>2. CASE k = j
        <3>1. m <= row[j].last /\ row'[j].last = row[j].last /\ row[j].last < at /\ row'[j].claimed = at
            BY <1>2, <2>1, <2>2 DEF Reached
        <3>2. m \in Int /\ row[j].last \in Int /\ at # Never
            BY <1>1, RowsAreMinutes, SchedulerAssumption DEF Claims, Minutes, SchedulerAssumption, Never
        <3> QED
            BY <1>1, <2>1, <2>2, <3>1, <3>2 DEF Reached
    <2>3. CASE k # j
        BY <2>1, <2>3 DEF Reached
    <2> QED
        BY <2>2, <2>3
<1>4. Fresh'
    <2> SUFFICES ASSUME j \in ensured', j \in Kept', NEW m \in Minutes, runs[j][m] > 0
                 PROVE  m <= row'[j].last
        BY DEF Fresh
    <2> QED
        BY <1>2 DEF History, Recorded, Reached
<1>5. Owed'
    <2> SUFFICES ASSUME NEW k \in CatchUp \cap Kept', row'[k].claimed # Never
                 PROVE  runs[k][row'[k].claimed] <= crashes
        BY DEF Owed
    <2>1. k \in Jobs /\ k \in Kept
        BY <1>2
    <2>2. CASE k # j
        BY <2>1, <2>2 DEF History, Owed
    <2>3. CASE k = j
        <3>1. j \in ensured'
            <4>1. j \notin ensured => row[j].claimed = Never
                BY DEF Claims, Imported
            <4> QED
                BY <1>2, <2>3, <4>1
        <3>2. runs[j][at] = 0
            BY <1>1, <1>2, <2>3, <3>1, NewMinutesAreUnrun DEF Claims, History
        <3> QED
            BY <1>1, <1>2, <2>1, <2>3, <3>1, <3>2, RunsAreCounted DEF Claims
    <2> QED
        BY <2>2, <2>3
<1>6. OnlyCrashesRepeatARun'
    BY <1>2 DEF History, OnlyCrashesRepeatARun
<1> QED
    BY <1>3, <1>4, <1>5, <1>6 DEF History

LEMMA ClaimingKeepsHistory ==
    ASSUME Claims, Claims', History, NEW j \in Jobs, NEW written \in BOOLEAN,
           (\E found \in {Reading(j)} \cup Misreadings(j) : Recover(j, found, written)) \/ Claim(j, written)
    PROVE  History'
<1>1. ASSUME NEW found \in {Reading(j)} \cup Misreadings(j), Recover(j, found, written)
      PROVE  History'
    <2>1. /\ pc = "boot" /\ pc' = "fire" /\ firing'.job = j /\ ensured' = ensured \cup {j}
          /\ UNCHANGED <<runs, rowless, crashes>>
        BY <1>1 DEF Recover, Begin
    <2>2. /\ troubled \subseteq troubled'
          /\ \A k \in Jobs \ {j} : row'[k] = row[k]
          /\ j \notin troubled' => /\ row[j].claimed = Never
                                   /\ row'[j].claimed = at /\ row'[j].last < at
                                   /\ j \in ensured => row'[j].last = row[j].last
        BY <1>1, RecoveringKeepsClaims
    <2> QED
        BY <2>1, <2>2, NewClaimsKeepHistory
<1>2. CASE Claim(j, written)
    <2>1. /\ pc = "dispatch" /\ pc' = "fire" /\ firing'.job = j /\ ensured' = ensured
          /\ UNCHANGED <<runs, rowless, crashes>>
        BY <1>2 DEF Claim
    <2>2. /\ troubled \subseteq troubled'
          /\ \A k \in Jobs \ {j} : row'[k] = row[k]
          /\ row'[j].last = row[j].last
          /\ j \notin ensured => row'[j] = row[j]
          /\ j \in ensured /\ j \notin troubled' =>
                row[j].claimed = Never /\ row'[j].claimed = at /\ row[j].last < at
        BY <1>2, ClaimingKeepsClaims
    <2> QED
        BY <2>1, <2>2, NewClaimsKeepHistory
<1> QED
    BY <1>1, <1>2

LEMMA StartingKeepsHistory ==
    ASSUME Claims, History, StartRun
    PROVE  History'
<1> DEFINE j == firing.job
           s == firing.slot
<1>1. /\ pc = "fire" /\ pc' = "running" /\ firing # NoRun /\ j \in Jobs /\ s \in Minutes
      /\ UNCHANGED <<row, ensured, crashes, firing, troubled>>
    BY DEF StartRun, Claims, TypeOK, memory, table, trouble
<1>2. /\ runs'[j][s] = runs[j][s] + 1
      /\ \A k \in Jobs, m \in Minutes : k # j \/ m # s => runs'[k][m] = runs[k][m]
    BY <1>1 DEF StartRun, Claims, TypeOK
<1>3. Kept' \subseteq Kept /\ Kept \subseteq Jobs /\ (j \in Kept' => j \in ensured /\ j \notin troubled)
    BY <1>1 DEF StartRun, Kept
<1>4. j \in ensured \ troubled => s <= Reached(j) /\ row[j].claimed # Never
    <2>1. j \in ensured \ troubled =>
            /\ row[j].claimed # Never
            /\ s = row[j].claimed \/ (row[j].claimed = at /\ s <= at)
        BY <1>1 DEF Claims, InHand
    <2>2. row[j].claimed \in Int /\ s \in Int
        BY <1>1, RowsAreMinutes, SchedulerAssumption DEF Claims, Minutes, SchedulerAssumption
    <2> QED
        BY <2>1, <2>2 DEF Reached
<1>5. j \in Kept' => runs[j][s] <= IF j \in CatchUp THEN crashes ELSE 0
    <2> SUFFICES ASSUME j \in Kept' PROVE runs[j][s] <= IF j \in CatchUp THEN crashes ELSE 0
        OBVIOUS
    <2>1. j \in ensured \ troubled /\ j \in Kept /\ crashes \in Nat
        BY <1>1, <1>3, RunsAreCounted DEF Claims
    <2>2. CASE firing.kind = "resumed"
        <3>1. j \in CatchUp /\ s = row[j].claimed /\ row[j].claimed # Never
            BY <1>1, <2>1, <2>2 DEF Claims, InHand
        <3> QED
            BY <1>1, <2>1, <3>1 DEF History, Owed
    <2>3. CASE firing.kind # "resumed"
        <3>1. row[j].last < s
            BY <1>1, <2>1, <2>3 DEF Claims, InHand
        <3>2. row[j].last \in Int /\ s \in Int
            BY <1>1, RowsAreMinutes, SchedulerAssumption DEF Claims, Minutes, SchedulerAssumption
        <3>3. ~ (runs[j][s] > 0)
            BY <1>1, <2>1, <2>3, <3>1, <3>2 DEF History, Fresh
        <3>4. runs[j][s] = 0
            BY <1>1, <3>3, RunsAreCounted DEF Claims
        <3> QED
            BY <2>1, <3>4
    <2> QED
        BY <2>2, <2>3
<1>6. runs[j][s] \in Nat
    BY <1>1, RunsAreCounted DEF Claims
<1> HIDE DEF j, s
<1>7. Recorded'
    <2> SUFFICES ASSUME NEW k \in Kept', NEW m \in Minutes, runs'[k][m] > 0
                 PROVE  k \in ensured' /\ m <= Reached(k)'
        BY DEF Recorded
    <2>1. CASE k = j /\ m = s
        BY <1>1, <1>3, <1>4, <2>1 DEF Reached
    <2>2. CASE k # j \/ m # s
        BY <1>1, <1>2, <1>3, <2>2 DEF History, Recorded, Reached
    <2> QED
        BY <2>1, <2>2
<1>8. OnlyCrashesRepeatARun'
    <2> SUFFICES ASSUME NEW k \in Kept', NEW m \in Minutes
                 PROVE  runs'[k][m] <= 1 + IF k \in CatchUp THEN crashes ELSE 0
        BY <1>1 DEF OnlyCrashesRepeatARun
    <2>1. CASE k = j /\ m = s
        <3>1. crashes \in Nat
            BY <1>1, RunsAreCounted DEF Claims
        <3> QED
            BY <1>2, <1>5, <1>6, <2>1, <3>1
    <2>2. CASE k # j \/ m # s
        BY <1>1, <1>2, <1>3, <2>2 DEF History, OnlyCrashesRepeatARun
    <2> QED
        BY <2>1, <2>2
<1>9. Owed'
    <2> SUFFICES ASSUME NEW k \in CatchUp \cap Kept', row[k].claimed # Never, k # j
                 PROVE  runs'[k][row[k].claimed] <= crashes
        BY <1>1 DEF Owed, j
    <2>1. k \in Jobs /\ k \in Kept
        BY <1>3
    <2>2. row[k].claimed \in Minutes
        BY <2>1, RowsAreMinutes DEF Claims
    <2>3. runs[k][row[k].claimed] <= crashes
        BY <1>1, <2>1 DEF History, Owed
    <2> QED
        BY <1>2, <2>1, <2>2, <2>3
<1> QED
    BY <1>1, <1>7, <1>8, <1>9 DEF History, Fresh

LEMMA ConfirmingKeepsHistory ==
    ASSUME Claims, History, NEW written \in BOOLEAN, Confirm(written)
    PROVE  History'
<1> DEFINE j == firing.job
<1>1. /\ pc = "confirm" /\ pc' \in {"dispatch", "boot"} /\ firing # NoRun /\ j \in Jobs /\ firing.key = at
      /\ UNCHANGED <<ensured, runs, rowless, crashes>>
    BY DEF Confirm, Claims, TypeOK, InHand
<1>2. /\ j \in ensured /\ j \notin troubled' => row'[j].last = at /\ row'[j].claimed = Never
      /\ j \notin ensured => row'[j] = row[j]
      /\ \A k \in Jobs \ {j} : row'[k] = row[k]
    BY <1>1, ConfirmingKeepsClaims DEF Confirm, Write, Claims, TypeOK
<1>3. j \in ensured \ troubled => row[j].claimed # Never /\ row[j].claimed <= at
    BY <1>1 DEF Claims, InHand
<1>4. j \notin ensured => row[j].claimed = Never
    BY <1>1 DEF Claims, Imported
<1>0. Kept' \subseteq Kept /\ Kept \subseteq Jobs /\ (j \in Kept' => j \notin troubled' /\ j \notin troubled)
    BY <1>1, ConfirmingKeepsClaims DEF Kept
<1> HIDE DEF j
<1>5. Recorded'
    <2> SUFFICES ASSUME NEW k \in Kept', NEW m \in Minutes, runs[k][m] > 0
                 PROVE  k \in ensured /\ m <= Reached(k)'
        BY <1>1 DEF Recorded
    <2>1. k \in ensured /\ m <= Reached(k) /\ k \in Jobs
        BY <1>0 DEF History, Recorded
    <2>2. CASE k = j
        <3>1. m \in Int /\ at \in Int /\ row[j].claimed \in Int
            BY <1>1, <2>2, RowsAreMinutes, SchedulerAssumption DEF Claims, Minutes, SchedulerAssumption
        <3>2. Reached(k) = row[j].claimed /\ Reached(k)' = at
            BY <1>0, <1>2, <1>3, <2>1, <2>2 DEF Reached
        <3> QED
            BY <1>0, <1>3, <2>1, <2>2, <3>1, <3>2
    <2>3. CASE k # j
        BY <1>2, <2>1, <2>3 DEF Reached
    <2> QED
        BY <2>2, <2>3
<1>6. Owed'
    <2> SUFFICES ASSUME NEW k \in CatchUp \cap Kept', row'[k].claimed # Never
                 PROVE  runs[k][row'[k].claimed] <= crashes
        BY <1>1 DEF Owed
    <2>1. k \in Jobs /\ k # j
        BY <1>0, <1>2, <1>4
    <2> QED
        BY <1>0, <1>1, <1>2, <2>1 DEF History, Owed, j
<1> QED
    BY <1>0, <1>1, <1>5, <1>6 DEF History, Fresh, OnlyCrashesRepeatARun

LEMMA CrashesKeepHistory ==
    ASSUME Claims, History, Crash
    PROVE  History'
<1>1. pc' = "down" /\ crashes' = crashes + 1 /\ UNCHANGED <<row, ensured, runs, rowless, troubled, Kept>>
    BY DEF Crash, table, trouble, Kept
<1>2. crashes \in Nat
    BY SchedulerAssumption DEF SchedulerAssumption, Claims, TypeOK
<1>3. Recorded'
    BY <1>1 DEF History, Recorded, Reached
<1>4. OnlyCrashesRepeatARun'
    <2> SUFFICES ASSUME NEW k \in Kept, NEW m \in Minutes
                 PROVE  runs[k][m] <= 1 + IF k \in CatchUp THEN crashes + 1 ELSE 0
        BY <1>1 DEF OnlyCrashesRepeatARun
    <2>1. runs[k][m] <= 1 + IF k \in CatchUp THEN crashes ELSE 0
        BY DEF History, OnlyCrashesRepeatARun
    <2>2. runs[k][m] \in Nat
        BY RunsAreCounted DEF Claims, Kept
    <2> QED
        BY <1>2, <2>1, <2>2
<1>5. Owed'
    <2> SUFFICES ASSUME NEW k \in CatchUp \cap Kept, row[k].claimed # Never
                 PROVE  runs[k][row[k].claimed] <= crashes + 1
        BY <1>1 DEF Owed
    <2>1. k \in Jobs /\ row[k].claimed \in Minutes
        BY RowsAreMinutes, SchedulerAssumption DEF SchedulerAssumption, Claims
    <2>2. runs[k][row[k].claimed] <= 1 + crashes
        BY <2>1 DEF History, OnlyCrashesRepeatARun
    <2> QED
        BY <1>2, <2>2
<1> QED
    BY <1>1, <1>3, <1>4, <1>5 DEF History, Fresh

LEMMA HistoryIsKept == Claims /\ Claims' /\ History /\ [Next]_vars => History'
<1> SUFFICES ASSUME Claims, Claims', History, [Next]_vars PROVE History'
    OBVIOUS
<1>1. CASE Tick \/ (\E j \in Jobs : Declare(j)) \/ Boot \/ Booted \/ Look \/ Dispatched \/ EndRun \/ UNCHANGED vars
    <2>1. UNCHANGED <<row, ensured, runs, rowless, troubled, crashes, firing>>
        BY <1>1 DEF Tick, Declare, Boot, Booted, Look, Dispatched, EndRun, vars, memory, table, history, trouble
    <2>2. pc' = "fire" => pc = "fire"
        BY <1>1 DEF Tick, Declare, Boot, Booted, Look, Dispatched, EndRun, vars
    <2>3. pc \in {"running", "confirm"} => pc' \in {"running", "confirm"}
        BY <1>1 DEF Tick, Declare, Boot, Booted, Look, Dispatched, EndRun, vars
    <2> QED
        BY <2>1, <2>2, <2>3, QuietStepsKeepHistory
<1>2. CASE \E j \in Jobs : TakeUp(j)
    <2> SUFFICES ASSUME NEW j \in Jobs, TakeUp(j) PROVE History'
        BY <1>2
    <2> DEFINE Found == {Reading(j)} \cup Misreadings(j)
    <2>1. CASE Unregistered(j)
        <3>1. UNCHANGED <<pc, row, ensured, runs, rowless, crashes, firing>> /\ troubled \subseteq troubled'
            BY <2>1 DEF Unregistered, Answers, table
        <3> QED
            BY <3>1, QuietStepsKeepHistory
    <2>2. CASE \E found \in Found : Resume(j, found)
        BY <2>2, ResumingKeepsHistory
    <2>3. CASE \E found \in Found, written \in BOOLEAN :
                  Abandon(j, found, written) \/ NothingMissed(j, found)
        BY <2>3, SettlingKeepsHistory
    <2>4. CASE \E found \in Found, written \in BOOLEAN : Recover(j, found, written)
        BY <2>4, ClaimingKeepsHistory
    <2> QED
        BY <2>1, <2>2, <2>3, <2>4 DEF TakeUp
<1>3. CASE \E j \in Jobs, written \in BOOLEAN : Claim(j, written)
    BY <1>3, ClaimingKeepsHistory
<1>4. CASE StartRun
    BY <1>4, StartingKeepsHistory
<1>5. CASE \E written \in BOOLEAN : Confirm(written)
    BY <1>5, ConfirmingKeepsHistory
<1>6. CASE Crash
    BY <1>6, CrashesKeepHistory
<1> QED
    BY <1>1, <1>2, <1>3, <1>4, <1>5, <1>6 DEF Next, Work

(***************************************************************************)
(* A minute of a job that has a row is run once, and once more for each    *)
(* crash if the job has catch_up: whenever the process dies, whatever runs *)
(* take, for every set of jobs and any number of crashes, unless a read or *)
(* a write for the job has failed.                                         *)
(***************************************************************************)
THEOREM RunsAreNotRepeated == Spec => []OnlyCrashesRepeatARun
<1>1. Init => SchedulerIInv
    BY ScheduleAtTheStart
<1>2. SchedulerIInv /\ [Next]_vars => SchedulerIInv'
    BY ClaimsAreKept, HistoryIsKept DEF SchedulerIInv
<1>3. SchedulerIInv => OnlyCrashesRepeatARun
    BY DEF SchedulerIInv, History
<1> QED
    BY <1>1, <1>2, <1>3, PTL DEF Spec

(***************************************************************************)
(* Every reachable state of the scheduler and its table is well typed: a   *)
(* run in hand is for a minute on the clock, and only jobs that are        *)
(* declared have rows.                                                     *)
(***************************************************************************)
THEOREM ScheduleTypeCorrect == Spec => []TypeOK
<1>1. Init => Claims
    BY ScheduleAtTheStart DEF SchedulerIInv
<1>2. Claims => TypeOK
    BY DEF Claims
<1> QED
    BY <1>1, <1>2, ClaimsAreKept, PTL DEF Spec
=============================================================================
