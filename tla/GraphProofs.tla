---------------------------- MODULE GraphProofs ----------------------------
(***************************************************************************)
(* The graph engine, for every set of graphs, every limit and whatever     *)
(* nodes return and routers say: its bounds, its joins, its writes.  And   *)
(* of one of the graphs Joy runs, the morning briefing: it speaks.         *)
(***************************************************************************)
EXTENDS Workflows, SequenceTheorems, FiniteSetTheorems, TLAPS

\* While a wave is planned each of its nodes has a visit left; once it runs
\* it fits the steps that are left, and merging uses them up one by one.
VisitsLeft ==
    /\ \A n \in Names(g) : runs[n] <= g.visits[n]
    /\ pc = "planning" => \A i \in 1..Len(wave) : runs[wave[i]] < g.visits[wave[i]]

StepsLeft ==
    /\ pc = "running" => at = 1 /\ wave # <<>> /\ Len(path) + Len(wave) <= MaxSteps
    /\ pc = "merging" => at <= Len(wave) /\ Len(path) + Len(wave) - at + 1 <= MaxSteps
    /\ Len(path) <= MaxSteps

GIInv == TypeOK /\ VisitsLeft /\ StepsLeft

\* The graph is well formed: its parts have their types.
LEMMA GraphShape ==
    ASSUME g \in Graphs
    PROVE  /\ g.nodes \in Seq(STRING)
           /\ g.visits \in [Names(g) -> Nat]
           /\ g.onError \in [Names(g) -> STRING \cup {NoNode}]
           /\ \A n \in DOMAIN g.routers : \A l \in DOMAIN g.routers[n] :
                  g.routers[n][l] \in STRING \cup {END}
           /\ Names(g) \subseteq STRING
<1>1. WellFormed(g)
    BY GraphAssumption
<1>2. g.nodes \in Seq(STRING)
    BY <1>1, SeqMonotonic DEF WellFormed
<1>3. Names(g) \subseteq STRING
    BY <1>2 DEF Names
<1>4. \A n \in DOMAIN g.routers : \A l \in DOMAIN g.routers[n] :
          g.routers[n][l] \in STRING \cup {END}
    BY <1>1, <1>3 DEF WellFormed
<1> QED
    BY <1>1, <1>2, <1>3, <1>4 DEF WellFormed

LEMMA BoundsAtTheStart == Init => GIInv
<1> SUFFICES ASSUME Init PROVE GIInv
    OBVIOUS
<1>1. g \in Graphs
    BY DEF Init
<1>2. TypeOK
    BY <1>1 DEF Init, TypeOK
<1>3. VisitsLeft
    BY <1>1, GraphShape DEF Init, VisitsLeft
<1>4. StepsLeft
    BY GraphAssumption DEF Init, StepsLeft
<1> QED
    BY <1>2, <1>3, <1>4 DEF GIInv

\* Planning: the candidate enlisted is a node with a visit left.
LEMMA PlanningKeepsBounds ==
    ASSUME GIInv, PassOver \/ CutOff \/ Enlist \/ Drained \/ OutOfSteps
    PROVE  GIInv'
<1> USE DEF GIInv
<1>0. g' = g /\ Names(g)' = Names(g)
    BY DEF PassOver, CutOff, Enlist, Drained, OutOfSteps, Names
<1>1. CASE PassOver
    BY <1>0, <1>1 DEF PassOver, Planning, TypeOK, VisitsLeft, StepsLeft
<1>2. CASE CutOff
    BY <1>0, <1>2 DEF CutOff, Planning, TypeOK, VisitsLeft, StepsLeft
<1>3. CASE Enlist
    <2>1. Candidate \in Names(g) /\ runs[Candidate] < g.visits[Candidate]
        BY <1>3 DEF Enlist, Eligible
    <2>2. /\ Len(wave') = Len(wave) + 1
          /\ \A i \in 1..Len(wave') :
                 wave'[i] = IF i = Len(wave') THEN Candidate ELSE wave[i]
        BY <1>3 DEF Enlist, TypeOK
    <2>3. TypeOK'
        BY <1>0, <1>3, <2>1 DEF Enlist, Planning, TypeOK
    <2>4. VisitsLeft'
        BY <1>0, <1>3, <2>1, <2>2 DEF Enlist, Planning, TypeOK, VisitsLeft
    <2>5. StepsLeft'
        BY <1>3 DEF Enlist, Planning, StepsLeft
    <2> QED
        BY <2>3, <2>4, <2>5
<1>4. CASE Drained
    BY <1>0, <1>4 DEF Drained, TypeOK, VisitsLeft, StepsLeft
<1>5. CASE OutOfSteps
    BY <1>0, <1>5 DEF OutOfSteps, TypeOK, VisitsLeft, StepsLeft
<1> QED
    BY <1>1, <1>2, <1>3, <1>4, <1>5

\* Starting a wave uses one visit of each of its nodes, and no other.
LEMMA StartKeepsBounds == GIInv /\ StartWave => GIInv'
<1> SUFFICES ASSUME GIInv, StartWave PROVE GIInv'
    OBVIOUS
<1> USE DEF GIInv
<1>1. g' = g /\ Names(g)' = Names(g) /\ pc = "planning" /\ pc' = "running"
    BY DEF StartWave, Planned, Names
<1>2. runs' \in [Names(g) -> Nat]
    BY DEF StartWave, TypeOK
<1>3. TypeOK'
    BY <1>1, <1>2 DEF StartWave, TypeOK
<1>4. ASSUME NEW n \in Names(g)
      PROVE  runs'[n] <= g.visits[n]
    <2>1. g.visits[n] \in Nat /\ runs[n] \in Nat
        BY GraphShape DEF TypeOK
    <2>2. CASE InWave(n)
        <3>1. runs[n] < g.visits[n]
            BY <1>1, <2>2 DEF InWave, VisitsLeft
        <3> QED
            BY <2>1, <2>2, <3>1 DEF StartWave
    <2>3. CASE ~InWave(n)
        BY <2>1, <2>3 DEF StartWave, VisitsLeft
    <2> QED
        BY <2>2, <2>3
<1>5. VisitsLeft'
    BY <1>1, <1>4 DEF VisitsLeft
<1>6. StepsLeft'
    BY <1>1 DEF StartWave, Planned, StepsLeft
<1> QED
    BY <1>3, <1>5, <1>6

LEMMA ReturnsKeepBounds ==
    ASSUME GIInv, NEW n \in Names(g), NodeReturns(n)
    PROVE  GIInv'
<1> USE DEF GIInv
<1>1. pc = "running" /\ pc' \in {"running", "merging"}
    BY DEF NodeReturns
<1>2. TypeOK'
    BY <1>1 DEF NodeReturns, TypeOK, Names
<1>3. VisitsLeft'
    BY <1>1 DEF NodeReturns, VisitsLeft, Names
<1>4. Len(wave) \in Nat \ {0} /\ Len(path) \in Nat
    BY <1>1 DEF StepsLeft, TypeOK
<1>5. StepsLeft'
    BY <1>1, <1>4, GraphAssumption DEF NodeReturns, StepsLeft
<1> QED
    BY <1>2, <1>3, <1>5

\* A merge appends one name of the wave to the path.
LEMMA MergesKeepBounds ==
    ASSUME GIInv, pc = "merging", UNCHANGED <<g, runs>>, NextMerge,
           fired' \subseteq g.edges, jumps' \in Seq(STRING)
    PROVE  GIInv'
<1> USE DEF GIInv
<1>1. Merged \in Names(g) /\ at \in 1..Len(wave)
    BY DEF Merged, TypeOK, StepsLeft
<1>2. path' \in Seq(Names(g)) /\ Len(path') = Len(path) + 1
    BY <1>1 DEF NextMerge, TypeOK
<1>3. CASE at < Len(wave)
    <2>1. at' = at + 1 /\ UNCHANGED <<pc, wave>>
        BY <1>3 DEF NextMerge
    <2>2. TypeOK'
        BY <1>2, <2>1 DEF TypeOK, Names
    <2>3. VisitsLeft'
        BY <2>1 DEF VisitsLeft, Names
    <2>4. Len(path) \in Nat /\ Len(wave) \in Nat
        BY DEF TypeOK
    <2>5. StepsLeft'
        BY <1>1, <1>2, <1>3, <2>1, <2>4, GraphAssumption DEF StepsLeft
    <2> QED
        BY <2>2, <2>3, <2>5
<1>4. CASE ~(at < Len(wave))
    <2>1. at' = 1 /\ pc' = "planning" /\ wave' = <<>>
        BY <1>4 DEF NextMerge
    <2>2. TypeOK'
        BY <1>2, <2>1 DEF TypeOK, Names
    <2>3. VisitsLeft'
        BY <2>1 DEF VisitsLeft, Names
    <2>4. Len(path) \in Nat /\ Len(wave) \in Nat
        BY DEF TypeOK
    <2>5. StepsLeft'
        BY <1>1, <1>2, <2>1, <2>4, GraphAssumption DEF StepsLeft
    <2> QED
        BY <2>2, <2>3, <2>5
<1> QED
    BY <1>3, <1>4

LEMMA StepKeepsBounds == GIInv /\ [Next]_vars => GIInv'
<1> SUFFICES ASSUME GIInv, [Next]_vars PROVE GIInv'
    OBVIOUS
<1>0. g \in Graphs /\ jumps \in Seq(STRING) /\ fired \subseteq g.edges
    BY DEF GIInv, TypeOK
<1>1. CASE PassOver \/ CutOff \/ Enlist \/ Drained \/ OutOfSteps
    BY <1>1, PlanningKeepsBounds
<1>2. CASE StartWave
    BY <1>2, StartKeepsBounds
<1>3. ASSUME NEW n \in Names(g), NodeReturns(n) PROVE GIInv'
    BY <1>3, ReturnsKeepBounds
<1>4. CASE MergeFailed
    <2>1. Merged \in Names(g)
        BY <1>4 DEF MergeFailed, Merged, GIInv, TypeOK, StepsLeft
    <2>2. CASE g.onError[Merged] = NoNode
        BY <1>0, <1>4, <2>1, <2>2, MergesKeepBounds DEF MergeFailed
    <2>3. CASE g.onError[Merged] # NoNode
        <3>1. g.onError[Merged] \in STRING
            BY <1>0, <2>1, <2>3, GraphShape
        <3>2. jumps' \in Seq(STRING)
            BY <1>0, <1>4, <2>3, <3>1 DEF MergeFailed
        <3> QED
            BY <1>0, <1>4, <3>2, MergesKeepBounds DEF MergeFailed
    <2> QED
        BY <2>2, <2>3
<1>5. CASE Collision
    <2>1. Merged \in Names(g) /\ Len(path) + 1 <= MaxSteps
        BY <1>5, GraphAssumption DEF Collision, Merged, GIInv, TypeOK, StepsLeft
    <2>2. path' \in Seq(Names(g)) /\ Len(path') = Len(path) + 1
        BY <1>5, <2>1 DEF Collision, GIInv, TypeOK
    <2> QED
        BY <1>5, <2>1, <2>2 DEF Collision, GIInv, TypeOK, VisitsLeft, StepsLeft, Names
<1>6. CASE MergeWritten
    <2>1. fired' \subseteq g.edges /\ jumps' \in Seq(STRING)
        <3>1. CASE Merged \in DOMAIN g.routers
            <4> DEFINE label == Label(g, Merged, board')
                       target == g.routers[Merged][label]
            <4>1. Routed(board')
                BY <1>6, <3>1 DEF MergeWritten
            <4>2. CASE label \notin DOMAIN g.routers[Merged] \/ target = END
                BY <1>0, <4>1, <4>2 DEF Routed
            <4>3. CASE label \in DOMAIN g.routers[Merged] /\ target # END
                <5>1. target \in STRING
                    BY <1>0, <3>1, <4>3, GraphShape
                <5>2. fired' = fired /\ jumps' = Append(jumps, target)
                    BY <4>1, <4>3 DEF Routed
                <5> HIDE DEF target
                <5> QED
                    BY <1>0, <5>1, <5>2
            <4> QED
                BY <4>2, <4>3
        <3>2. CASE Merged \notin DOMAIN g.routers
            BY <1>0, <1>6, <3>2 DEF MergeWritten, EdgesFire
        <3> QED
            BY <3>1, <3>2
    <2> QED
        BY <1>6, <2>1, MergesKeepBounds DEF MergeWritten
<1>7. CASE UNCHANGED vars
    BY <1>7 DEF vars, GIInv, TypeOK, VisitsLeft, StepsLeft, Names
<1> QED
    BY <1>1, <1>2, <1>3, <1>4, <1>5, <1>6, <1>7 DEF Next, EngineStep

(***************************************************************************)
(* No node runs more than max_visits times and no run is longer than       *)
(* max_steps, in any graph that can be built, whatever its nodes return    *)
(* and its routers say (run_graph, next_wave).                             *)
(***************************************************************************)
THEOREM EveryGraphIsBounded == Spec => []LoopsAreBounded
<1>1. GIInv => LoopsAreBounded
    BY DEF GIInv, VisitsLeft, StepsLeft, LoopsAreBounded
<1> QED
    BY <1>1, BoundsAtTheStart, StepKeepsBounds, PTL DEF Spec

(***************************************************************************)
(* The engine's tables keep their types: what is planned and merged are    *)
(* nodes of the graph (get() never misses in run_wave).                    *)
(***************************************************************************)
THEOREM GraphTypeCorrect == Spec => []TypeOK
<1>1. GIInv => TypeOK
    BY DEF GIInv
<1> QED
    BY <1>1, BoundsAtTheStart, StepKeepsBounds, PTL DEF Spec

-----------------------------------------------------------------------------
(* No write is lost                                                        *)

\* While a wave is merged, what its nodes so far wrote is on the board and
\* among the keys that a later node may not write; once it is merged, the
\* board has it all, until the next wave is started.
OnBoard(n) ==
    results[n] # Failed =>
        \A k \in PublicKeys(results[n]) : k \in DOMAIN board /\ board[k] = results[n][k]

Kept(n) == OnBoard(n) /\ (results[n] # Failed => PublicKeys(results[n]) \subseteq wrote)

WritesKept ==
    /\ pc = "running" => at = 1 /\ DOMAIN results \subseteq {wave[i] : i \in 1..Len(wave)}
    /\ pc = "merging" =>
           /\ DOMAIN results = {wave[i] : i \in 1..Len(wave)}
           /\ \A i \in 1..(at - 1) : Kept(wave[i])
    /\ pc \in {"planning", "ended"} => \A n \in DOMAIN results : OnBoard(n)

LEMMA NothingToKeep == Init => WritesKept
BY DEF Init, WritesKept

LEMMA PlanningKeepsWrites ==
    ASSUME WritesKept, PassOver \/ CutOff \/ Enlist \/ Drained \/ OutOfSteps
    PROVE  WritesKept'
<1>1. /\ pc = "planning" /\ pc' \in {"planning", "ended"}
      /\ UNCHANGED <<board, results>>
    BY DEF PassOver, CutOff, Enlist, Drained, OutOfSteps, Planning, Planned
<1> QED
    BY <1>1 DEF WritesKept, OnBoard, PublicKeys

LEMMA ReturnsKeepWrites ==
    ASSUME WritesKept, NEW n \in Names(g), NodeReturns(n)
    PROVE  WritesKept'
<1>1. /\ pc = "running" /\ at' = 1 /\ wave' = wave /\ InWave(n)
      /\ DOMAIN results' = DOMAIN results \cup {n}
    BY DEF NodeReturns, WritesKept
<1>2. DOMAIN results' \subseteq {wave[i] : i \in 1..Len(wave)}
    BY <1>1 DEF InWave, WritesKept
<1>3. pc' = IF \A i \in 1..Len(wave) : wave[i] \in DOMAIN results' THEN "merging" ELSE "running"
    BY <1>1 DEF NodeReturns
<1>4. CASE pc' = "merging"
    <2>1. DOMAIN results' = {wave[i] : i \in 1..Len(wave)}
        BY <1>2, <1>3, <1>4
    <2> QED
        BY <1>1, <1>4, <2>1 DEF WritesKept
<1>5. CASE pc' = "running"
    BY <1>1, <1>2, <1>5 DEF WritesKept
<1> QED
    BY <1>3, <1>4, <1>5

\* One merge: what was on the board stays there, the node's own is added.
LEMMA MergesKeepWrites ==
    ASSUME GIInv, WritesKept, pc = "merging", NextMerge, UNCHANGED results,
           \A n \in {wave[i] : i \in 1..at} : Kept(n)'
    PROVE  WritesKept'
<1>1. /\ at \in 1..Len(wave) /\ Len(wave) \in Nat
      /\ DOMAIN results = {wave[i] : i \in 1..Len(wave)}
    BY DEF GIInv, TypeOK, StepsLeft, WritesKept
<1>2. CASE at < Len(wave)
    <2>1. at' = at + 1 /\ pc' = "merging" /\ wave' = wave
        BY <1>2 DEF NextMerge
    <2>2. 1..(at' - 1) = 1..at
        BY <1>1, <2>1
    <2>3. ASSUME NEW i \in 1..at
          PROVE  Kept(wave[i])'
        <3> DEFINE n == wave[i]
        <3>1. n \in {wave[k] : k \in 1..at} /\ n' = n
            BY <2>1
        <3> QED
            BY <2>1, <3>1 DEF Kept, OnBoard, PublicKeys
    <2> QED
        BY <1>1, <2>1, <2>2, <2>3 DEF WritesKept
<1>3. CASE ~(at < Len(wave))
    <2>1. at = Len(wave) /\ pc' = "planning"
        BY <1>1, <1>3 DEF NextMerge
    <2>2. \A n \in DOMAIN results' : OnBoard(n)'
        BY <1>1, <2>1 DEF Kept
    <2> QED
        BY <2>1, <2>2 DEF WritesKept
<1> QED
    BY <1>2, <1>3

LEMMA StepKeepsWrites == GIInv /\ WritesKept /\ [Next]_vars => WritesKept'
<1> SUFFICES ASSUME GIInv, WritesKept, [Next]_vars PROVE WritesKept'
    OBVIOUS
<1>0. ASSUME pc = "merging"
      PROVE  /\ at \in 1..Len(wave)
             /\ {wave[i] : i \in 1..at} = {wave[i] : i \in 1..(at - 1)} \cup {wave[at]}
             /\ \A n \in {wave[i] : i \in 1..(at - 1)} : Kept(n)
    <2>1. at \in 1..Len(wave) /\ at \in Nat
        BY <1>0 DEF GIInv, TypeOK, StepsLeft
    <2>2. 1..at = 1..(at - 1) \cup {at}
        BY <2>1
    <2> QED
        BY <1>0, <2>1, <2>2 DEF WritesKept
<1>1. CASE PassOver \/ CutOff \/ Enlist \/ Drained \/ OutOfSteps
    BY <1>1, PlanningKeepsWrites
<1>2. CASE StartWave
    BY <1>2 DEF StartWave, WritesKept
<1>3. ASSUME NEW n \in Names(g), NodeReturns(n) PROVE WritesKept'
    BY <1>3, ReturnsKeepWrites
<1>4. CASE MergeFailed
    <2>1. /\ pc = "merging" /\ NextMerge /\ UNCHANGED <<results, board, wrote>>
          /\ results[wave[at]] = Failed
        BY <1>4 DEF MergeFailed, Out, Merged
    <2>2. \A n \in {wave[i] : i \in 1..at} : Kept(n)'
        BY <1>0, <2>1 DEF Kept, OnBoard, PublicKeys
    <2> QED
        BY <2>1, <2>2, MergesKeepWrites
<1>5. CASE Collision
    BY <1>5 DEF Collision, WritesKept
<1>6. CASE MergeWritten
    <2> DEFINE keys == PublicKeys(results[wave[at]])
    <2>1. /\ pc = "merging" /\ NextMerge /\ UNCHANGED results
          /\ keys \cap wrote = {}
          /\ wrote' = wrote \cup keys
          /\ board' = [k \in DOMAIN board \cup keys |->
                          IF k \in keys THEN results[wave[at]][k] ELSE board[k]]
        BY <1>6 DEF MergeWritten, Collides, Out, Merged
    <2>2. ASSUME NEW n \in {wave[i] : i \in 1..at}
          PROVE  Kept(n)'
        <3>1. CASE n = wave[at]
            BY <2>1, <3>1 DEF Kept, OnBoard, PublicKeys
        <3>2. CASE n \in {wave[i] : i \in 1..(at - 1)}
            <4>1. Kept(n)
                BY <1>0, <2>1, <3>2
            <4>2. ASSUME results[n] # Failed, NEW k \in PublicKeys(results[n])
                  PROVE  k \in DOMAIN board' /\ board'[k] = results[n][k]
                <5>1. k \in DOMAIN board /\ board[k] = results[n][k] /\ k \in wrote
                    BY <4>1, <4>2 DEF Kept, OnBoard
                <5>2. k \notin keys
                    BY <2>1, <5>1
                <5> HIDE DEF keys
                <5> QED
                    BY <2>1, <5>1, <5>2
            <4>3. OnBoard(n)'
                BY <2>1, <4>2 DEF OnBoard, PublicKeys
            <4> HIDE DEF keys
            <4> QED
                BY <2>1, <4>1, <4>3 DEF Kept, PublicKeys
        <3> QED
            BY <1>0, <2>1, <3>1, <3>2
    <2> QED
        BY <2>1, <2>2, MergesKeepWrites
<1>7. CASE UNCHANGED vars
    BY <1>7 DEF vars, WritesKept, Kept, OnBoard, PublicKeys
<1> QED
    BY <1>1, <1>2, <1>3, <1>4, <1>5, <1>6, <1>7 DEF Next, EngineStep

(***************************************************************************)
(* However many nodes run at once and whatever they return, no write that  *)
(* the engine has merged is overwritten within its wave: the board holds   *)
(* it, or the run was abandoned (run_graph, module doc of lib.rs).         *)
(***************************************************************************)
THEOREM ParallelWritesAreKept == Spec => []NoWriteLost
<1>1. WritesKept => NoWriteLost
    BY DEF WritesKept, NoWriteLost, OnBoard
<1>2. GIInv /\ WritesKept /\ [Next]_vars => (GIInv /\ WritesKept)'
    BY StepKeepsBounds, StepKeepsWrites
<1> QED
    BY <1>1, <1>2, BoundsAtTheStart, NothingToKeep, PTL DEF Spec
-----------------------------------------------------------------------------
(* Joins                                                                   *)

\* An edge into a node has fired exactly when its source has passed control on.
FiredTruly ==
    \A e \in g.edges : e[2] \in Names(g) =>
        (e \in fired <=> e[1] = START \/ e[1] \in finished \ DOMAIN g.routers)

JumpsAreTargets == \A i \in 1..Len(jumps) : jumps[i] \in JumpTargets

InputsFired(n) == Deps(n) # {} /\ \A s \in Deps(n) : <<s, n>> \in fired

RunsOnce ==
    \A n \in Names(g) \ JumpTargets :
        /\ runs[n] \in {0, 1}
        /\ runs[n] = 1 => InputsFired(n)
        /\ pc = "planning" /\ InWave(n) => Ready(n)

Due(n) == Ready(n) /\ g.visits[n] > 0

\* No node that is due is passed over, and none is left when a run drains.
NoneLeftOut ==
    /\ pc = "planning" => \A i \in 1..Len(g.nodes) :
           i + Len(jumps) < at /\ Due(g.nodes[i]) => InWave(g.nodes[i])
    /\ pc = "ended" /\ Engine \notin errors => \A n \in Names(g) : ~Due(n)

JoinInv == FiredTruly /\ JumpsAreTargets /\ RunsOnce /\ NoneLeftOut

LEMMA GraphJoints ==
    ASSUME g \in Graphs
    PROVE  /\ g.nodes \in Seq(STRING)
           /\ START \notin Names(g) /\ END \notin Names(g)
           /\ \A e \in g.edges : e = <<e[1], e[2]>>
           /\ \A n \in Names(g) : \A s : s \in Deps(n) <=> <<s, n>> \in g.edges
<1>1. WellFormed(g)
    BY GraphAssumption
<1>2. \A i \in 1..Len(g.nodes) : g.nodes[i] \in STRING \ {START, END}
    BY <1>1 DEF WellFormed
<1>3. START \notin Names(g) /\ END \notin Names(g)
    BY <1>2 DEF Names
<1>4. \A e \in g.edges : e = <<e[1], e[2]>>
    BY <1>1 DEF WellFormed
<1>5. \A n \in Names(g) : \A s : s \in Deps(n) <=> <<s, n>> \in g.edges
    BY <1>4 DEF Deps
<1> QED
    BY <1>3, <1>4, <1>5, GraphShape

\* The graph does not change under a run, nor does what is defined by it.
LEMMA SameGraph ==
    ASSUME UNCHANGED g
    PROVE  /\ Names(g)' = Names(g) /\ JumpTargets' = JumpTargets
           /\ \A n : Deps(n)' = Deps(n)
BY DEF Names, JumpTargets, Deps

LEMMA SamePlan ==
    ASSUME UNCHANGED <<g, fired, runs>>
    PROVE  \A n : /\ (Ready(n)' <=> Ready(n)) /\ (Due(n)' <=> Due(n))
                  /\ (InputsFired(n)' <=> InputsFired(n))
BY SameGraph DEF Ready, Due, InputsFired

LEMMA OneMoreJump ==
    ASSUME jumps \in Seq(STRING), JumpsAreTargets, NEW x \in STRING, x \in JumpTargets,
           jumps' = Append(jumps, x)
    PROVE  jumps' \in Seq(STRING) /\ \A i \in 1..Len(jumps') : jumps'[i] \in JumpTargets
<1>1. jumps' \in Seq(STRING) /\ Len(jumps) \in Nat /\ Len(jumps') = Len(jumps) + 1
    BY AppendProperties, LenProperties
<1>2. jumps'[Len(jumps) + 1] = x /\ \A i \in 1..Len(jumps) : jumps'[i] = jumps[i]
    BY AppendProperties
<1>3. ASSUME NEW i \in 1..Len(jumps') PROVE jumps'[i] \in JumpTargets
    <2>1. i \in 1..Len(jumps) \/ i = Len(jumps) + 1
        BY <1>1
    <2> QED
        BY <1>2, <2>1 DEF JumpsAreTargets
<1> QED
    BY <1>1, <1>3

LEMMA JoinsAtTheStart == Init => JoinInv
<1> SUFFICES ASSUME Init PROVE JoinInv
    OBVIOUS
<1>1. FiredTruly
    BY DEF Init, FiredTruly
<1>2. JumpsAreTargets
    BY DEF Init, JumpsAreTargets
<1>3. RunsOnce
    BY DEF Init, RunsOnce, InWave
<1>4. g.nodes \in Seq(STRING) /\ at = 1 /\ Len(jumps) = 0 /\ pc = "planning"
    BY GraphShape DEF Init
<1>5. NoneLeftOut
    BY <1>4 DEF NoneLeftOut
<1> QED
    BY <1>1, <1>2, <1>3, <1>5 DEF JoinInv

\* What next_wave looks at: a jump, or a node of the graph.
LEMMA WhatIsNext ==
    ASSUME GIInv, Planning
    PROVE  /\ at \in 1..(Len(jumps) + Len(g.nodes))
           /\ at <= Len(jumps) => Candidate = jumps[at]
           /\ at > Len(jumps) => Candidate = g.nodes[at - Len(jumps)]
BY GraphShape DEF GIInv, TypeOK, Planning, Candidates, Candidate

LEMMA PlanningKeepsJoins ==
    ASSUME GIInv, JoinInv, PassOver \/ CutOff \/ Enlist
    PROVE  JoinInv'
<1>1. /\ Planning /\ pc = "planning" /\ at' = at + 1 /\ g \in Graphs
      /\ UNCHANGED <<g, pc, fired, runs, jumps, finished>>
      /\ at \in Nat /\ Len(jumps) \in Nat /\ Len(g.nodes) \in Nat /\ Len(wave) \in Nat
    BY GraphShape DEF PassOver, CutOff, Enlist, Planning, GIInv, TypeOK
<1>2. /\ Names(g)' = Names(g) /\ JumpTargets' = JumpTargets
      /\ \A n : Deps(n)' = Deps(n) /\ (Ready(n)' <=> Ready(n)) /\ (Due(n)' <=> Due(n))
             /\ (InputsFired(n)' <=> InputsFired(n))
    BY <1>1, SameGraph, SamePlan
<1>3. \A n : InWave(n)' <=> InWave(n) \/ (Enlist /\ n = Candidate)
    <2>1. CASE Enlist
        <3>1. /\ Len(wave') = Len(wave) + 1
              /\ \A i \in 1..Len(wave') :
                     wave'[i] = IF i = Len(wave') THEN Candidate ELSE wave[i]
            BY <2>1 DEF Enlist, GIInv, TypeOK
        <3> QED
            BY <1>1, <2>1, <3>1 DEF InWave
    <2>2. CASE ~Enlist
        BY <2>2 DEF PassOver, CutOff, InWave
    <2> QED
        BY <2>1, <2>2
<1>4. FiredTruly' /\ JumpsAreTargets'
    BY <1>1, <1>2 DEF JoinInv, FiredTruly, JumpsAreTargets
<1>5. ASSUME NEW n \in Names(g) \ JumpTargets, InWave(n)'
      PROVE  Ready(n)
    <2>1. CASE InWave(n)
        BY <1>1, <2>1 DEF JoinInv, RunsOnce
    <2>2. CASE Enlist /\ n = Candidate
        <3>1. at > Len(jumps)
            BY <1>1, <2>2, WhatIsNext DEF JoinInv, JumpsAreTargets
        <3> QED
            BY <2>2, <3>1 DEF Enlist, Eligible
    <2> QED
        BY <1>3, <1>5, <2>1, <2>2
<1>6. RunsOnce'
    BY <1>1, <1>2, <1>5 DEF JoinInv, RunsOnce
<1>7. ASSUME NEW i \in 1..Len(g.nodes), i + Len(jumps) < at', Due(g.nodes[i])
      PROVE  InWave(g.nodes[i])'
    <2>1. CASE i + Len(jumps) < at
        BY <1>1, <1>3, <1>7, <2>1 DEF JoinInv, NoneLeftOut
    <2>2. CASE i + Len(jumps) = at
        <3>1. Candidate = g.nodes[i] /\ Candidate \in Names(g)
            BY <1>1, <2>2, WhatIsNext DEF Names
        <3>2. runs[Candidate] = 0 /\ g.visits[Candidate] > 0 /\ Ready(Candidate)
            BY <1>7, <3>1 DEF Due, Ready
        <3>3. CASE PassOver
            BY <1>3, <3>1, <3>2, <3>3 DEF PassOver, Eligible
        <3>4. CASE CutOff
            <4>1. g.visits[Candidate] \in Nat
                BY <1>1, <3>1, GraphShape
            <4> QED
                BY <3>2, <3>4, <4>1 DEF CutOff
        <3>5. CASE Enlist
            BY <1>1, <1>3, <3>1, <3>5
        <3> QED
            BY <3>3, <3>4, <3>5
    <2> QED
        BY <1>1, <1>7, <2>1, <2>2
<1>8. NoneLeftOut'
    BY <1>1, <1>2, <1>7 DEF NoneLeftOut
<1> QED
    BY <1>4, <1>6, <1>8 DEF JoinInv

LEMMA EndingKeepsJoins ==
    ASSUME GIInv, JoinInv, Drained \/ OutOfSteps
    PROVE  JoinInv'
<1>1. /\ pc = "planning" /\ pc' = "ended" /\ at > Len(Candidates) /\ g \in Graphs
      /\ UNCHANGED <<g, fired, runs, jumps, finished, wave>>
    BY DEF Drained, OutOfSteps, Planned, GIInv, TypeOK
<1>2. /\ Names(g)' = Names(g) /\ JumpTargets' = JumpTargets
      /\ \A n : (Due(n)' <=> Due(n)) /\ (InputsFired(n)' <=> InputsFired(n))
    BY <1>1, SameGraph, SamePlan
<1>3. FiredTruly' /\ JumpsAreTargets' /\ RunsOnce'
    BY <1>1, <1>2 DEF JoinInv, FiredTruly, JumpsAreTargets, RunsOnce
<1>4. CASE Drained
    <2>1. \A n : ~InWave(n)
        BY <1>4 DEF Drained, InWave
    <2>2. \A i \in 1..Len(g.nodes) : i + Len(jumps) < at
        BY <1>1, GraphShape DEF Candidates, GIInv, TypeOK
    <2>3. \A n \in Names(g) : ~Due(n)
        BY <1>1, <2>1, <2>2 DEF JoinInv, NoneLeftOut, Names
    <2> QED
        BY <1>1, <1>2, <1>3, <2>3 DEF JoinInv, NoneLeftOut
<1>5. CASE OutOfSteps
    BY <1>1, <1>3, <1>5 DEF OutOfSteps, JoinInv, NoneLeftOut
<1> QED
    BY <1>4, <1>5

\* Whoever is started on its inputs had none of its runs before.
LEMMA StartKeepsJoins == GIInv /\ JoinInv /\ StartWave => JoinInv'
<1> SUFFICES ASSUME GIInv, JoinInv, StartWave PROVE JoinInv'
    OBVIOUS
<1>1. /\ pc = "planning" /\ pc' = "running" /\ jumps' = <<>>
      /\ UNCHANGED <<g, fired, finished>>
      /\ \A n \in Names(g) : runs'[n] = runs[n] + (IF InWave(n) THEN 1 ELSE 0)
    BY DEF StartWave, Planned
<1>2. /\ Names(g)' = Names(g) /\ JumpTargets' = JumpTargets
      /\ \A n : InputsFired(n)' <=> InputsFired(n)
    BY <1>1, SameGraph DEF InputsFired
<1>3. FiredTruly' /\ JumpsAreTargets' /\ NoneLeftOut'
    BY <1>1, <1>2 DEF JoinInv, FiredTruly, JumpsAreTargets, NoneLeftOut
<1>4. ASSUME NEW n \in Names(g) \ JumpTargets
      PROVE  runs'[n] \in {0, 1} /\ (runs'[n] = 1 => InputsFired(n))
    <2>1. CASE InWave(n)
        <3>1. Ready(n)
            BY <1>1, <2>1 DEF JoinInv, RunsOnce
        <3> QED
            BY <1>1, <2>1, <3>1 DEF Ready, InputsFired
    <2>2. CASE ~InWave(n)
        BY <1>1, <2>2 DEF JoinInv, RunsOnce
    <2> QED
        BY <2>1, <2>2
<1>5. RunsOnce'
    BY <1>1, <1>2, <1>4 DEF RunsOnce
<1> QED
    BY <1>3, <1>5 DEF JoinInv

\* A merge fires edges and asks for jumps; the next wave is planned from the
\* first candidate on.
LEMMA MergesKeepJoins ==
    ASSUME GIInv, JoinInv, pc = "merging", UNCHANGED <<g, runs>>, NextMerge,
           fired \subseteq fired', FiredTruly', JumpsAreTargets', jumps' \in Seq(STRING)
    PROVE  JoinInv'
<1>1. g \in Graphs /\ Names(g)' = Names(g) /\ JumpTargets' = JumpTargets
    BY SameGraph DEF GIInv, TypeOK
<1>2. \A n : InputsFired(n) => InputsFired(n)'
    BY SameGraph DEF InputsFired
<1>3. pc' = "merging" \/ (pc' = "planning" /\ at' = 1 /\ wave' = <<>>)
    BY DEF NextMerge
<1>4. RunsOnce'
    BY <1>1, <1>2, <1>3 DEF JoinInv, RunsOnce, InWave
<1>5. Len(jumps') \in Nat /\ Len(g.nodes) \in Nat
    BY <1>1, GraphShape
<1>6. NoneLeftOut'
    BY <1>3, <1>5 DEF NoneLeftOut
<1> QED
    BY <1>4, <1>6 DEF JoinInv

LEMMA StepKeepsJoins == GIInv /\ JoinInv /\ [Next]_vars => JoinInv'
<1> SUFFICES ASSUME GIInv, JoinInv, [Next]_vars PROVE JoinInv'
    OBVIOUS
<1>0. g \in Graphs /\ jumps \in Seq(STRING) /\ FiredTruly /\ JumpsAreTargets
    BY DEF GIInv, TypeOK, JoinInv
<1>1. CASE PassOver \/ CutOff \/ Enlist
    BY <1>1, PlanningKeepsJoins
<1>2. CASE Drained \/ OutOfSteps
    BY <1>2, EndingKeepsJoins
<1>3. CASE StartWave
    BY <1>3, StartKeepsJoins
<1>4. ASSUME NEW n \in Names(g), NodeReturns(n) PROVE JoinInv'
    <2>1. pc' \in {"running", "merging"} /\ UNCHANGED <<g, fired, finished, jumps, runs>>
        BY <1>4 DEF NodeReturns
    <2> QED
        BY <2>1, SameGraph, SamePlan DEF JoinInv, FiredTruly, JumpsAreTargets, RunsOnce, NoneLeftOut
<1>5. CASE MergeFailed
    <2>1. Merged \in Names(g) /\ UNCHANGED <<g, fired, finished, runs>> /\ pc = "merging" /\ NextMerge
        BY <1>5 DEF MergeFailed, Merged, GIInv, TypeOK, StepsLeft
    <2>2. FiredTruly'
        BY <1>0, <2>1 DEF FiredTruly, Names
    <2>3. jumps' \in Seq(STRING) /\ \A i \in 1..Len(jumps') : jumps'[i] \in JumpTargets
        <3>1. CASE g.onError[Merged] = NoNode
            BY <1>0, <1>5, <3>1 DEF MergeFailed, JumpsAreTargets
        <3>2. CASE g.onError[Merged] # NoNode
            <4>0. g.onError[Merged] \in {g.onError[n] : n \in Names(g)}
                BY <2>1
            <4>1. g.onError[Merged] \in JumpTargets
                BY <4>0 DEF JumpTargets
            <4>3. g.onError[Merged] \in STRING
                BY <1>0, <2>1, <3>2, GraphShape
            <4>2. jumps' = Append(jumps, g.onError[Merged])
                BY <1>5, <3>2 DEF MergeFailed
            <4> QED
                BY <1>0, <4>1, <4>2, <4>3, OneMoreJump
        <3> QED
            BY <3>1, <3>2
    <2>4. JumpsAreTargets'
        BY <2>1, <2>3, SameGraph DEF JumpsAreTargets
    <2> QED
        BY <2>1, <2>2, <2>3, <2>4, MergesKeepJoins
<1>6. CASE Collision
    <2>1. pc' = "collision" /\ UNCHANGED <<g, fired, finished, jumps, runs>>
        BY <1>6 DEF Collision
    <2> QED
        BY <2>1, SameGraph, SamePlan DEF JoinInv, FiredTruly, JumpsAreTargets, RunsOnce, NoneLeftOut
<1>7. CASE MergeWritten
    <2>1. /\ Merged \in Names(g) /\ pc = "merging" /\ NextMerge /\ UNCHANGED <<g, runs>>
          /\ finished' = finished \cup {Merged}
          /\ IF Merged \in DOMAIN g.routers THEN Routed(board') ELSE EdgesFire
        BY <1>7 DEF MergeWritten, Merged, GIInv, TypeOK, StepsLeft
    <2>2. CASE Merged \in DOMAIN g.routers
        <3> DEFINE label == Label(g, Merged, board')
                   target == g.routers[Merged][label]
        <3>1. Routed(board') /\ fired' = fired
            BY <2>1, <2>2 DEF Routed
        <3>2. FiredTruly'
            BY <1>0, <2>1, <2>2, <3>1 DEF FiredTruly, Names
        <3>3. jumps' \in Seq(STRING) /\ \A i \in 1..Len(jumps') : jumps'[i] \in JumpTargets
            <4>1. CASE label \notin DOMAIN g.routers[Merged] \/ target = END
                BY <1>0, <3>1, <4>1 DEF Routed, JumpsAreTargets
            <4>2. CASE label \in DOMAIN g.routers[Merged] /\ target # END
                <5>1. target \in STRING
                    BY <1>0, <2>2, <4>2, GraphShape
                <5>2. target \in {g.routers[Merged][l] : l \in DOMAIN g.routers[Merged]}
                    BY <4>2
                <5>3. target \in JumpTargets
                    BY <2>2, <5>2 DEF JumpTargets
                <5>4. jumps' = Append(jumps, target)
                    BY <3>1, <4>2 DEF Routed
                <5> HIDE DEF target
                <5> QED
                    BY <1>0, <5>1, <5>3, <5>4, OneMoreJump
            <4> QED
                BY <4>1, <4>2
        <3>4. JumpsAreTargets'
            BY <2>1, <3>3, SameGraph DEF JumpsAreTargets
        <3> QED
            BY <2>1, <3>1, <3>2, <3>3, <3>4, MergesKeepJoins
    <2>3. CASE Merged \notin DOMAIN g.routers
        <3>1. /\ fired' = fired \cup {e \in g.edges : e[1] = Merged /\ e[2] # END}
              /\ jumps' = jumps
            BY <2>1, <2>3 DEF EdgesFire
        <3>2. \A e \in g.edges : e[2] \in Names(g) =>
                  (e \in fired' <=> e[1] = START \/ e[1] \in finished' \ DOMAIN g.routers)
            BY <1>0, <2>1, <2>3, <3>1, GraphJoints DEF FiredTruly
        <3>3. FiredTruly'
            BY <2>1, <3>2 DEF FiredTruly, Names
        <3>4. JumpsAreTargets'
            BY <1>0, <2>1, <3>1, SameGraph DEF JumpsAreTargets
        <3> QED
            BY <1>0, <2>1, <3>1, <3>3, <3>4, MergesKeepJoins
    <2> QED
        BY <2>2, <2>3
<1>8. CASE UNCHANGED vars
    <2>1. /\ UNCHANGED <<g, pc, at, fired, finished, jumps, runs, errors>>
          /\ \A n : InWave(n)' <=> InWave(n)
        BY <1>8 DEF vars, InWave
    <2>2. FiredTruly' /\ JumpsAreTargets' /\ RunsOnce'
        BY <2>1, SameGraph, SamePlan DEF JoinInv, FiredTruly, JumpsAreTargets, RunsOnce
    <2>3. NoneLeftOut'
        BY <2>1, SameGraph, SamePlan DEF JoinInv, NoneLeftOut
    <2> QED
        BY <2>2, <2>3 DEF JoinInv
<1> QED
    BY <1>1, <1>2, <1>3, <1>4, <1>5, <1>6, <1>7, <1>8 DEF Next, EngineStep

LEMMA JoinsAreRight == GIInv /\ JoinInv => JoinsRunOnTheirInputs
<1> SUFFICES ASSUME GIInv, JoinInv, pc = "ended", Engine \notin errors,
                    NEW n \in Names(g) \ JumpTargets, Deps(n) # {}, g.visits[n] > 0
             PROVE  runs[n] = 1 <=>
                        \A s \in Deps(n) \ {START} : s \in finished \ DOMAIN g.routers
    BY DEF JoinsRunOnTheirInputs
<1>1. g \in Graphs /\ runs[n] \in {0, 1}
    BY DEF GIInv, TypeOK, JoinInv, RunsOnce
<1>2. \A s \in Deps(n) : <<s, n>> \in fired <=> s = START \/ s \in finished \ DOMAIN g.routers
    <2> TAKE s \in Deps(n)
    <2>1. <<s, n>> \in g.edges
        BY <1>1, GraphJoints
    <2> QED
        BY <2>1 DEF JoinInv, FiredTruly
<1>3. runs[n] = 1 => InputsFired(n)
    BY DEF JoinInv, RunsOnce
<1>4. InputsFired(n) => runs[n] # 0
    BY DEF JoinInv, NoneLeftOut, Due, Ready, InputsFired
<1> QED
    BY <1>1, <1>2, <1>3, <1>4 DEF InputsFired

(***************************************************************************)
(* In a run that drains, a node that nothing jumps to has run, and once    *)
(* only, exactly if all its inputs finished and pass control on: a join    *)
(* neither starts early nor is left out, in any graph that can be built    *)
(* (next_wave, run_graph).                                                 *)
(***************************************************************************)
THEOREM JoinsWaitForAll == Spec => []JoinsRunOnTheirInputs
<1>1. GIInv /\ JoinInv /\ [Next]_vars => (GIInv /\ JoinInv)'
    BY StepKeepsBounds, StepKeepsJoins
<1> QED
    BY <1>1, BoundsAtTheStart, JoinsAtTheStart, JoinsAreRight, PTL DEF Spec
-----------------------------------------------------------------------------
(* The morning briefing                                                    *)

\* Who was started has returned or is still to be merged; who was merged was
\* started, and has returned writes or is an error.
ToMerge(n) ==
    /\ pc \in {"running", "merging"}
    /\ \E i \in at..Len(wave) : wave[i] = n

Accounts ==
    /\ \A i, j \in 1..Len(wave) : wave[i] = wave[j] => i = j
    /\ pc \in {"running", "merging"} => \A i \in 1..Len(wave) : runs[wave[i]] > 0
    /\ \A n \in Names(g) : Ran(n) => runs[n] > 0
    /\ pc # "collision" => \A n \in Names(g) :
           /\ runs[n] > 0 => Ran(n) \/ ToMerge(n)
           /\ Ran(n) => n \in finished \cup errors
    /\ \A n \in finished : Ran(n)

\* Where every node has one visit, none is merged twice.
Single == \A n \in Names(g) : g.visits[n] = 1

NoneTwice ==
    Single => /\ \A i, j \in 1..Len(path) : path[i] = path[j] => i = j
              /\ \A n \in Names(g) : ToMerge(n) => ~Ran(n)

\* The draft was asked for: it is to be looked at, enlisted or started.
Asked(n) == (\E i \in 1..Len(jumps) : jumps[i] = n) \/ InWave(n) \/ runs[n] > 0

Looked(n) ==
    pc = "planning" => \A i \in 1..Len(jumps) :
        i < at /\ jumps[i] = n => InWave(n) \/ runs[n] > 0

Counts == {"gh_open_prs", "gh_open_issues", "cal_event_count"}

Briefed ==
    /\ \A n \in DOMAIN results : results[n] \in GatherOutcomes(n)
    /\ errors \cap (ToSet(Scans) \cup {Engine}) = {}
    /\ "scan_github" \in finished =>
           {"gh_open_prs", "gh_open_issues"} \subseteq DOMAIN board
    /\ "scan_calendar" \in finished => "cal_event_count" \in DOMAIN board
    /\ \A k \in Counts : k \in DOMAIN board => board[k] \in Nat
    /\ "digest" \in DOMAIN board <=> "synthesize" \in finished

Drafted ==
    /\ Asked("draft_digest") <=>
           "synthesize" \in finished /\ NeedsAction(board) = "propose"
    /\ Looked("draft_digest")
    /\ pc = "ended" => wave = <<>> /\ (Asked("draft_digest") => runs["draft_digest"] > 0)

-----------------------------------------------------------------------------
\* What joyczl-cli/src/gather.rs binds: the briefing's graph, its nodes and its
\* router; no key of its begins with an underscore, a failure is no record of
\* writes, and the steps allowed are enough for its nodes.
GatherIsBound ==
    /\ \A h \in Graphs : h.name = "gather" => h = Gather
    /\ \A n, b : Outcomes(Gather, n, b) = GatherOutcomes(n)
    /\ \A b : Label(Gather, "synthesize", b) = NeedsAction(b)
    /\ \A n \in Names(Gather) : \A out \in GatherOutcomes(n) \ {Failed} : DOMAIN out \cap Private = {}
    /\ \A s \in ToSet(Scans) : Failed \notin GatherOutcomes(s)
    /\ NoNode \notin Names(Gather)
    /\ Cardinality(Names(Gather)) <= MaxSteps

ScanNames == {"scan_github", "scan_web", "scan_calendar", "scan_memory"}

LEMMA GatherParts ==
    /\ ToSet(Scans) = ScanNames
    /\ Names(Gather) = ScanNames \cup {"synthesize", "draft_digest"}
    /\ DOMAIN GatherNodes = 1..Len(GatherNodes)
<1> DEFINE rest == <<"synthesize", "draft_digest">>
           all == ScanNames \cup {"synthesize", "draft_digest"}
<1>1. ToSet(Scans) = ScanNames
    BY DEF ToSet, Scans, ScanNames
<1>2. Scans \in Seq(all) /\ Len(Scans) = 4
    BY DEF Scans, ScanNames
<1>3. rest \in Seq(all) /\ Len(rest) = 2 /\ rest[1] = "synthesize" /\ rest[2] = "draft_digest"
    OBVIOUS
<1> HIDE DEF rest, all
<1>4. /\ Scans \o rest \in Seq(all) /\ Len(Scans \o rest) = 6
      /\ \A i \in 1..6 : (Scans \o rest)[i] = IF i <= 4 THEN Scans[i] ELSE rest[i - 4]
    <2> DEFINE whole == Scans \o rest
    <2>1. /\ whole \in Seq(all) /\ Len(whole) = Len(Scans) + Len(rest)
          /\ \A i \in 1..(Len(Scans) + Len(rest)) :
                 whole[i] = IF i <= Len(Scans) THEN Scans[i] ELSE rest[i - Len(Scans)]
        BY <1>2, <1>3, ConcatProperties
    <2> HIDE DEF whole
    <2>2. Len(whole) = 6 /\ \A i \in 1..6 : whole[i] = IF i <= 4 THEN Scans[i] ELSE rest[i - 4]
        BY <1>2, <1>3, <2>1
    <2> QED
        BY <2>1, <2>2 DEF whole
<1>5. Gather.nodes = Scans \o rest
    BY DEF Gather, GatherNodes, rest
<1>6. Names(Gather) = ScanNames \cup {"synthesize", "draft_digest"}
    <2>1. Names(Gather) = {(Scans \o rest)[i] : i \in 1..6}
        BY <1>4, <1>5 DEF Names
    <2>2. Scans[1] = "scan_github" /\ Scans[2] = "scan_web" /\ Scans[3] = "scan_calendar"
              /\ Scans[4] = "scan_memory"
        BY DEF Scans
    <2> QED
        BY <1>3, <1>4, <2>1, <2>2 DEF ScanNames
<1>7. DOMAIN GatherNodes = 1..Len(GatherNodes)
    BY <1>4, <1>5, LenProperties DEF Gather
<1> QED
    BY <1>1, <1>6, <1>7

LEMMA GatherShapes ==
    ASSUME GatherIsBound, g \in Graphs, g.name = "gather"
    PROVE  /\ g = Gather
           /\ Names(g) = ScanNames \cup {"synthesize", "draft_digest"}
           /\ \A n \in Names(g) : g.visits[n] = 1 /\ g.onError[n] = NoNode
           /\ DOMAIN g.routers = {"synthesize"}
           /\ g.routers["synthesize"] = [propose |-> "draft_digest", quiet |-> END]
           /\ g.board = <<>> /\ g.carried = {}
           /\ \A s \in ScanNames : <<START, s>> \in g.edges /\ <<s, "synthesize">> \in g.edges
           /\ \A s \in ScanNames : Deps(s) = {START}
           /\ Deps("synthesize") = ScanNames
           /\ Deps("draft_digest") = {}
           /\ JumpTargets \subseteq {"draft_digest", END, NoNode}
<1>1. g = Gather
    BY DEF GatherIsBound
<1>2. Names(g) = ScanNames \cup {"synthesize", "draft_digest"}
    BY <1>1, GatherParts
<1>3. ToSet(GatherNodes) = Names(g)
    <2>1. GatherNodes = Gather.nodes
        BY DEF Gather
    <2> QED
        BY <1>1, <2>1, GatherParts DEF ToSet, Names
<1>4. \A n \in Names(g) : g.visits[n] = 1 /\ g.onError[n] = NoNode
    BY <1>1, <1>3 DEF Gather, Once, NoRedirect
<1>5. /\ DOMAIN g.routers = {"synthesize"}
      /\ g.routers["synthesize"] = [propose |-> "draft_digest", quiet |-> END]
      /\ g.board = <<>> /\ g.carried = {}
    BY <1>1 DEF Gather
<1>6. g.edges = {<<START, s>> : s \in ScanNames} \cup {<<s, "synthesize">> : s \in ScanNames}
                   \cup {<<"draft_digest", END>>}
    BY <1>1, GatherParts DEF Gather
<1>7. START = "START" /\ END = "END"
    BY DEF START, END
<1>8. \A m, n : <<m, n>> \in g.edges <=>
          \/ m = START /\ n \in ScanNames
          \/ m \in ScanNames /\ n = "synthesize"
          \/ m = "draft_digest" /\ n = END
    BY <1>6
<1>9. \A n \in Names(g) : \A m : m \in Deps(n) <=> <<m, n>> \in g.edges
    BY GraphJoints
<1>10. /\ \A s \in ScanNames : Deps(s) = {START}
       /\ Deps("synthesize") = ScanNames
       /\ Deps("draft_digest") = {}
    <2>1. ASSUME NEW s \in ScanNames PROVE Deps(s) = {START}
        <3>1. \A m : m \in Deps(s) <=> m = START
            BY <1>2, <1>7, <1>8, <1>9 DEF ScanNames
        <3> QED
            BY <3>1
    <2>2. Deps("synthesize") = ScanNames
        <3>1. \A m : <<m, "synthesize">> \in g.edges <=> m \in ScanNames
            BY <1>7, <1>8 DEF ScanNames
        <3>2. \A m : m \in Deps("synthesize") <=> <<m, "synthesize">> \in g.edges
            BY <1>2, <1>9
        <3> QED
            BY <3>1, <3>2
    <2>3. Deps("draft_digest") = {}
        <3>1. \A m : <<m, "draft_digest">> \notin g.edges
            BY <1>7, <1>8 DEF ScanNames
        <3>2. \A m : m \in Deps("draft_digest") <=> <<m, "draft_digest">> \in g.edges
            BY <1>2, <1>9
        <3> QED
            BY <3>1, <3>2
    <2> QED
        BY <2>1, <2>2, <2>3
<1>11. JumpTargets \subseteq {"draft_digest", END, NoNode}
    <2>1. \A n \in DOMAIN g.routers : \A l \in DOMAIN g.routers[n] :
              g.routers[n][l] \in {"draft_digest", END}
        BY <1>5
    <2> QED
        BY <1>4, <2>1 DEF JumpTargets
<1> QED
    BY <1>1, <1>2, <1>4, <1>5, <1>8, <1>10, <1>11
-----------------------------------------------------------------------------
LEMMA AccountsAtTheStart == Init => Accounts /\ NoneTwice
BY DEF Init, Accounts, NoneTwice, Ran, ToMerge

LEMMA PlanningKeepsAccounts ==
    ASSUME GIInv, Accounts, NoneTwice, PassOver \/ CutOff \/ Enlist \/ Drained \/ OutOfSteps
    PROVE  (Accounts /\ NoneTwice)'
<1>1. /\ UNCHANGED <<g, runs, path, finished>> /\ errors \subseteq errors'
      /\ pc = "planning" /\ pc' \in {"planning", "ended"}
    BY DEF PassOver, CutOff, Enlist, Drained, OutOfSteps, Planning, Planned
<1>2. Names(g)' = Names(g) /\ (Single' <=> Single) /\ \A n : Ran(n)' <=> Ran(n)
    BY <1>1 DEF Names, Single, Ran
<1>3. \A n : ~ToMerge(n) /\ ~ToMerge(n)'
    BY <1>1 DEF ToMerge
<1>4. \A i, j \in 1..Len(wave') : wave'[i] = wave'[j] => i = j
    <2>1. CASE Enlist
        <3>1. /\ Len(wave') = Len(wave) + 1 /\ ~InWave(Candidate)
              /\ \A i \in 1..Len(wave') :
                     wave'[i] = IF i = Len(wave') THEN Candidate ELSE wave[i]
            BY <2>1 DEF Enlist, Eligible, GIInv, TypeOK
        <3>2. Len(wave) \in Nat
            BY DEF GIInv, TypeOK
        <3> QED
            BY <3>1, <3>2 DEF InWave, Accounts
    <2>2. CASE ~Enlist
        BY <2>2 DEF PassOver, CutOff, Drained, OutOfSteps, Accounts
    <2> QED
        BY <2>1, <2>2
<1>5. Accounts'
    BY <1>1, <1>2, <1>3, <1>4 DEF Accounts
<1>6. NoneTwice'
    BY <1>1, <1>2, <1>3 DEF NoneTwice
<1> QED
    BY <1>5, <1>6

LEMMA StartKeepsAccounts ==
    ASSUME GIInv, Accounts, NoneTwice, StartWave
    PROVE  (Accounts /\ NoneTwice)'
<1>1. /\ UNCHANGED <<g, path, finished, errors, wave>> /\ pc = "planning" /\ pc' = "running"
      /\ at' = 1 /\ \A n \in Names(g) : runs'[n] = runs[n] + (IF InWave(n) THEN 1 ELSE 0)
    BY DEF StartWave, Planned
<1>2. Names(g)' = Names(g) /\ (Single' <=> Single) /\ \A n : Ran(n)' <=> Ran(n)
    BY <1>1 DEF Names, Single, Ran
<1>3. \A n : ~ToMerge(n) /\ (ToMerge(n)' <=> InWave(n))
    BY <1>1 DEF ToMerge, InWave
<1>4. \A n \in Names(g) : runs[n] \in Nat
    BY DEF GIInv, TypeOK
<1>5. \A n \in Names(g) : runs'[n] > 0 <=> runs[n] > 0 \/ InWave(n)
    BY <1>1, <1>4
<1>6. \A i \in 1..Len(wave) : wave[i] \in Names(g) /\ InWave(wave[i])
    BY DEF GIInv, TypeOK, InWave
<1>7. Accounts'
    BY <1>1, <1>2, <1>3, <1>5, <1>6 DEF Accounts
<1>8. ASSUME Single, NEW n \in Names(g), InWave(n)
      PROVE  ~Ran(n)
    <2>1. runs[n] < 1
        BY <1>1, <1>8 DEF InWave, GIInv, VisitsLeft, Single
    <2> QED
        BY <1>4, <2>1 DEF Accounts
<1>9. NoneTwice'
    BY <1>1, <1>2, <1>3, <1>8 DEF NoneTwice
<1> QED
    BY <1>7, <1>9

LEMMA ReturnsKeepAccounts ==
    ASSUME Accounts, NoneTwice, NEW n \in Names(g), NodeReturns(n)
    PROVE  (Accounts /\ NoneTwice)'
<1>1. /\ UNCHANGED <<g, at, runs, path, finished, errors, wave>>
      /\ pc = "running" /\ pc' \in {"running", "merging"}
    BY DEF NodeReturns
<1>2. Names(g)' = Names(g) /\ (Single' <=> Single)
      /\ \A m : (Ran(m)' <=> Ran(m)) /\ (ToMerge(m)' <=> ToMerge(m))
    BY <1>1 DEF Names, Single, Ran, ToMerge
<1> QED
    BY <1>1, <1>2 DEF Accounts, NoneTwice

\* Who is merged was to be merged, and no more is.
LEMMA OneMoreRan ==
    ASSUME GIInv, Accounts, pc = "merging", path' = Append(path, Merged)
    PROVE  /\ Merged \in Names(g) /\ at \in 1..Len(wave) /\ Len(wave) \in Nat /\ ToMerge(Merged)
           /\ Len(path) \in Nat /\ Len(path') = Len(path) + 1
           /\ \A i \in 1..Len(path') : path'[i] = IF i = Len(path') THEN Merged ELSE path[i]
           /\ \A n : Ran(n)' <=> Ran(n) \/ n = Merged
<1>1. Merged \in Names(g) /\ at \in 1..Len(wave) /\ Len(wave) \in Nat
    BY DEF Merged, GIInv, TypeOK, StepsLeft
<1>2. ToMerge(Merged)
    BY <1>1 DEF ToMerge, Merged
<1>3. /\ Len(path) \in Nat /\ Len(path') = Len(path) + 1
      /\ \A i \in 1..Len(path') : path'[i] = IF i = Len(path') THEN Merged ELSE path[i]
    BY <1>1 DEF GIInv, TypeOK
<1>4. \A n : Ran(n)' <=> Ran(n) \/ n = Merged
    <2> TAKE n
    <2>1. ASSUME Ran(n) PROVE Ran(n)'
        <3>1. PICK i \in 1..Len(path) : path[i] = n
            BY <2>1 DEF Ran
        <3>2. i \in 1..Len(path') /\ path'[i] = n
            BY <1>3, <3>1
        <3> QED
            BY <3>2 DEF Ran
    <2>2. ASSUME n = Merged PROVE Ran(n)'
        <3>1. Len(path') \in 1..Len(path') /\ path'[Len(path')] = n
            BY <1>3, <2>2
        <3> QED
            BY <3>1 DEF Ran
    <2>3. ASSUME Ran(n)', n # Merged PROVE Ran(n)
        <3>1. PICK i \in 1..Len(path') : path'[i] = n
            BY <2>3 DEF Ran
        <3>2. i \in 1..Len(path) /\ path[i] = n
            BY <1>3, <2>3, <3>1
        <3> QED
            BY <3>2 DEF Ran
    <2> QED
        BY <2>1, <2>2, <2>3
<1> QED
    BY <1>1, <1>2, <1>3, <1>4

LEMMA PathStaysSingle ==
    ASSUME GIInv, Accounts, NoneTwice, pc = "merging", path' = Append(path, Merged), Single
    PROVE  \A i, j \in 1..Len(path') : path'[i] = path'[j] => i = j
<1>1. ~Ran(Merged)
    BY OneMoreRan DEF NoneTwice
<1>2. \A i \in 1..Len(path) : path[i] # Merged
    BY <1>1 DEF Ran
<1> QED
    BY <1>2, OneMoreRan DEF NoneTwice

LEMMA MergesKeepAccounts ==
    ASSUME GIInv, Accounts, NoneTwice, pc = "merging", UNCHANGED <<g, runs>>, NextMerge,
           errors \subseteq errors', finished \subseteq finished',
           finished' \subseteq finished \cup {Merged}, Merged \in finished' \cup errors'
    PROVE  (Accounts /\ NoneTwice)'
<1>1. path' = Append(path, Merged) /\ Names(g)' = Names(g) /\ (Single' <=> Single)
    BY DEF NextMerge, Names, Single
<1>2. \A n : Ran(n)' <=> Ran(n) \/ n = Merged
    BY <1>1, OneMoreRan
<1>3. at \in 1..Len(wave) /\ Len(wave) \in Nat /\ runs[Merged] > 0
    BY <1>1, OneMoreRan DEF Accounts, Merged
<1>4. \A n : ToMerge(n)' <=> ToMerge(n) /\ n # Merged
    <2>1. CASE at < Len(wave)
        <3>1. at' = at + 1 /\ pc' = pc /\ wave' = wave
            BY <2>1 DEF NextMerge
        <3>2. \A i \in at..Len(wave) : i # at <=> wave[i] # Merged
            BY <1>3 DEF Accounts, Merged
        <3>3. \A i : i \in (at + 1)..Len(wave) <=> i \in at..Len(wave) /\ i # at
            BY <1>3
        <3> QED
            BY <3>1, <3>2, <3>3 DEF ToMerge
    <2>2. CASE ~(at < Len(wave))
        <3>1. pc' = "planning" /\ at..Len(wave) = {at}
            BY <1>3, <2>2 DEF NextMerge
        <3> QED
            BY <3>1 DEF ToMerge, Merged
    <2> QED
        BY <2>1, <2>2
<1>5. /\ pc' \in {"merging", "planning"}
      /\ wave' = wave \/ (wave' = <<>> /\ pc' = "planning")
    BY DEF NextMerge
<1>6. Accounts'
    <2>1. \A i, j \in 1..Len(wave') : wave'[i] = wave'[j] => i = j
        BY <1>5 DEF Accounts
    <2>2. pc' \in {"running", "merging"} => \A i \in 1..Len(wave') : runs'[wave'[i]] > 0
        BY <1>5 DEF Accounts
    <2> QED
        BY <1>1, <1>2, <1>3, <1>4, <1>5, <2>1, <2>2 DEF Accounts
<1>7. NoneTwice'
    <2> SUFFICES ASSUME Single PROVE NoneTwice'
        BY <1>1 DEF NoneTwice
    <2>1. \A i, j \in 1..Len(path') : path'[i] = path'[j] => i = j
        BY <1>1, PathStaysSingle
    <2>2. \A n \in Names(g) : ToMerge(n)' => ~Ran(n)'
        BY <1>2, <1>4 DEF NoneTwice
    <2> QED
        BY <1>1, <2>1, <2>2 DEF NoneTwice
<1> QED
    BY <1>6, <1>7

LEMMA StepKeepsAccounts ==
    ASSUME GIInv, Accounts, NoneTwice, [Next]_vars
    PROVE  (Accounts /\ NoneTwice)'
<1>1. CASE PassOver \/ CutOff \/ Enlist \/ Drained \/ OutOfSteps
    BY <1>1, PlanningKeepsAccounts
<1>2. CASE StartWave
    BY <1>2, StartKeepsAccounts
<1>3. ASSUME NEW n \in Names(g), NodeReturns(n) PROVE (Accounts /\ NoneTwice)'
    BY <1>3, ReturnsKeepAccounts
<1>4. CASE MergeFailed
    BY <1>4, MergesKeepAccounts DEF MergeFailed
<1>5. CASE Collision
    <2>1. /\ pc = "merging" /\ pc' = "collision" /\ path' = Append(path, Merged)
          /\ UNCHANGED <<g, runs, finished, wave>>
        BY <1>5 DEF Collision
    <2>2. Names(g)' = Names(g) /\ (Single' <=> Single) /\ \A n : ~ToMerge(n)'
        BY <2>1 DEF Names, Single, ToMerge
    <2>3. \A n : Ran(n)' <=> Ran(n) \/ n = Merged
        BY <2>1, OneMoreRan
    <2>4. runs[Merged] > 0
        BY <2>1, OneMoreRan DEF Accounts, Merged
    <2>5. Accounts'
        BY <2>1, <2>2, <2>3, <2>4 DEF Accounts
    <2>6. NoneTwice'
        BY <2>1, <2>2, PathStaysSingle DEF NoneTwice
    <2> QED
        BY <2>5, <2>6
<1>6. CASE MergeWritten
    <2>1. /\ pc = "merging" /\ UNCHANGED <<g, runs>> /\ NextMerge
          /\ finished' = finished \cup {Merged}
        BY <1>6 DEF MergeWritten
    <2>2. errors \subseteq errors'
        BY <1>6 DEF MergeWritten, Routed, EdgesFire
    <2> QED
        BY <2>1, <2>2, MergesKeepAccounts
<1>7. CASE UNCHANGED vars
    <2>1. /\ UNCHANGED <<g, pc, at, runs, path, finished, errors, wave>>
        BY <1>7 DEF vars
    <2>2. Names(g)' = Names(g) /\ (Single' <=> Single)
          /\ \A m : (Ran(m)' <=> Ran(m)) /\ (ToMerge(m)' <=> ToMerge(m))
        BY <2>1 DEF Names, Single, Ran, ToMerge
    <2> QED
        BY <2>1, <2>2 DEF Accounts, NoneTwice
<1> QED
    BY <1>1, <1>2, <1>3, <1>4, <1>5, <1>6, <1>7 DEF Next, EngineStep

\* Steps for every node are steps enough where no node has a second visit.
LEMMA OneVisitFits ==
    ASSUME GIInv, Accounts, NoneTwice, Single, pc = "planning", IsFiniteSet(Names(g))
    PROVE  Len(path) + Len(wave) <= Cardinality(Names(g))
<1> DEFINE p == Len(path)
           w == Len(wave)
           f == [k \in 1..(p + w) |-> IF k <= p THEN path[k] ELSE wave[k - p]]
<1>1. /\ p \in Nat /\ w \in Nat
      /\ \A i \in 1..p : path[i] \in Names(g)
      /\ \A i \in 1..w : wave[i] \in Names(g)
    BY DEF GIInv, TypeOK
<1>2. \A i \in 1..p, j \in 1..w : path[i] # wave[j]
    <2> TAKE i \in 1..p, j \in 1..w
    <2>1. runs[wave[j]] < 1 /\ runs[wave[j]] \in Nat
        BY <1>1 DEF GIInv, VisitsLeft, Single, TypeOK
    <2>2. runs[path[i]] > 0
        BY <1>1 DEF Accounts, Ran
    <2> QED
        BY <2>1, <2>2
<1>3. /\ \A i, j \in 1..p : path[i] = path[j] => i = j
      /\ \A i, j \in 1..w : wave[i] = wave[j] => i = j
    BY DEF NoneTwice, Accounts
<1> HIDE DEF p, w
<1>4. f \in [1..(p + w) -> Names(g)]
    BY <1>1
<1>5. \A i, j \in 1..(p + w) : f[i] = f[j] => i = j
    BY <1>1, <1>2, <1>3
<1> HIDE DEF f
<1>6. f \in Injection(1..(p + w), Names(g))
    BY <1>4, <1>5 DEF Injection, IsInjective
<1>7. Cardinality(1..(p + w)) <= Cardinality(Names(g))
    BY <1>6, FS_Injection
<1>8. Cardinality(1..(p + w)) = p + w
    <2>1. p + w \in Nat /\ 1 \in Int /\ p + w \in Int
        BY <1>1
    <2> QED
        BY <2>1, FS_Interval
<1> QED
    BY <1>7, <1>8 DEF p, w
-----------------------------------------------------------------------------
\* The keys a node of the briefing writes.
KeysOf(n) ==
    CASE n = "scan_github" -> {"gh_text", "gh_open_prs", "gh_open_issues"}
      [] n = "scan_web" -> {"web_text"}
      [] n = "scan_calendar" -> {"cal_text", "cal_event_count"}
      [] n = "scan_memory" -> {"mem_text"}
      [] n = "synthesize" -> {"digest"}
      [] n = "draft_digest" -> {"draft_path"}

LEMMA GatherWrites ==
    ASSUME NEW n \in ScanNames \cup {"synthesize", "draft_digest"},
           NEW out \in GatherOutcomes(n), out # Failed
    PROVE  DOMAIN out = KeysOf(n) /\ \A k \in KeysOf(n) \cap Counts : out[k] \in Nat
<1>1. CASE n = "scan_github"
    <2>1. out \in GithubScan
        BY <1>1 DEF GatherOutcomes
    <2>2. CASE out = ScanUnavailable("scan_github")
        BY <1>1, <2>2 DEF ScanUnavailable, KeysOf, Counts
    <2>3. CASE out \in [gh_text : {"lists"}, gh_open_prs : 0..1, gh_open_issues : 0..1]
        BY <1>1, <2>3 DEF KeysOf, Counts
    <2> QED
        BY <2>1, <2>2, <2>3 DEF GithubScan
<1>2. CASE n = "scan_web"
    BY <1>2 DEF GatherOutcomes, WebScan, ScanUnavailable, KeysOf, Counts
<1>3. CASE n = "scan_calendar"
    <2>1. PICK c \in Calendars :
              out = [cal_text |-> TodaysEvents(c), cal_event_count |-> EventCount(TodaysEvents(c))]
        BY <1>3 DEF GatherOutcomes, CalendarScan
    <2>2. EventCount(TodaysEvents(c)) \in Nat
        BY DEF EventCount
    <2> QED
        BY <1>3, <2>1, <2>2 DEF KeysOf, Counts
<1>4. CASE n = "scan_memory"
    BY <1>4 DEF GatherOutcomes, MemoryScan, KeysOf, Counts
<1>5. CASE n = "synthesize"
    BY <1>5 DEF GatherOutcomes, Synthesis, KeysOf, Counts
<1>6. CASE n = "draft_digest"
    BY <1>6 DEF GatherOutcomes, Draft, KeysOf, Counts
<1> QED
    BY <1>1, <1>2, <1>3, <1>4, <1>5, <1>6 DEF ScanNames

LEMMA BriefAtTheStart ==
    ASSUME GatherIsBound, Init, g.name = "gather"
    PROVE  Briefed /\ Drafted
<1>1. g \in Graphs
    BY DEF Init
<1>2. board = <<>> /\ errors = {} /\ DOMAIN board = {} /\ DOMAIN results = {}
    BY <1>1, GatherShapes DEF Init
<1>3. Briefed
    BY <1>2 DEF Init, Briefed
<1>4. ~Asked("draft_digest")
    BY <1>1, GatherShapes DEF Init, Asked, InWave
<1>5. Drafted
    BY <1>4 DEF Init, Drafted, Looked
<1> QED
    BY <1>3, <1>5

\* The counts are read from the board and nowhere else.
LEMMA SameCounts ==
    ASSUME \A k \in Counts :
               /\ k \in DOMAIN board' <=> k \in DOMAIN board
               /\ k \in DOMAIN board => board'[k] = board[k]
    PROVE  NeedsAction(board') = NeedsAction(board)
BY DEF NeedsAction, Counts

\* When the digest is written all four scans have written.
LEMMA ScansComeFirst ==
    ASSUME GatherIsBound, GIInv, JoinInv, Accounts, g.name = "gather", runs["synthesize"] > 0
    PROVE  ScanNames \subseteq finished
<1>1. g \in Graphs
    BY DEF GIInv, TypeOK
<1>2. "synthesize" \in Names(g) \ JumpTargets
    BY <1>1, GatherShapes DEF GatherIsBound, END
<1>3. runs["synthesize"] = 1
    BY <1>2 DEF JoinInv, RunsOnce
<1>4. InputsFired("synthesize")
    BY <1>2, <1>3 DEF JoinInv, RunsOnce
<1>5. \A s \in ScanNames : <<s, "synthesize">> \in fired
    BY <1>1, <1>4, GatherShapes DEF InputsFired
<1>6. ASSUME NEW s \in ScanNames PROVE s \in finished
    <2>1. <<s, "synthesize">> \in g.edges /\ "synthesize" \in Names(g) /\ s # START
        BY <1>1, GatherShapes DEF ScanNames, START
    <2> QED
        BY <1>5, <2>1 DEF JoinInv, FiredTruly
<1> QED
    BY <1>6

LEMMA PlanningKeepsBrief ==
    ASSUME GatherIsBound, GIInv, JoinInv, Accounts, NoneTwice, g.name = "gather", Briefed, Drafted,
           PassOver \/ CutOff \/ Enlist
    PROVE  (Briefed /\ Drafted)'
<1>1. /\ UNCHANGED <<g, pc, board, jumps, runs, results, finished>> /\ at' = at + 1
      /\ Planning /\ pc = "planning" /\ g \in Graphs
      /\ at \in Nat /\ Len(jumps) \in Nat /\ Len(wave) \in Nat
    BY DEF PassOver, CutOff, Enlist, Planning, GIInv, TypeOK
<1>2. "draft_digest" \in Names(g) /\ ~Ready("draft_digest")
    BY <1>1, GatherShapes DEF Ready
<1>3. \A n : InWave(n)' <=> InWave(n) \/ (Enlist /\ n = Candidate)
    <2>1. CASE Enlist
        <3>1. /\ Len(wave') = Len(wave) + 1
              /\ \A i \in 1..Len(wave') :
                     wave'[i] = IF i = Len(wave') THEN Candidate ELSE wave[i]
            BY <2>1 DEF Enlist, GIInv, TypeOK
        <3> QED
            BY <1>1, <2>1, <3>1 DEF InWave
    <2>2. CASE ~Enlist
        BY <2>2 DEF PassOver, CutOff, InWave
    <2> QED
        BY <2>1, <2>2
<1>4. errors' \cap (ScanNames \cup {Engine}) = {}
    <2>1. CASE CutOff
        <3>1. Candidate \in Names(g) /\ runs[Candidate] >= 1 /\ errors' = errors \cup {Candidate}
            BY <1>1, <2>1, GatherShapes DEF CutOff, Eligible
        <3>2. Candidate # Engine
            BY <1>1, <3>1, GatherShapes DEF Engine, ScanNames
        <3>3. ASSUME Candidate \in ScanNames PROVE FALSE
            <4>1. ~Ready(Candidate)
                BY <3>1 DEF Ready
            <4>2. at <= Len(jumps) /\ Candidate = jumps[at]
                BY <1>1, <2>1, <4>1, WhatIsNext DEF CutOff, Eligible
            <4>3. Candidate \in {"draft_digest", END, NoNode}
                BY <1>1, <4>2, GatherShapes DEF JoinInv, JumpsAreTargets, GIInv, TypeOK
            <4> QED
                BY <1>1, <3>1, <3>3, <4>3, GatherShapes DEF ScanNames, END, GatherIsBound
        <3> QED
            BY <3>1, <3>2, <3>3, GatherParts DEF Briefed
    <2>2. CASE ~CutOff
        BY <2>2, GatherParts DEF PassOver, Enlist, Briefed
    <2> QED
        BY <2>1, <2>2
<1>5. Briefed'
    BY <1>1, <1>4, GatherParts DEF Briefed
<1>6. at <= Len(jumps) => Candidate = jumps[at]
    BY <1>1, WhatIsNext
<1>7. Asked("draft_digest")' <=> Asked("draft_digest")
    <2>1. ASSUME Enlist, Candidate = "draft_digest" PROVE Asked("draft_digest")
        <3>1. at <= Len(jumps)
            BY <1>1, <1>2, <2>1 DEF Enlist, Eligible
        <3>2. at \in 1..Len(jumps) /\ jumps[at] = "draft_digest"
            BY <1>6, <2>1, <3>1 DEF GIInv, TypeOK
        <3> QED
            BY <3>2 DEF Asked
    <2> QED
        BY <1>1, <1>3, <2>1 DEF Asked
<1>8. Looked("draft_digest")'
    <2> SUFFICES ASSUME NEW i \in 1..Len(jumps), i < at + 1, jumps[i] = "draft_digest"
                 PROVE  InWave("draft_digest")' \/ runs["draft_digest"] > 0
        BY <1>1 DEF Looked
    <2>1. CASE i < at
        BY <1>1, <1>3, <2>1 DEF Drafted, Looked
    <2>2. CASE i = at
        <3>1. Candidate = "draft_digest" /\ at <= Len(jumps)
            BY <1>6, <2>2
        <3>2. CASE PassOver
            BY <1>1, <1>2, <1>3, <3>1, <3>2 DEF PassOver, Eligible
        <3>3. CASE CutOff
            BY <1>1, <1>2, <3>1, <3>3, GatherShapes DEF CutOff, GIInv, TypeOK
        <3>4. CASE Enlist
            BY <1>3, <3>1, <3>4
        <3> QED
            BY <3>2, <3>3, <3>4
    <2> QED
        BY <1>1, <2>1, <2>2
<1>9. Drafted'
    BY <1>1, <1>7, <1>8 DEF Drafted
<1> QED
    BY <1>5, <1>9

\* When a wave is closed, the draft that was asked for is in it, or has run.
LEMMA AllLooked ==
    ASSUME GIInv, Drafted, Planned, Asked("draft_digest")
    PROVE  InWave("draft_digest") \/ runs["draft_digest"] > 0
<1>1. at > Len(jumps) /\ Len(jumps) \in Nat /\ at \in Nat /\ pc = "planning"
    BY GraphShape DEF Planned, Candidates, GIInv, TypeOK
<1> QED
    BY <1>1 DEF Drafted, Looked, Asked

LEMMA ThreeAreFinite ==
    ASSUME NEW x, NEW y, NEW z
    PROVE  IsFiniteSet({x, y, z})
<1>1. IsFiniteSet({} \cup {x})
    BY FS_EmptySet, FS_AddElement
<1>2. IsFiniteSet(({} \cup {x}) \cup {y})
    BY <1>1, FS_AddElement
<1>3. IsFiniteSet((({} \cup {x}) \cup {y}) \cup {z})
    BY <1>2, FS_AddElement
<1>4. {x, y, z} = (({} \cup {x}) \cup {y}) \cup {z}
    OBVIOUS
<1> QED
    BY <1>3, <1>4

LEMMA EndingKeepsBrief ==
    ASSUME GatherIsBound, GIInv, JoinInv, Accounts, NoneTwice, g.name = "gather", Briefed, Drafted,
           Drained \/ OutOfSteps
    PROVE  (Briefed /\ Drafted)'
<1>0. g \in Graphs /\ Planned /\ pc = "planning"
    BY DEF GIInv, TypeOK, Drained, OutOfSteps, Planned
<1>1. ~OutOfSteps
    <2>1. Single
        BY <1>0, GatherShapes DEF Single
    <2>2. IsFiniteSet(Names(g))
        <3>1. Names(g) = {"scan_github", "scan_web", "scan_calendar"}
                             \cup {"scan_memory", "synthesize", "draft_digest"}
            BY <1>0, GatherShapes DEF ScanNames
        <3> QED
            BY <3>1, ThreeAreFinite, FS_Union
    <2>3. Len(path) + Len(wave) <= Cardinality(Names(g))
        BY <1>0, <2>1, <2>2, OneVisitFits
    <2>4. Cardinality(Names(g)) \in Nat /\ Cardinality(Names(g)) <= MaxSteps
        BY <1>0, <2>2, GatherShapes, FS_CardinalityType DEF GatherIsBound
    <2> QED
        BY <2>3, <2>4, GraphAssumption DEF OutOfSteps, GIInv, TypeOK
<1>2. /\ UNCHANGED <<g, board, jumps, runs, results, finished, errors, wave>>
      /\ pc' = "ended" /\ wave = <<>>
    BY <1>1 DEF Drained
<1>3. Asked("draft_digest") => runs["draft_digest"] > 0
    BY <1>0, <1>2, AllLooked DEF InWave
<1>4. Asked("draft_digest")' <=> Asked("draft_digest")
    BY <1>2 DEF Asked, InWave
<1>5. Briefed'
    BY <1>2 DEF Briefed
<1>6. Drafted'
    BY <1>2, <1>3, <1>4 DEF Drafted, Looked
<1> QED
    BY <1>5, <1>6

LEMMA StartKeepsBrief ==
    ASSUME GatherIsBound, GIInv, g.name = "gather", Briefed, Drafted, StartWave
    PROVE  (Briefed /\ Drafted)'
<1>1. /\ UNCHANGED <<g, board, finished, errors, wave>> /\ jumps' = <<>> /\ results' = <<>>
      /\ pc' = "running" /\ Planned
      /\ \A n \in Names(g) : runs'[n] = runs[n] + (IF InWave(n) THEN 1 ELSE 0)
    BY DEF StartWave
<1>2. "draft_digest" \in Names(g)
    BY GatherShapes DEF GIInv, TypeOK
<1>3. runs'["draft_digest"] > 0 <=> runs["draft_digest"] > 0 \/ InWave("draft_digest")
    BY <1>1, <1>2 DEF GIInv, TypeOK
<1>4. Asked("draft_digest")' <=> Asked("draft_digest")
    <2>1. Asked("draft_digest") <=> runs["draft_digest"] > 0 \/ InWave("draft_digest")
        BY <1>1, AllLooked DEF Asked
    <2>2. Asked("draft_digest")' <=> runs'["draft_digest"] > 0 \/ InWave("draft_digest")
        BY <1>1 DEF Asked, InWave
    <2> QED
        BY <1>3, <2>1, <2>2
<1>5. DOMAIN results' = {}
    BY <1>1
<1>6. Briefed'
    BY <1>1, <1>5 DEF Briefed
<1>7. Drafted'
    BY <1>1, <1>4 DEF Drafted, Looked
<1> QED
    BY <1>6, <1>7

LEMMA ReturnsKeepBrief ==
    ASSUME GatherIsBound, GIInv, g.name = "gather", Briefed, Drafted,
           NEW n \in Names(g), NodeReturns(n)
    PROVE  (Briefed /\ Drafted)'
<1>1. /\ UNCHANGED <<g, board, jumps, runs, finished, errors, wave>> /\ g \in Graphs
      /\ pc = "running" /\ pc' \in {"running", "merging"}
    BY DEF NodeReturns, GIInv, TypeOK
<1>2. \A m \in DOMAIN results' : results'[m] \in GatherOutcomes(m)
    <2>1. PICK out \in Outcomes(g, n, board) :
              results' = [m \in DOMAIN results \cup {n} |-> IF m = n THEN out ELSE results[m]]
        BY DEF NodeReturns
    <2>2. out \in GatherOutcomes(n)
        BY <1>1, <2>1, GatherShapes DEF GatherIsBound
    <2> QED
        BY <2>1, <2>2 DEF Briefed
<1>3. Asked("draft_digest")' <=> Asked("draft_digest")
    BY <1>1 DEF Asked, InWave
<1>4. Briefed'
    BY <1>1, <1>2 DEF Briefed
<1>5. Drafted'
    BY <1>1, <1>3 DEF Drafted, Looked
<1> QED
    BY <1>4, <1>5

\* A merge: what is asked for is what was, and what the merge asks for.
LEMMA MergesKeepDraft ==
    ASSUME GIInv, Accounts, pc = "merging", UNCHANGED <<g, runs>>, NextMerge,
           g \in Graphs, "draft_digest" \in Names(g)
    PROVE  /\ Looked("draft_digest")' /\ pc' # "ended"
           /\ jumps' = jumps => (Asked("draft_digest")' <=> Asked("draft_digest"))
<1>1. /\ pc' = "merging" \/ (pc' = "planning" /\ at' = 1)
      /\ wave' = wave \/ wave' = <<>>
    BY DEF NextMerge
<1>2. InWave("draft_digest") => runs["draft_digest"] > 0
    BY DEF InWave, Accounts
<1>3. InWave("draft_digest")' => runs["draft_digest"] > 0
    BY <1>1, <1>2 DEF InWave
<1>4. Looked("draft_digest")'
    BY <1>1 DEF Looked
<1> QED
    BY <1>1, <1>2, <1>3, <1>4 DEF Asked

LEMMA FailureKeepsBrief ==
    ASSUME GatherIsBound, GIInv, WritesKept, Accounts, g.name = "gather", Briefed, Drafted,
           MergeFailed
    PROVE  (Briefed /\ Drafted)'
<1>1. /\ UNCHANGED <<g, board, runs, results, finished>> /\ g \in Graphs /\ pc = "merging"
      /\ NextMerge /\ errors' = errors \cup {Merged} /\ results[Merged] = Failed
    BY DEF MergeFailed, Out, GIInv, TypeOK
<1>2. Merged \in Names(g) /\ Merged \in DOMAIN results /\ "draft_digest" \in Names(g)
    BY <1>1, GatherShapes DEF Merged, GIInv, TypeOK, StepsLeft, WritesKept
<1>3. Merged \notin ScanNames \cup {Engine}
    <2>1. Failed \in GatherOutcomes(Merged)
        BY <1>1, <1>2 DEF Briefed
    <2>2. Merged \notin ScanNames
        BY <2>1, GatherParts DEF GatherIsBound
    <2>3. Merged # Engine
        BY <1>1, <1>2, GatherShapes DEF ScanNames, Engine
    <2> QED
        BY <2>2, <2>3
<1>4. jumps' = jumps
    BY <1>1, <1>2, GatherShapes DEF MergeFailed
<1>5. Briefed'
    BY <1>1, <1>3, GatherParts DEF Briefed
<1>6. Drafted'
    BY <1>1, <1>2, <1>4, MergesKeepDraft DEF Drafted
<1> QED
    BY <1>5, <1>6
\* What a merge writes to the board of a briefing, and what it leaves.
LEMMA WhatIsMerged ==
    ASSUME GatherIsBound, GIInv, WritesKept, Accounts, NoneTwice, g.name = "gather", Briefed,
           MergeWritten
    PROVE  /\ Merged \in Names(g) /\ Merged \notin finished /\ runs[Merged] > 0
           /\ DOMAIN board' = DOMAIN board \cup KeysOf(Merged)
           /\ \A k \in DOMAIN board \ KeysOf(Merged) : board'[k] = board[k]
           /\ \A k \in KeysOf(Merged) \cap Counts : board'[k] \in Nat
<1>1. /\ g \in Graphs /\ pc = "merging" /\ NextMerge /\ path' = Append(path, Merged)
    BY DEF MergeWritten, NextMerge, GIInv, TypeOK
<1>2. Merged \in Names(g) /\ ToMerge(Merged) /\ runs[Merged] > 0
    BY <1>1, OneMoreRan DEF Accounts, Merged
<1>3. Single
    BY <1>1, GatherShapes DEF Single
<1>4. Merged \notin finished
    BY <1>2, <1>3 DEF NoneTwice, Accounts
<1>5. Out \in GatherOutcomes(Merged) /\ Out # Failed
    <2>1. Merged \in DOMAIN results
        BY <1>1, OneMoreRan DEF Merged, WritesKept
    <2> QED
        BY <2>1 DEF Briefed, Out, MergeWritten
<1>6. DOMAIN Out = KeysOf(Merged) /\ \A k \in KeysOf(Merged) \cap Counts : Out[k] \in Nat
    BY <1>1, <1>2, <1>5, GatherShapes, GatherWrites
<1>7. DOMAIN Out \cap Private = {}
    BY <1>1, <1>2, <1>5, GatherShapes DEF GatherIsBound
<1>8. PublicKeys(Out) = KeysOf(Merged)
    BY <1>6, <1>7 DEF PublicKeys
<1>9. board' = [k \in DOMAIN board \cup KeysOf(Merged) |->
                   IF k \in KeysOf(Merged) THEN Out[k] ELSE board[k]]
    BY <1>8 DEF MergeWritten
<1> QED
    BY <1>2, <1>4, <1>6, <1>9

LEMMA WritingKeepsBrief ==
    ASSUME GatherIsBound, GIInv, WritesKept, JoinInv, Accounts, NoneTwice, g.name = "gather",
           Briefed, Drafted, MergeWritten
    PROVE  (Briefed /\ Drafted)'
<1>1. /\ UNCHANGED <<g, runs, results>> /\ g \in Graphs /\ pc = "merging" /\ NextMerge
      /\ finished' = finished \cup {Merged}
      /\ IF Merged \in DOMAIN g.routers THEN Routed(board') ELSE EdgesFire
    BY DEF MergeWritten, GIInv, TypeOK
<1>2. /\ Names(g) = ScanNames \cup {"synthesize", "draft_digest"}
      /\ DOMAIN g.routers = {"synthesize"}
      /\ g.routers["synthesize"] = [propose |-> "draft_digest", quiet |-> END]
    BY <1>1, GatherShapes
<1>3. /\ Looked("draft_digest")' /\ pc' # "ended"
      /\ jumps' = jumps => (Asked("draft_digest")' <=> Asked("draft_digest"))
    BY <1>1, <1>2, MergesKeepDraft
<1>4. /\ Merged \in Names(g) /\ Merged \notin finished /\ runs[Merged] > 0
      /\ DOMAIN board' = DOMAIN board \cup KeysOf(Merged)
      /\ \A k \in DOMAIN board \ KeysOf(Merged) : board'[k] = board[k]
      /\ \A k \in KeysOf(Merged) \cap Counts : board'[k] \in Nat
    BY WhatIsMerged
<1>5. /\ "scan_github" \in finished' =>
             {"gh_open_prs", "gh_open_issues"} \subseteq DOMAIN board'
      /\ "scan_calendar" \in finished' => "cal_event_count" \in DOMAIN board'
    BY <1>1, <1>4 DEF Briefed, KeysOf
<1>6. \A k \in Counts : k \in DOMAIN board' => board'[k] \in Nat
    BY <1>4 DEF Briefed
<1>7. "digest" \in KeysOf(Merged) <=> Merged = "synthesize"
    BY <1>2, <1>4 DEF KeysOf, ScanNames
<1>8. "digest" \in DOMAIN board' <=> "synthesize" \in finished'
    BY <1>1, <1>4, <1>7 DEF Briefed
<1>9. CASE Merged = "synthesize"
    <2>1. NeedsAction(board') \in {"propose", "quiet"} /\ Label(g, Merged, board') = NeedsAction(board')
        BY <1>1, <1>9, GatherShapes DEF NeedsAction, GatherIsBound
    <2>2. /\ errors' = errors
          /\ jumps' = IF NeedsAction(board') = "propose" THEN Append(jumps, "draft_digest") ELSE jumps
        BY <1>1, <1>2, <1>9, <2>1 DEF Routed, END
    <2>3. ~Asked("draft_digest") /\ jumps \in Seq(STRING)
        BY <1>4, <1>9 DEF Drafted, GIInv, TypeOK
    <2>4. CASE NeedsAction(board') = "propose"
        <3>1. Len(jumps') \in 1..Len(jumps') /\ jumps'[Len(jumps')] = "draft_digest"
            BY <2>2, <2>3, <2>4
        <3>2. Asked("draft_digest")'
            BY <3>1 DEF Asked
        <3> QED
            BY <1>1, <1>3, <1>5, <1>6, <1>8, <1>9, <2>2, <2>4, <3>2 DEF Briefed, Drafted
    <2>5. CASE NeedsAction(board') # "propose"
        BY <1>1, <1>3, <1>5, <1>6, <1>8, <1>9, <2>2, <2>3, <2>5 DEF Briefed, Drafted
    <2> QED
        BY <2>4, <2>5
<1>10. CASE Merged # "synthesize"
    <2>1. jumps' = jumps /\ errors' = errors
        BY <1>1, <1>2, <1>10 DEF EdgesFire
    <2>2. Briefed'
        BY <1>1, <1>5, <1>6, <1>8, <2>1 DEF Briefed
    <2>3. "synthesize" \in finished' <=> "synthesize" \in finished
        BY <1>1, <1>10
    <2>4. ASSUME "synthesize" \in finished
          PROVE  NeedsAction(board') = NeedsAction(board)
        <3>1. runs["synthesize"] > 0
            BY <1>2, <2>4 DEF Accounts
        <3>2. Merged = "draft_digest"
            BY <1>2, <1>4, <1>10, <3>1, ScansComeFirst
        <3>3. KeysOf(Merged) \cap Counts = {}
            BY <3>2 DEF KeysOf, Counts
        <3>4. \A k \in Counts :
                  /\ k \in DOMAIN board' <=> k \in DOMAIN board
                  /\ k \in DOMAIN board => board'[k] = board[k]
            BY <1>4, <3>3
        <3> QED
            BY <3>4, SameCounts
    <2>5. Drafted'
        BY <1>3, <2>1, <2>3, <2>4 DEF Drafted
    <2> QED
        BY <2>2, <2>5
<1> QED
    BY <1>9, <1>10

BriefInv == Accounts /\ NoneTwice /\ (g.name = "gather" => Briefed /\ Drafted)

LEMMA StepKeepsBrief ==
    ASSUME GatherIsBound, GIInv, WritesKept, JoinInv, BriefInv, [Next]_vars
    PROVE  BriefInv'
<1>0. g' = g
    BY DEF Next, EngineStep, vars, PassOver, CutOff, Enlist, Drained, OutOfSteps, StartWave, NodeReturns,
           MergeFailed, Collision, MergeWritten
<1> SUFFICES ASSUME g.name = "gather" PROVE (Briefed /\ Drafted)'
    BY <1>0, StepKeepsAccounts DEF BriefInv
<1> USE DEF BriefInv
<1>1. CASE PassOver \/ CutOff \/ Enlist
    BY <1>1, PlanningKeepsBrief
<1>2. CASE Drained \/ OutOfSteps
    BY <1>2, EndingKeepsBrief
<1>3. CASE StartWave
    BY <1>3, StartKeepsBrief
<1>4. ASSUME NEW n \in Names(g), NodeReturns(n) PROVE (Briefed /\ Drafted)'
    BY <1>4, ReturnsKeepBrief
<1>5. CASE MergeFailed
    BY <1>5, FailureKeepsBrief
<1>6. CASE Collision
    <2>1. /\ UNCHANGED <<g, board, jumps, runs, results, finished, errors, wave>> /\ pc' = "collision"
        BY <1>6 DEF Collision
    <2> QED
        BY <2>1 DEF Briefed, Drafted, Asked, InWave, Looked
<1>7. CASE MergeWritten
    BY <1>7, WritingKeepsBrief
<1>8. CASE UNCHANGED vars
    BY <1>8 DEF vars, Briefed, Drafted, Asked, InWave, Looked
<1> QED
    BY <1>1, <1>2, <1>3, <1>4, <1>5, <1>6, <1>7, <1>8 DEF Next, EngineStep

LEMMA BriefsAreRight ==
    ASSUME GatherIsBound, GIInv, JoinInv, BriefInv
    PROVE  BriefingSpeaks
<1> SUFFICES ASSUME g.name = "gather", pc = "ended" PROVE
                 /\ "digest" \in DOMAIN board \/ "synthesize" \in errors
                 /\ "digest" \in DOMAIN board =>
                        (Ran("draft_digest") <=>
                            board["gh_open_prs"] + board["gh_open_issues"]
                                + board["cal_event_count"] > 0)
    BY DEF BriefingSpeaks
<1>0. g \in Graphs /\ Briefed /\ Drafted /\ Accounts
    BY DEF GIInv, TypeOK, BriefInv
<1>1. Names(g) = ScanNames \cup {"synthesize", "draft_digest"} /\ Engine \notin errors
    BY <1>0, GatherShapes DEF Briefed
<1>2. \A n \in Names(g) : ~ToMerge(n)
    BY DEF ToMerge
<1>3. \A n \in Names(g) \ JumpTargets : Deps(n) # {} =>
          (runs[n] = 1 <=> \A s \in Deps(n) \ {START} : s \in finished \ DOMAIN g.routers)
    BY <1>0, <1>1, JoinsAreRight, GatherShapes DEF JoinsRunOnTheirInputs
<1>4. ScanNames \cup {"synthesize"} \subseteq Names(g) \ JumpTargets
    BY <1>0, <1>1, GatherShapes, GatherParts DEF GatherIsBound, END, ScanNames
<1>5. ScanNames \subseteq finished
    <2> SUFFICES ASSUME NEW s \in ScanNames PROVE s \in finished
        OBVIOUS
    <2>1. runs[s] = 1
        BY <1>0, <1>3, <1>4, GatherShapes
    <2>2. Ran(s)
        BY <1>0, <1>1, <1>2, <2>1 DEF Accounts
    <2> QED
        BY <1>0, <1>1, <2>2, GatherParts DEF Accounts, Briefed
<1>6. "synthesize" \in finished \cup errors
    <2>1. Deps("synthesize") = ScanNames /\ DOMAIN g.routers = {"synthesize"}
        BY <1>0, GatherShapes
    <2>2. runs["synthesize"] = 1
        BY <1>3, <1>4, <1>5, <2>1 DEF ScanNames
    <2>3. Ran("synthesize")
        BY <1>0, <1>1, <1>2, <2>2 DEF Accounts
    <2> QED
        BY <1>0, <1>1, <2>3 DEF Accounts
<1>7. "digest" \in DOMAIN board \/ "synthesize" \in errors
    BY <1>0, <1>6 DEF Briefed
<1>8. ASSUME "digest" \in DOMAIN board
      PROVE  Ran("draft_digest") <=>
                 board["gh_open_prs"] + board["gh_open_issues"] + board["cal_event_count"] > 0
    <2>1. \A k \in Counts : k \in DOMAIN board /\ board[k] \in Nat
        BY <1>0, <1>5 DEF Briefed, Counts, ScanNames
    <2>2. NeedsAction(board) = "propose" <=>
              board["gh_open_prs"] + board["gh_open_issues"] + board["cal_event_count"] > 0
        BY <2>1 DEF NeedsAction, Counts
    <2>3. runs["draft_digest"] > 0 <=> NeedsAction(board) = "propose"
        BY <1>0, <1>8 DEF Briefed, Drafted, Asked
    <2>4. runs["draft_digest"] > 0 <=> Ran("draft_digest")
        BY <1>0, <1>1, <1>2 DEF Accounts
    <2> QED
        BY <2>2, <2>3, <2>4
<1> QED
    BY <1>7, <1>8

(***************************************************************************)
(* The morning briefing is never silent: whichever of its scans fail, its  *)
(* run ends with a digest or with the synthesis named as the error, and    *)
(* the draft is written exactly when something is pending -- in whatever   *)
(* company of graphs it is bound, with at least as many steps allowed as   *)
(* it has nodes (workflows/gather.rs, joyczl-cli/src/gather.rs).           *)
(***************************************************************************)
THEOREM BriefingsSpeak ==
    ASSUME GatherIsBound
    PROVE  Spec => []BriefingSpeaks
<1> DEFINE I == GIInv /\ WritesKept /\ JoinInv /\ BriefInv
<1>1. Init => I
    BY BoundsAtTheStart, NothingToKeep, JoinsAtTheStart, AccountsAtTheStart, BriefAtTheStart
    DEF BriefInv
<1>2. I /\ [Next]_vars => I'
    BY StepKeepsBounds, StepKeepsWrites, StepKeepsJoins, StepKeepsBrief
<1>3. I => BriefingSpeaks
    BY BriefsAreRight
<1> HIDE DEF I
<1> QED
    BY <1>1, <1>2, <1>3, PTL DEF Spec
=============================================================================
