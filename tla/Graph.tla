------------------------------- MODULE Graph -------------------------------
(***************************************************************************)
(* The graph engine (joyczl-graph/src/lib.rs): nodes, edges, waves.        *)
(*                                                                         *)
(* A wave is planned -- nodes that were jumped to, then nodes all of whose *)
(* inputs have fired --, its nodes run at once on one snapshot of the      *)
(* board, and what they wrote is merged in wave order; every merge fires   *)
(* edges or asks a router.  Planning and merging go name by name, nodes    *)
(* return in any order.                                                    *)
(*                                                                         *)
(* A graph is a record: name, nodes (in insertion order), edges (pairs),   *)
(* visits (max_visits by node), onError (a node or NoNode), routers (by    *)
(* node, a function from labels to targets), board and carried (the state  *)
(* it starts on and the nodes with an error in it).                        *)
(***************************************************************************)
EXTENDS Integers, Sequences, FiniteSets

CONSTANTS
    Graphs,           \* the graphs that may be run
    MaxSteps,         \* max_steps
    Private,          \* the keys with a leading underscore
    NoNode,           \* no on_error
    Failed,           \* what a node returns instead of writes
    Outcomes(_, _, _),\* what node n of graph g may return on a board
    MayHang(_, _),    \* node n of graph g awaits something without a limit
    Label(_, _, _)    \* what the router of n says on a board

START == "START"
END == "END"
Engine == "engine"    \* the engine's own entry among the errors

Names(h) == {h.nodes[i] : i \in 1..Len(h.nodes)}

\* What add_node, add_edge and add_router refuse cannot be built.
WellFormed(h) ==
    /\ h.nodes \in Seq(STRING \ {START, END})
    /\ h.edges \subseteq (Names(h) \cup {START, END}) \X (Names(h) \cup {START, END})
    /\ DOMAIN h.routers \subseteq Names(h)
    /\ \A n \in DOMAIN h.routers : \A l \in DOMAIN h.routers[n] :
           h.routers[n][l] \in Names(h) \cup {END}
    /\ h.visits \in [Names(h) -> Nat]
    /\ h.onError \in [Names(h) -> STRING \cup {NoNode}]
    /\ h.carried \subseteq STRING

ASSUME GraphAssumption ==
    /\ MaxSteps \in Nat
    /\ \A h \in Graphs : WellFormed(h)

VARIABLES
    g,        \* the graph being run
    pc,       \* planning, running or merging a wave; ended; collision
    at,       \* how far planning or merging has got
    board,    \* the shared state: a function from the keys written
    fired,    \* the static edges fired
    runs,     \* runs[n]: how often n was started
    path,     \* the nodes merged, in order
    errors,   \* the names with an error
    jumps,    \* the jumps asked for by the wave merged last
    wave,     \* the wave
    results,  \* what its nodes have returned
    wrote,    \* wave_writes: the keys merged in this wave
    finished  \* history: the nodes that returned writes

vars == <<g, pc, at, board, fired, runs, path, errors, jumps, wave, results, wrote, finished>>

\* START fires its own edges before the first wave is planned.
Init ==
    /\ g \in Graphs
    /\ pc = "planning" /\ at = 1
    /\ board = g.board
    /\ fired = {e \in g.edges : e[1] = START}
    /\ runs = [n \in Names(g) |-> 0]
    /\ path = <<>> /\ jumps = <<>> /\ wave = <<>>
    /\ errors = g.carried
    /\ results = <<>> /\ wrote = {} /\ finished = {}

-----------------------------------------------------------------------------
(* next_wave                                                               *)

Deps(n) == {e[1] : e \in {d \in g.edges : d[2] = n}}

\* Mutant: one input is enough.
ReadyOnAny(n) == \E s \in Deps(n) : <<s, n>> \in fired /\ runs[n] = 0

Ready(n) ==
    /\ Deps(n) # {}
    /\ \A s \in Deps(n) : <<s, n>> \in fired
    /\ runs[n] = 0

Candidates == jumps \o g.nodes
Candidate == Candidates[at]
InWave(n) == \E i \in 1..Len(wave) : wave[i] = n

Eligible ==
    /\ at > Len(jumps) => Ready(Candidate)
    /\ Candidate \in Names(g)
    /\ ~InWave(Candidate)

Planning == pc = "planning" /\ at <= Len(Candidates)

PassOver ==
    /\ Planning
    /\ ~Eligible
    /\ at' = at + 1
    /\ UNCHANGED <<g, pc, board, fired, runs, path, errors, jumps, wave, results, wrote, finished>>

\* A node out of visits is an error, not a crash.
CutOff ==
    /\ Planning
    /\ Eligible
    /\ runs[Candidate] >= g.visits[Candidate]
    /\ at' = at + 1
    /\ errors' = errors \cup {Candidate}
    /\ UNCHANGED <<g, pc, board, fired, runs, path, jumps, wave, results, wrote, finished>>

\* Mutant: one visit too many.
EnlistOnceMore ==
    /\ Planning
    /\ Eligible
    /\ runs[Candidate] <= g.visits[Candidate]
    /\ at' = at + 1
    /\ wave' = Append(wave, Candidate)
    /\ UNCHANGED <<g, pc, board, fired, runs, path, errors, jumps, results, wrote, finished>>

Enlist ==
    /\ Planning
    /\ Eligible
    /\ runs[Candidate] < g.visits[Candidate]
    /\ at' = at + 1
    /\ wave' = Append(wave, Candidate)
    /\ UNCHANGED <<g, pc, board, fired, runs, path, errors, jumps, results, wrote, finished>>

-----------------------------------------------------------------------------
(* run_graph                                                               *)

Planned == pc = "planning" /\ at > Len(Candidates)

Drained ==
    /\ Planned
    /\ wave = <<>>
    /\ pc' = "ended"
    /\ UNCHANGED <<g, at, board, fired, runs, path, errors, jumps, wave, results, wrote, finished>>

\* Mutant: the error is noted, the loop not left.
OutOfStepsGoesOn ==
    /\ Planned
    /\ wave # <<>>
    /\ Len(path) + Len(wave) > MaxSteps
    /\ errors' = errors \cup {Engine}
    /\ UNCHANGED <<g, pc, at, board, fired, runs, path, jumps, wave, results, wrote, finished>>

OutOfSteps ==
    /\ Planned
    /\ wave # <<>>
    /\ Len(path) + Len(wave) > MaxSteps
    /\ pc' = "ended"
    /\ errors' = errors \cup {Engine}
    /\ UNCHANGED <<g, at, board, fired, runs, path, jumps, wave, results, wrote, finished>>

StartWave ==
    /\ Planned
    /\ wave # <<>>
    /\ Len(path) + Len(wave) <= MaxSteps
    /\ pc' = "running" /\ at' = 1
    /\ runs' = [n \in Names(g) |-> runs[n] + (IF InWave(n) THEN 1 ELSE 0)]
    /\ jumps' = <<>> /\ results' = <<>> /\ wrote' = {}
    /\ UNCHANGED <<g, board, fired, path, errors, wave, finished>>

\* run_wave: all on the snapshot the wave began with; done when all are.
NodeReturns(n) ==
    /\ pc = "running"
    /\ InWave(n)
    /\ n \notin DOMAIN results
    /\ \E out \in Outcomes(g, n, board) :
           results' = [m \in DOMAIN results \cup {n} |-> IF m = n THEN out ELSE results[m]]
    /\ pc' = IF \A i \in 1..Len(wave) : wave[i] \in DOMAIN results' THEN "merging" ELSE pc
    /\ UNCHANGED <<g, at, board, fired, runs, path, errors, jumps, wave, wrote, finished>>

Merged == wave[at]
Out == results[Merged]
PublicKeys(out) == DOMAIN out \ Private

\* The merge of one node is over; after the last the next wave is planned.
NextMerge ==
    /\ path' = Append(path, Merged)
    /\ IF at < Len(wave)
       THEN at' = at + 1 /\ UNCHANGED <<pc, wave>>
       ELSE at' = 1 /\ pc' = "planning" /\ wave' = <<>>

\* No on_error: nothing fires, the run drains.
MergeFailed ==
    /\ pc = "merging"
    /\ Out = Failed
    /\ errors' = errors \cup {Merged}
    /\ jumps' = IF g.onError[Merged] = NoNode THEN jumps ELSE Append(jumps, g.onError[Merged])
    /\ NextMerge
    /\ UNCHANGED <<g, board, fired, runs, results, wrote, finished>>

\* Mutant: never a collision, the later write stays.
NeverCollides == FALSE

Collides == PublicKeys(Out) \cap wrote # {}

\* Two nodes of a wave wrote one key: the run is abandoned.
Collision ==
    /\ pc = "merging"
    /\ Out # Failed
    /\ Collides
    /\ pc' = "collision"
    /\ path' = Append(path, Merged)
    /\ UNCHANGED <<g, at, board, fired, runs, errors, jumps, wave, results, wrote, finished>>

\* The router of a node sees what the wave has merged so far.
Routed(new) ==
    LET label == Label(g, Merged, new)
        targets == g.routers[Merged]
    IN IF label \notin DOMAIN targets
       THEN errors' = errors \cup {Merged} /\ UNCHANGED <<fired, jumps>>
       ELSE /\ jumps' = IF targets[label] = END THEN jumps ELSE Append(jumps, targets[label])
            /\ UNCHANGED <<errors, fired>>

EdgesFire ==
    /\ fired' = fired \cup {e \in g.edges : e[1] = Merged /\ e[2] # END}
    /\ UNCHANGED <<errors, jumps>>

MergeWritten ==
    /\ pc = "merging"
    /\ Out # Failed
    /\ ~Collides
    /\ board' = [k \in DOMAIN board \cup PublicKeys(Out) |->
                    IF k \in PublicKeys(Out) THEN Out[k] ELSE board[k]]
    /\ wrote' = wrote \cup PublicKeys(Out)
    /\ finished' = finished \cup {Merged}
    /\ IF Merged \in DOMAIN g.routers THEN Routed(board') ELSE EdgesFire
    /\ NextMerge
    /\ UNCHANGED <<g, runs, results>>

-----------------------------------------------------------------------------
EngineStep ==
    \/ PassOver
    \/ CutOff
    \/ Enlist
    \/ Drained
    \/ OutOfSteps
    \/ StartWave
    \/ MergeFailed
    \/ Collision
    \/ MergeWritten

Next ==
    \/ EngineStep
    \/ \E n \in Names(g) : NodeReturns(n)

Spec == Init /\ [][Next]_vars

\* The engine's own steps go on, and so do the nodes that await nothing or
\* something with a limit.  run_wave itself has none: a node that may hang
\* need not return.
Progress ==
    \/ EngineStep
    \/ \E n \in Names(g) : ~MayHang(g, n) /\ NodeReturns(n)

FairSpec == Spec /\ WF_vars(Progress)

-----------------------------------------------------------------------------
TypeOK ==
    /\ g \in Graphs
    /\ pc \in {"planning", "running", "merging", "ended", "collision"}
    /\ at \in Nat \ {0}
    /\ fired \subseteq g.edges
    /\ runs \in [Names(g) -> Nat]
    /\ path \in Seq(Names(g))
    /\ jumps \in Seq(STRING)
    /\ wave \in Seq(Names(g))

Count(seq, n) == Cardinality({i \in 1..Len(seq) : seq[i] = n})

(***************************************************************************)
(* The two guards of run_graph and next_wave hold together, however        *)
(* routers and error edges loop: no node is started more than max_visits   *)
(* times and no run is longer than max_steps.                              *)
(***************************************************************************)
LoopsAreBounded ==
    /\ \A n \in Names(g) : runs[n] <= g.visits[n]
    /\ Len(path) <= MaxSteps

(***************************************************************************)
(* A node runs on its inputs exactly when all of them have finished and    *)
(* pass control on: not when one failed or went to its router instead, and *)
(* never is it left out (next_wave).  Said of nodes that nothing jumps to. *)
(***************************************************************************)
JumpTargets ==
    (UNION {{g.routers[n][l] : l \in DOMAIN g.routers[n]} : n \in DOMAIN g.routers})
        \cup {g.onError[n] : n \in Names(g)}

JoinsRunOnTheirInputs ==
    pc = "ended" /\ Engine \notin errors =>
        \A n \in Names(g) \ JumpTargets :
            Deps(n) # {} /\ g.visits[n] > 0 =>
                (runs[n] = 1 <=>
                    \A s \in Deps(n) \ {START} : s \in finished \ DOMAIN g.routers)

(***************************************************************************)
(* No write of a parallel node is lost without a word: when a wave has     *)
(* been merged, the board holds what every one of its nodes wrote, or the  *)
(* run was abandoned as a collision (module doc of lib.rs).                *)
(***************************************************************************)
NoWriteLost ==
    pc \in {"planning", "ended"} =>
        \A n \in DOMAIN results :
            results[n] # Failed =>
                \A k \in PublicKeys(results[n]) : board[k] = results[n][k]

(***************************************************************************)
(* Every run ends (run_graph's loop), whatever the nodes return, unless a  *)
(* wave waits for ever for a node that has no limit (run_wave), and then   *)
(* for nothing else.                                                       *)
(***************************************************************************)
HeldUp ==
    /\ pc = "running"
    /\ \A i \in 1..Len(wave) : wave[i] \in DOMAIN results \/ MayHang(g, wave[i])

RunEnds == <>(pc \in {"ended", "collision"}) \/ <>[]HeldUp
=============================================================================
