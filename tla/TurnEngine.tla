----------------------------- MODULE TurnEngine -----------------------------
(***************************************************************************)
(* The control flow of a turn (run_turn and full_turn of                   *)
(* joyczl-app-server/src/turn.rs, run of joyczl-loop/src/lib.rs, goal.rs)  *)
(* with the humans beside it: they interrupt it, answer its questions      *)
(* (module Approvals) and set or clear the session's goal, all on the      *)
(* request loop, at any moment.                                            *)
(*                                                                         *)
(* One session; its turns run concurrently and share the goal.  A "run" is *)
(* one call of full_turn: the first one, and those a Stop hook or the goal *)
(* loop ask for.  The loop looks at the flag before a model call and       *)
(* before each tool of a response, and only then begins: looking and       *)
(* beginning are two steps.  A hook may be given its payload and never     *)
(* read it (hooks.rs writes it outside the time limit): the turn then      *)
(* waits for ever, unless the wait is one the interrupt races.             *)
(***************************************************************************)
EXTENDS Approvals

CONSTANTS
    Busy,        \* bound: the turns whose first run is a full one; only they use tools,
                 \* overflow, are held up or interrupted
    MaxIter,     \* settings.max_iterations
    MaxUses,     \* bound: the tools one response asks for
    MaxStops,    \* MAX_STOP_CONTINUATIONS
    MaxRounds,   \* settings.goal_max_rounds
    MaxGoals     \* bound: how often goal/set may set a goal

ASSUME EngineAssumption ==
    /\ Busy \subseteq Turns
    /\ MaxIter \in Nat \ {0}
    /\ MaxUses \in Nat
    /\ MaxStops \in Nat
    /\ MaxRounds \in Nat
    /\ MaxGoals \in Nat

VARIABLES
    pc,         \* where each turn is
    interrupt,  \* interrupt[t]: its Interrupt has been cancelled
    iter,       \* iter[t]: model calls of the current run
    wanted,     \* wanted[t]: tools of the current response not yet dealt with
    late,       \* late[t]: model calls and tools begun with the flag up
    retried,    \* retried[t]: the current run has compacted and started over
    stops,      \* stops[t]: continuations the Stop hook has had
    goal,       \* the session's goal; "over" stands for each of the terminal verdicts
    goals,      \* how many goals have been set
    target,     \* target[t]: the goal the turn's goal loop was entered for
    rounds,     \* rounds[t]: what bump returned to the turn
    continued   \* continued[t]: runs the goal loop has asked for with a goal there

NoGoal == [id |-> 0, rounds |-> 0, status |-> "none"]

runVars == <<iter, wanted, late, retried>>
goalVars == <<goal, goals, target, rounds, continued>>
vars == <<pc, interrupt, runVars, stops, goalVars, bridgeVars>>

Init ==
    /\ BridgeInit
    /\ pc = [t \in Turns |-> "new"]
    /\ interrupt = [t \in Turns |-> FALSE]
    /\ iter = [t \in Turns |-> 0]
    /\ wanted = [t \in Turns |-> 0]
    /\ late = [t \in Turns |-> 0]
    /\ retried = [t \in Turns |-> FALSE]
    /\ stops = [t \in Turns |-> 0]
    /\ goal = NoGoal
    /\ goals = 0
    /\ target = [t \in Turns |-> 0]
    /\ rounds = [t \in Turns |-> 0]
    /\ continued = [t \in Turns |-> 0]

Goto(t, from, to) ==
    /\ pc[t] = from
    /\ pc' = [pc EXCEPT ![t] = to]

\* The first run, and those of the Stop hook, lead to the Stop hook; those of
\* the goal loop lead straight back into it.
AfterRun(t) == IF target[t] = 0 THEN "stop" ELSE "bump"

\* joyczl_loop::run returns, and full_turn with it: their locals are gone.
EndRun(t) ==
    /\ iter' = [iter EXCEPT ![t] = 0]
    /\ wanted' = [wanted EXCEPT ![t] = 0]
    /\ retried' = [retried EXCEPT ![t] = FALSE]
    /\ UNCHANGED late

\* What is begun is counted as late when the flag is up already.
Begun(t) == late' = [late EXCEPT ![t] = IF interrupt[t] THEN @ + 1 ELSE @]

-----------------------------------------------------------------------------
(* Entering the turn                                                       *)

Start(t) ==
    /\ Goto(t, "new", "starting")
    /\ Register(t)
    /\ UNCHANGED <<interrupt, runVars, stops, goalVars>>

\* No such directory, or the SessionStart hook says no: the guard deregisters it.
Refused(t) ==
    /\ Goto(t, "starting", "done")
    /\ Finish(t)
    /\ UNCHANGED <<interrupt, runVars, stops, goalVars>>

FullTurn(t) ==
    /\ t \in Busy
    /\ Goto(t, "starting", "call")
    /\ UNCHANGED <<interrupt, runVars, stops, goalVars, bridgeVars>>

\* The triage graph answered by itself, with no loop and no tools.
QuickReply(t) ==
    /\ Goto(t, "starting", "stop")
    /\ UNCHANGED <<interrupt, runVars, stops, goalVars, bridgeVars>>

-----------------------------------------------------------------------------
(* joyczl_loop::run: the model                                             *)

\* The flag is down and there are iterations left: a request is made up.
MayCall(t) ==
    /\ ~interrupt[t]
    /\ iter[t] < MaxIter
    /\ Goto(t, "call", "sending")
    /\ UNCHANGED <<interrupt, runVars, stops, goalVars, bridgeVars>>

CallModel(t) ==
    /\ Goto(t, "sending", "model")
    /\ iter' = [iter EXCEPT ![t] = @ + 1]
    /\ Begun(t)
    /\ UNCHANGED <<interrupt, wanted, retried, stops, goalVars, bridgeVars>>

OutOfIterations(t) ==
    /\ iter[t] = MaxIter
    /\ Goto(t, "call", AfterRun(t))
    /\ EndRun(t)
    /\ UNCHANGED <<interrupt, stops, goalVars, bridgeVars>>

\* The model answered in words.
ModelSpeaks(t) ==
    /\ Goto(t, "model", AfterRun(t))
    /\ EndRun(t)
    /\ UNCHANGED <<interrupt, stops, goalVars, bridgeVars>>

ModelWantsTools(t) ==
    /\ t \in Busy
    /\ Goto(t, "model", "tool")
    /\ \E n \in 1..MaxUses : wanted' = [wanted EXCEPT ![t] = n]
    /\ UNCHANGED <<interrupt, iter, late, retried, stops, goalVars, bridgeVars>>

\* Context overflow, once per run: compact and start over.
Overflow(t) ==
    /\ t \in Busy
    /\ ~retried[t]
    /\ Goto(t, "model", "call")
    /\ iter' = [iter EXCEPT ![t] = 0]
    /\ retried' = [retried EXCEPT ![t] = TRUE]
    /\ UNCHANGED <<interrupt, wanted, late, stops, goalVars, bridgeVars>>

\* Any other error ends the turn, and the StopFailure hook is told.
ModelFails(t) ==
    /\ Goto(t, "model", "failing")
    /\ EndRun(t)
    /\ UNCHANGED <<interrupt, stops, goalVars, bridgeVars>>

\* The guard's Drop deregisters it.
GivesUp(t) ==
    /\ Goto(t, "failing", "done")
    /\ Finish(t)
    /\ UNCHANGED <<interrupt, runVars, stops, goalVars>>

-----------------------------------------------------------------------------
(* joyczl_loop::run: the tools of a response, one after the other          *)

\* Mutant: the flag is not looked at between the tools of a response.
UseRegardless(t) ==
    /\ Goto(t, "tool", "taken")
    /\ UNCHANGED <<interrupt, runVars, stops, goalVars, bridgeVars>>

MayUseTool(t) ==
    /\ ~interrupt[t]
    /\ Goto(t, "tool", "taken")
    /\ UNCHANGED <<interrupt, runVars, stops, goalVars, bridgeVars>>

\* execute: the PreToolUse hook is fired and awaited.
BeginTool(t) ==
    /\ Goto(t, "taken", "gate")
    /\ Begun(t)
    /\ UNCHANGED <<interrupt, iter, wanted, retried, stops, goalVars, bridgeVars>>

\* No such tool, arguments that do not fit, or the hook says no.
ToolRefused(t) ==
    /\ Goto(t, "gate", "output")
    /\ UNCHANGED <<interrupt, runVars, stops, goalVars, bridgeVars>>

\* A tool that needs nobody's consent.
RunFreely(t) ==
    /\ Goto(t, "gate", "running")
    /\ UNCHANGED <<interrupt, runVars, stops, goalVars, bridgeVars>>

AskFirst(t) ==
    /\ Goto(t, "gate", "asking")
    /\ Request(t)
    /\ UNCHANGED <<interrupt, runVars, stops, goalVars>>

Asking(t) ==
    /\ pc[t] = "asking"
    /\ Hear(t) \/ TimeOut(t)
    /\ UNCHANGED <<pc, interrupt, runVars, stops, goalVars>>

\* pass_gate got its answer: run the command, or report the refusal.
Decided(t) ==
    /\ \E written \in BOOLEAN : Settle(t, written)
    /\ Goto(t, "asking", IF bridge[t] = "approved" THEN "running" ELSE "after")
    /\ UNCHANGED <<interrupt, runVars, stops, goalVars>>

\* The handler returned; the PostToolUse hook is fired and awaited.
ToolEnds(t) ==
    /\ Goto(t, "running", "after")
    /\ UNCHANGED <<interrupt, runVars, stops, goalVars, bridgeVars>>

HookReturns(t) ==
    /\ Goto(t, "after", "output")
    /\ UNCHANGED <<interrupt, runVars, stops, goalVars, bridgeVars>>

\* The output is taken down; the next tool, or the results go to the model.
TakeOutput(t) ==
    /\ Goto(t, "output", IF wanted[t] > 1 THEN "tool" ELSE "call")
    /\ wanted' = [wanted EXCEPT ![t] = @ - 1]
    /\ UNCHANGED <<interrupt, iter, late, retried, stops, goalVars, bridgeVars>>

\* The flag is seen up before a beginning, or the cancellation wins a select!.
Interrupted(t) ==
    /\ interrupt[t]
    /\ pc[t] \in {"call", "sending", "model", "tool", "taken", "gate", "asking", "running",
                  "after", "hung"}
    /\ pc' = [pc EXCEPT ![t] = AfterRun(t)]
    /\ EndRun(t)
    /\ IF bridge[t] = "idle" THEN UNCHANGED bridgeVars ELSE Drop(t)
    /\ UNCHANGED <<interrupt, stops, goalVars>>

-----------------------------------------------------------------------------
(* After a run: the Stop hook, then the goal loop                          *)

StopAccepts(t) ==
    /\ Goto(t, "stop", "goal")
    /\ UNCHANGED <<interrupt, runVars, stops, goalVars, bridgeVars>>

\* The hook wants more, and gets it MaxStops times: full_turn afresh.
StopBlocks(t) ==
    /\ t \in Busy
    /\ stops[t] < MaxStops
    /\ Goto(t, "stop", "call")
    /\ stops' = [stops EXCEPT ![t] = @ + 1]
    /\ UNCHANGED <<interrupt, runVars, goalVars, bridgeVars>>

EnterGoalLoop(t) ==
    /\ goal.status = "active"
    /\ Goto(t, "goal", "bump")
    /\ target' = [target EXCEPT ![t] = goal.id]
    /\ UNCHANGED <<interrupt, runVars, stops, goal, goals, rounds, continued, bridgeVars>>

NoGoalToPursue(t) ==
    /\ goal.status # "active"
    /\ Goto(t, "goal", "append")
    /\ UNCHANGED <<interrupt, runVars, stops, goalVars, bridgeVars>>

\* goal::bump: whatever goal is there now; 0 if there is none.  The judge is
\* then asked, interrupted or not.
Bump(t) ==
    /\ Goto(t, "bump", "judge")
    /\ goal' = IF goal.status = "none" THEN goal ELSE [goal EXCEPT !.rounds = @ + 1]
    /\ rounds' = [rounds EXCEPT ![t] = goal'.rounds]
    /\ UNCHANGED <<interrupt, runVars, stops, goals, target, continued, bridgeVars>>

\* goal::finish stamps whatever goal is there.
Stamp == goal' = IF goal.status = "none" THEN goal ELSE [goal EXCEPT !.status = "over"]

\* Satisfied, impossible, blocked (the judge failed), or the limit is reached.
Concludes(t) ==
    /\ Goto(t, "judge", "append")
    /\ Stamp
    /\ UNCHANGED <<interrupt, runVars, stops, goals, target, rounds, continued, bridgeVars>>

\* Not there yet: full_turn afresh, with the judge's reason for a message.
Continues(t) ==
    /\ rounds[t] < MaxRounds
    /\ Goto(t, "judge", "call")
    /\ continued' = [continued EXCEPT ![t] = IF rounds[t] > 0 THEN @ + 1 ELSE @]
    /\ UNCHANGED <<interrupt, runVars, stops, goal, goals, target, rounds, bridgeVars>>

\* append_exchange and what follows it, or its failure; then the guard.
StoreReply(t) ==
    /\ Goto(t, "append", "done")
    /\ Finish(t)
    /\ UNCHANGED <<interrupt, runVars, stops, goalVars>>

-----------------------------------------------------------------------------
(* The hooks                                                               *)

\* StopFailure is fired when the first run fails; an error of a later one is
\* returned at once.
FirstRun(t) == stops[t] = 0 /\ target[t] = 0

\* SessionStart, PreCompact and PostCompact (as a run's history is loaded),
\* Stop, StopFailure: nothing races the wait.
HookHolds(t) ==
    /\ t \in Busy
    /\ \/ pc[t] \in {"starting", "stop"}
       \/ pc[t] = "failing" /\ FirstRun(t)
       \/ pc[t] = "call" /\ iter[t] = 0
    /\ pc' = [pc EXCEPT ![t] = "held"]
    /\ UNCHANGED <<interrupt, runVars, stops, goalVars, bridgeVars>>

\* PreToolUse, PostToolUse: the tool's future races the interrupt.
ToolHookHolds(t) ==
    /\ t \in Busy
    /\ pc[t] \in {"gate", "after"}
    /\ pc' = [pc EXCEPT ![t] = "hung"]
    /\ UNCHANGED <<interrupt, runVars, stops, goalVars, bridgeVars>>

-----------------------------------------------------------------------------
(* The humans                                                              *)

Interrupt(t) ==
    /\ t \in Busy
    /\ t \in live
    /\ interrupt' = [interrupt EXCEPT ![t] = TRUE]
    /\ UNCHANGED <<pc, runVars, stops, goalVars, bridgeVars>>

SetGoal ==
    /\ goals < MaxGoals
    /\ goals' = goals + 1
    /\ goal' = [id |-> goals + 1, rounds |-> 0, status |-> "active"]
    /\ UNCHANGED <<pc, interrupt, runVars, stops, target, rounds, continued, bridgeVars>>

\* At any moment, a goal being pursued included.
ClearGoal ==
    /\ goal' = NoGoal
    /\ UNCHANGED <<pc, interrupt, runVars, stops, goals, target, rounds, continued, bridgeVars>>

AnswerQuestion ==
    /\ Answer
    /\ UNCHANGED <<pc, interrupt, runVars, stops, goalVars>>

-----------------------------------------------------------------------------
TurnStep(t) ==
    \/ Start(t)
    \/ Refused(t)
    \/ FullTurn(t)
    \/ QuickReply(t)
    \/ MayCall(t)
    \/ CallModel(t)
    \/ OutOfIterations(t)
    \/ ModelSpeaks(t)
    \/ ModelWantsTools(t)
    \/ Overflow(t)
    \/ ModelFails(t)
    \/ GivesUp(t)
    \/ MayUseTool(t)
    \/ BeginTool(t)
    \/ ToolRefused(t)
    \/ RunFreely(t)
    \/ AskFirst(t)
    \/ Asking(t)
    \/ Decided(t)
    \/ ToolEnds(t)
    \/ HookReturns(t)
    \/ TakeOutput(t)
    \/ Interrupted(t)
    \/ StopAccepts(t)
    \/ StopBlocks(t)
    \/ EnterGoalLoop(t)
    \/ NoGoalToPursue(t)
    \/ Bump(t)
    \/ Concludes(t)
    \/ Continues(t)
    \/ StoreReply(t)

Human ==
    \/ \E t \in Turns : Interrupt(t)
    \/ SetGoal
    \/ ClearGoal
    \/ AnswerQuestion

Hook == \E t \in Turns : HookHolds(t) \/ ToolHookHolds(t)

AllDone ==
    /\ \A t \in Turns : pc[t] \in {"done", "held"}
    /\ UNCHANGED vars

Next == AllDone \/ Human \/ Hook \/ \E t \in Turns : TurnStep(t)

Spec == Init /\ [][Next]_vars

(***************************************************************************)
(* A turn is a task: it is polled whenever it can move.  Model calls and   *)
(* the judge end by the HTTP timeout, tools by their own, questions by     *)
(* JOY_APPROVAL_TIMEOUT.  A hook may hold the turn instead.  No human is   *)
(* expected to do anything.                                                *)
(***************************************************************************)
FairSpec == Spec /\ \A t \in Turns : WF_vars(TurnStep(t))

-----------------------------------------------------------------------------
Positions ==
    {"new", "starting", "call", "sending", "model", "failing", "tool", "taken", "gate", "asking",
     "running", "after", "output", "hung", "held", "stop", "goal", "bump", "judge", "append", "done"}

EngineTypeOK ==
    /\ pc \in [Turns -> Positions]
    /\ interrupt \in [Turns -> BOOLEAN]
    /\ iter \in [Turns -> 0..MaxIter]
    /\ wanted \in [Turns -> 0..MaxUses]
    /\ late \in [Turns -> Nat]
    /\ retried \in [Turns -> BOOLEAN]
    /\ stops \in [Turns -> 0..MaxStops]
    /\ goal \in [id : 0..MaxGoals, rounds : Nat, status : {"none", "active", "over"}]
    /\ goals \in 0..MaxGoals
    /\ target \in [Turns -> 0..MaxGoals]
    /\ rounds \in [Turns -> Nat]
    /\ continued \in [Turns -> Nat]

TypeOK == BridgeTypeOK /\ EngineTypeOK

(***************************************************************************)
(* The engine drives the approval bridge only in ways the bridge allows:   *)
(* whatever is proved of BridgeSpec holds of the turns.                    *)
(***************************************************************************)
DrivesBridge == BridgeSpec

(***************************************************************************)
(* loop lib.rs, the check before a call and before each tool: of all the   *)
(* model calls and tools of an interrupted turn, over the runs the Stop    *)
(* hook and the goal loop add, at most one is begun with the flag up: the  *)
(* one the loop had looked at the flag for when it went up.  (The judge is *)
(* no part of the loop and is asked all the same.)                         *)
(***************************************************************************)
OneStepAfterInterrupt == \A t \in Turns : late[t] <= 1

(***************************************************************************)
(* A turn is continued fewer times than the limit, for each goal the human *)
(* sets: "JOY_GOAL_MAX_ROUNDS (default 5)" (goal.rs).  Rounds after the    *)
(* goal has been cleared are not counted: there the limit does not bite.   *)
(***************************************************************************)
ContinuationsBounded ==
    \A t \in Turns : continued[t] > 0 => continued[t] <= (MaxRounds - 1) * goals

\* The goal loop goes on although its goal is gone: bump returned 0.
Adrift(t) == pc[t] = "judge" /\ rounds[t] = 0

(***************************************************************************)
(* Every turn ends, wherever interrupts, new goals and late answers find   *)
(* it: the Stop hook, the goal loop, the retry and the questions are all   *)
(* bounded, and no human is needed to get it moving.  What may keep it are *)
(* a hook that never reads its payload, and a goal cleared while pursued,  *)
(* whose rounds are counted no more.                                       *)
(***************************************************************************)
TurnsEnd ==
    \A t \in Turns : pc[t] # "new" ~> (pc[t] \in {"done", "held", "hung"} \/ Adrift(t))
=============================================================================
