-------------------------- MODULE TurnEngineProofs --------------------------
(***************************************************************************)
(* Proofs about the approval bridge (Approvals) and the turn engine that   *)
(* drives it (TurnEngine), for every set of turns, every number of         *)
(* questions and every limit.                                              *)
(*                                                                         *)
(* The bridge: a tool goes ahead only on a human's yes to that very        *)
(* question, no question outlives its turn, and the audit is true.         *)
(* The engine: it drives the bridge as the bridge allows, so the same      *)
(* holds of the turns; it is well typed; an interrupt bites wherever it    *)
(* lands; and a turn is continued within the limits as long as nobody      *)
(* clears the goal it is pursuing.                                         *)
(***************************************************************************)
EXTENDS Integers, TurnEngine, TLAPS

-----------------------------------------------------------------------------
(* The bridge                                                              *)

\* Requests are numbered by the counter; none beyond it has been asked.
Numbered ==
    /\ \A r \in Requests : r > counter => channel[r] = "unused"
    /\ \A t \in Turns : current[t] <= counter

\* No two turns have asked the same question.
OwnQuestions ==
    \A t, u \in Turns : t # u => current[t] = 0 \/ current[t] # current[u]

\* What a pending bridge knows of its question.
BridgeKnows ==
    \A t \in Turns :
        /\ bridge[t] # "idle" => current[t] \in Requests
        /\ bridge[t] = "waiting" => channel[current[t]] \in {"open", "yes", "no", "closed"}
        /\ bridge[t] \in Outcomes => channel[current[t]] = Heard[bridge[t]]

\* A yes was accepted from its answerer; the tool and the audit were told what
\* the channel held.
Told ==
    /\ \A r \in Requests : channel[r] = "yes" => r \in accepted
    /\ \A r \in granted : channel[r] = "yes"
    /\ AuditIsTrue

BridgeIInv ==
    /\ BridgeTypeOK
    /\ Numbered
    /\ OwnQuestions
    /\ BridgeKnows
    /\ Told
    /\ NoQuestionOutlivesItsTurn

\* Nothing has been asked yet.
LEMMA InitBridgeIInv == BridgeInit => BridgeIInv
BY MaxRequestsAssumption DEF BridgeInit, BridgeIInv, BridgeTypeOK, Numbered, OwnQuestions,
   BridgeKnows, Told, AuditIsTrue, NoQuestionOutlivesItsTurn, Requests, Outcomes

\* register_turn disturbs no question.
LEMMA RegisterKeepsIInv ==
    ASSUME NEW t \in Turns, BridgeIInv, Register(t)
    PROVE  BridgeIInv'
BY DEF Register, BridgeIInv, BridgeTypeOK, Numbered, OwnQuestions, BridgeKnows, Told,
   AuditIsTrue, NoQuestionOutlivesItsTurn

\* finish_turn closes what the turn left open, and only that.
LEMMA FinishKeepsIInv ==
    ASSUME NEW t \in Turns, BridgeIInv, Finish(t)
    PROVE  BridgeIInv'
<1> USE DEF BridgeIInv
<1>1. BridgeTypeOK'
  BY DEF Finish, BridgeTypeOK
<1>2. \A r \in Requests : channel'[r] = channel[r] \/ (channel[r] = "open" /\ channel'[r] = "closed")
  BY DEF Finish
<1>3. UNCHANGED <<counter, current, bridge, accepted, audit, granted>>
  BY DEF Finish
<1>4. Numbered' /\ OwnQuestions'
  BY <1>2, <1>3 DEF Numbered, OwnQuestions
<1>5. BridgeKnows'
  BY <1>2, <1>3 DEF BridgeKnows, Heard, Outcomes, BridgeTypeOK
<1>6. Told'
  BY <1>2, <1>3 DEF Told, AuditIsTrue, Heard, Outcomes, BridgeTypeOK
<1>7. NoQuestionOutlivesItsTurn'
  BY DEF Finish, NoQuestionOutlivesItsTurn, BridgeTypeOK
<1> QED
  BY <1>1, <1>4, <1>5, <1>6, <1>7

\* A new question has a number nobody has used.
LEMMA RequestKeepsIInv ==
    ASSUME NEW t \in Turns, BridgeIInv, Request(t)
    PROVE  BridgeIInv'
<1> USE DEF BridgeIInv
<1> DEFINE q == counter + 1
<1>1. q \in Requests /\ q > counter
  BY MaxRequestsAssumption DEF Request, BridgeTypeOK, Requests
<1>2. channel[q] = "unused"
  BY <1>1 DEF Numbered
<1>3. BridgeTypeOK'
  BY <1>1, MaxRequestsAssumption DEF Request, BridgeTypeOK, Requests
<1>4. /\ channel' = [channel EXCEPT ![q] = "open"]
      /\ current' = [current EXCEPT ![t] = q]
      /\ bridge' = [bridge EXCEPT ![t] = "waiting"]
      /\ counter' = q
      /\ UNCHANGED <<accepted, audit, granted>>
  BY DEF Request
<1>5. Numbered'
  BY <1>1, <1>4 DEF Numbered, BridgeTypeOK, Requests
<1>6. OwnQuestions'
  BY <1>1, <1>4 DEF OwnQuestions, Numbered, BridgeTypeOK
<1>7. BridgeKnows'
  BY <1>1, <1>2, <1>4 DEF BridgeKnows, Heard, Outcomes, BridgeTypeOK
<1>8. Told'
  BY <1>2, <1>4 DEF Told, AuditIsTrue, Heard, Outcomes, BridgeTypeOK
<1>9. NoQuestionOutlivesItsTurn'
  BY DEF Request, NoQuestionOutlivesItsTurn, BridgeTypeOK
<1> QED
  BY <1>3, <1>5, <1>6, <1>7, <1>8, <1>9

\* answer_approval: an answer that comes too late changes no channel, and a
\* yes is sent and acknowledged together.
LEMMA AnswerKeepsIInv ==
    ASSUME BridgeIInv, Answer
    PROVE  BridgeIInv'
<1> USE DEF BridgeIInv
<1>1. ASSUME NEW t \in Turns, NEW r \in Requests, NEW yes \in BOOLEAN, TakeAnswer(t, r, yes)
      PROVE  BridgeIInv'
  BY <1>1 DEF TakeAnswer, BridgeTypeOK, Numbered, OwnQuestions, BridgeKnows, Told,
     AuditIsTrue, NoQuestionOutlivesItsTurn
<1>2. ASSUME SendAnswer
      PROVE  BridgeIInv'
  <2>1. PICK a \in answering :
            /\ channel' = [channel EXCEPT
                ![a.request] = IF @ = "open" THEN (IF a.approved THEN "yes" ELSE "no") ELSE @]
            /\ accepted' = accepted \cup {a.request}
            /\ answering' = {}
            /\ UNCHANGED <<live, counter, current, waiting, bridge, audit, granted>>
    BY <1>2 DEF SendAnswer
  <2>2. a.request \in Requests /\ a.approved \in BOOLEAN
    BY DEF BridgeTypeOK
  <2>3. \A r \in Requests :
            \/ channel'[r] = channel[r]
            \/ channel[r] = "open" /\ channel'[r] \in {"yes", "no"} /\ r = a.request
    BY <2>1, <2>2 DEF BridgeTypeOK
  <2>4. BridgeTypeOK'
    BY <2>1, <2>2 DEF BridgeTypeOK
  <2>5. Numbered' /\ OwnQuestions' /\ NoQuestionOutlivesItsTurn'
    BY <2>1, <2>3 DEF Numbered, OwnQuestions, NoQuestionOutlivesItsTurn
  <2>6. BridgeKnows'
    BY <2>1, <2>3 DEF BridgeKnows, Heard, Outcomes, BridgeTypeOK
  <2>7. Told'
    BY <2>1, <2>3 DEF Told, AuditIsTrue, Heard, Outcomes, BridgeTypeOK
  <2> QED
    BY <2>4, <2>5, <2>6, <2>7
<1> QED
  BY <1>1, <1>2 DEF Answer

\* The bridge takes over what its channel holds; giving up drops the receiver.
LEMMA ListenKeepsIInv ==
    ASSUME NEW t \in Turns, BridgeIInv, Hear(t) \/ TimeOut(t)
    PROVE  BridgeIInv'
<1> USE DEF BridgeIInv
<1>0. current[t] \in Requests
  BY DEF Hear, TimeOut, BridgeKnows
<1>1. CASE Hear(t)
  <2>1. BridgeTypeOK' /\ BridgeKnows'
    BY <1>0, <1>1 DEF Hear, BridgeTypeOK, BridgeKnows, Heard, Outcomes
  <2> QED
    BY <2>1, <1>1 DEF Hear, Numbered, OwnQuestions, Told, AuditIsTrue, NoQuestionOutlivesItsTurn
<1>2. CASE TimeOut(t)
  <2>1. BridgeTypeOK'
    BY <1>0, <1>2 DEF TimeOut, BridgeTypeOK, Outcomes
  <2>2. \A r \in Requests :
            \/ channel'[r] = channel[r]
            \/ channel[r] = "open" /\ channel'[r] = "gone" /\ r = current[t]
    BY <1>0, <1>2 DEF TimeOut, BridgeTypeOK
  <2>3. channel'[current[t]] = "gone"
    BY <1>0, <1>2 DEF TimeOut, BridgeTypeOK
  <2>4. Numbered' /\ OwnQuestions' /\ NoQuestionOutlivesItsTurn'
    BY <1>2, <2>2 DEF TimeOut, Numbered, OwnQuestions, NoQuestionOutlivesItsTurn
  <2>5. BridgeKnows'
    <3> SUFFICES ASSUME NEW u \in Turns
                 PROVE  /\ bridge'[u] # "idle" => current'[u] \in Requests
                        /\ bridge'[u] = "waiting" => channel'[current'[u]] \in {"open", "yes", "no", "closed"}
                        /\ bridge'[u] \in Outcomes => channel'[current'[u]] = Heard[bridge'[u]]
      BY DEF BridgeKnows, Outcomes
    <3>1. CASE u = t
      BY <1>0, <1>2, <2>3, <3>1 DEF TimeOut, BridgeTypeOK, Heard, Outcomes
    <3>2. CASE u # t
      <4>1. bridge[u] # "idle" => current[u] \in Requests /\ current[u] # current[t]
        BY <1>0, <3>2 DEF BridgeKnows, OwnQuestions, Requests
      <4> QED
        BY <1>2, <2>2, <3>2, <4>1 DEF TimeOut, BridgeTypeOK, BridgeKnows, Heard, Outcomes
    <3> QED
      BY <3>1, <3>2
  <2>6. Told'
    BY <1>2, <2>2 DEF TimeOut, Told, AuditIsTrue, Heard, Outcomes
  <2> QED
    BY <2>1, <2>4, <2>5, <2>6
<1> QED
  BY <1>1, <1>2

\* What the bridge reports, to the audit and to the tool, is what it heard.
LEMMA SettleKeepsIInv ==
    ASSUME NEW t \in Turns, NEW written \in BOOLEAN, BridgeIInv, Settle(t, written)
    PROVE  BridgeIInv'
<1> USE DEF BridgeIInv
<1>1. current[t] \in Requests /\ channel[current[t]] = Heard[bridge[t]] /\ bridge[t] \in Outcomes
  BY DEF Settle, BridgeKnows, Outcomes
<1>2. BridgeTypeOK'
  BY <1>1 DEF Settle, BridgeTypeOK
<1>3. Numbered' /\ OwnQuestions' /\ NoQuestionOutlivesItsTurn'
  BY DEF Settle, Numbered, OwnQuestions, NoQuestionOutlivesItsTurn
<1>4. BridgeKnows'
  BY DEF Settle, BridgeKnows, BridgeTypeOK, Outcomes
<1>5. Told'
  BY <1>1 DEF Settle, Told, AuditIsTrue, Heard, Outcomes
<1> QED
  BY <1>2, <1>3, <1>4, <1>5

\* A dropped future asks nothing any more; what it had heard stays true.
LEMMA DropKeepsIInv ==
    ASSUME NEW t \in Turns, BridgeIInv, Drop(t)
    PROVE  BridgeIInv'
<1> USE DEF BridgeIInv
<1>1. current[t] \in Requests
  BY DEF Drop, BridgeKnows
<1>2. BridgeTypeOK'
  BY <1>1 DEF Drop, BridgeTypeOK
<1>3. \A r \in Requests :
          \/ channel'[r] = channel[r]
          \/ channel[r] = "open" /\ channel'[r] = "gone" /\ r = current[t]
  BY <1>1 DEF Drop, BridgeTypeOK
<1>4. Numbered' /\ OwnQuestions' /\ NoQuestionOutlivesItsTurn'
  BY <1>3 DEF Drop, Numbered, OwnQuestions, NoQuestionOutlivesItsTurn
<1>5. BridgeKnows'
  <2>1. \A u \in Turns : u # t /\ bridge[u] # "idle" =>
            current[u] \in Requests /\ channel'[current[u]] = channel[current[u]]
    BY <1>1, <1>3 DEF BridgeKnows, OwnQuestions, Requests
  <2> QED
    BY <2>1 DEF Drop, BridgeKnows, BridgeTypeOK, Outcomes
<1>6. Told'
  <2>1. \A r \in Requests, o \in Outcomes :
            <<r, o>> \in audit' => <<r, o>> \in audit \/ (r = current[t] /\ o = bridge[t])
    BY DEF Drop
  <2>2. bridge[t] \in Outcomes => channel'[current[t]] = Heard[bridge[t]]
    BY <1>1, <1>3 DEF BridgeKnows, Heard, Outcomes
  <2> QED
    BY <1>3, <2>1, <2>2 DEF Drop, Told, AuditIsTrue, Heard, Outcomes
<1> QED
  BY <1>2, <1>4, <1>5, <1>6

\* The inductive invariant of the bridge holds in every reachable state.
THEOREM BridgeInductive == BridgeSpec => []BridgeIInv
<1>1. BridgeIInv /\ [BridgeNext]_bridgeVars => BridgeIInv'
  <2> SUFFICES ASSUME BridgeIInv, [BridgeNext]_bridgeVars
               PROVE  BridgeIInv'
    OBVIOUS
  <2>1. CASE Answer
    BY <2>1, AnswerKeepsIInv
  <2>2. ASSUME NEW t \in Turns,
               Register(t) \/ Finish(t) \/ Request(t) \/ BridgeStep(t) \/ Drop(t)
        PROVE  BridgeIInv'
    BY <2>2, RegisterKeepsIInv, FinishKeepsIInv, RequestKeepsIInv, ListenKeepsIInv,
       SettleKeepsIInv, DropKeepsIInv DEF BridgeStep
  <2>3. CASE UNCHANGED bridgeVars
    BY <2>3 DEF bridgeVars, BridgeIInv, BridgeTypeOK, Numbered, OwnQuestions, BridgeKnows, Told,
       AuditIsTrue, NoQuestionOutlivesItsTurn
  <2> QED
    BY <2>1, <2>2, <2>3 DEF BridgeNext
<1> QED
  BY <1>1, InitBridgeIInv, PTL DEF BridgeSpec

\* What the invariant says in the words of the component.
LEMMA IInvSays ==
    BridgeIInv => GrantedWasAnsweredYes /\ AuditIsTrue /\ NoQuestionOutlivesItsTurn /\ BridgeTypeOK
BY DEF BridgeIInv, Told, GrantedWasAnsweredYes, BridgeTypeOK

\* Silence is a no: whatever the turns, the timeouts and the late answers do,
\* a tool goes ahead only on a yes given to that very question.
THEOREM BridgeConsent == BridgeSpec => []GrantedWasAnsweredYes
BY BridgeInductive, IInvSays, PTL

\* The audit says of each question what the human said, or that nobody did.
THEOREM BridgeAudit == BridgeSpec => []AuditIsTrue
BY BridgeInductive, IInvSays, PTL

\* The bucket goes with the turn: no question is left in the table.
THEOREM BridgeBuckets == BridgeSpec => []NoQuestionOutlivesItsTurn
BY BridgeInductive, IInvSays, PTL

\* Every reachable state of the bridge is well typed.
THEOREM BridgeTypeCorrect == BridgeSpec => []BridgeTypeOK
BY BridgeInductive, IInvSays, PTL

-----------------------------------------------------------------------------
(* The engine                                                              *)

\* A step of a turn is a step of the bridge or leaves the bridge alone.
LEMMA TurnStepDrives ==
    ASSUME NEW t \in Turns, TurnStep(t)
    PROVE  [BridgeNext]_bridgeVars
<1>1. CASE Start(t)
  BY <1>1 DEF Start, BridgeNext
<1>2. CASE Refused(t) \/ GivesUp(t) \/ StoreReply(t)
  BY <1>2 DEF Refused, GivesUp, StoreReply, BridgeNext
<1>3. CASE AskFirst(t)
  BY <1>3 DEF AskFirst, BridgeNext
<1>4. CASE Asking(t) \/ Decided(t)
  BY <1>4 DEF Asking, Decided, BridgeNext, BridgeStep
<1>5. CASE Interrupted(t)
  BY <1>5 DEF Interrupted, BridgeNext
<1>6. CASE FullTurn(t) \/ QuickReply(t) \/ MayCall(t) \/ CallModel(t) \/ OutOfIterations(t)
           \/ ModelSpeaks(t) \/ ModelWantsTools(t) \/ Overflow(t) \/ ModelFails(t)
  BY <1>6 DEF FullTurn, QuickReply, MayCall, CallModel, OutOfIterations, ModelSpeaks,
     ModelWantsTools, Overflow, ModelFails
<1>7. CASE MayUseTool(t) \/ BeginTool(t) \/ ToolRefused(t) \/ RunFreely(t) \/ ToolEnds(t)
           \/ HookReturns(t) \/ TakeOutput(t)
  BY <1>7 DEF MayUseTool, BeginTool, ToolRefused, RunFreely, ToolEnds, HookReturns, TakeOutput
<1>8. CASE StopAccepts(t) \/ StopBlocks(t) \/ EnterGoalLoop(t) \/ NoGoalToPursue(t)
           \/ Bump(t) \/ Concludes(t) \/ Continues(t)
  BY <1>8 DEF StopAccepts, StopBlocks, EnterGoalLoop, NoGoalToPursue, Bump, Concludes, Continues
<1> QED
  BY <1>1, <1>2, <1>3, <1>4, <1>5, <1>6, <1>7, <1>8 DEF TurnStep

\* The engine implements the bridge's specification: it asks, hears, settles
\* and drops only when the bridge may.
THEOREM EngineDrivesBridge == Spec => DrivesBridge
<1>1. Init => BridgeInit
  BY DEF Init
<1>2. [Next]_vars => [BridgeNext]_bridgeVars
  <2> SUFFICES ASSUME [Next]_vars
               PROVE  [BridgeNext]_bridgeVars
    OBVIOUS
  <2>1. CASE AllDone \/ UNCHANGED vars \/ Hook
    BY <2>1 DEF AllDone, vars, Hook, HookHolds, ToolHookHolds
  <2>2. CASE Human
    <3>1. CASE \E t \in Turns : Interrupt(t)
      BY <3>1 DEF Interrupt
    <3>2. CASE SetGoal \/ ClearGoal
      BY <3>2 DEF SetGoal, ClearGoal
    <3>3. CASE AnswerQuestion
      BY <3>3 DEF AnswerQuestion, BridgeNext
    <3> QED
      BY <2>2, <3>1, <3>2, <3>3 DEF Human
  <2>3. ASSUME NEW t \in Turns, TurnStep(t)
        PROVE  [BridgeNext]_bridgeVars
    BY <2>3, TurnStepDrives
  <2> QED
    BY <2>1, <2>2, <2>3 DEF Next
<1> QED
  BY <1>1, <1>2, PTL DEF Spec, DrivesBridge, BridgeSpec

\* No tool of any turn goes ahead without a human's yes to its question.
THEOREM TurnsAskConsent == Spec => []GrantedWasAnsweredYes
BY EngineDrivesBridge, BridgeConsent, PTL DEF DrivesBridge

\* No question is left in the table when its turn has ended, however it ended.
THEOREM TurnsLeaveNoQuestion == Spec => []NoQuestionOutlivesItsTurn
BY EngineDrivesBridge, BridgeBuckets, PTL DEF DrivesBridge

\* The audit of every question a turn asks is true.
THEOREM TurnsAuditTruly == Spec => []AuditIsTrue
BY EngineDrivesBridge, BridgeAudit, PTL DEF DrivesBridge

-----------------------------------------------------------------------------
(* Types, the tools left of a response, and the numbers of the goals.      *)

\* While a tool is dealt with, it is one of those still wanted.
ToolsAreWanted ==
    \A t \in Turns : pc[t] \in {"tool", "taken", "gate", "asking", "running", "after", "output"}
                        => wanted[t] > 0

\* Goals are numbered as they are set.
GoalNumbered ==
    /\ goal.id <= goals
    /\ goal.status # "none" => goal.id > 0

\* What the loop has looked at the flag for and not begun is the one thing it
\* may still begin late; nothing is late before the flag is up.
OneLookAhead ==
    \A t \in Turns :
        /\ late[t] <= 1
        /\ ~interrupt[t] \/ pc[t] \in {"sending", "taken"} => late[t] = 0

\* A request is made up only for an iteration that is left.
IterationIsLeft == \A t \in Turns : pc[t] = "sending" => iter[t] < MaxIter

EngineIInv == EngineTypeOK /\ IterationIsLeft /\ ToolsAreWanted /\ GoalNumbered /\ OneLookAhead

(***************************************************************************)
(* The goal loop.  A pursuer has had no more continuations than bumps of   *)
(* the present goal and full allowances of those before it; one that bump  *)
(* has just let through (Owed) has one more to come.                       *)
(***************************************************************************)
Owed(t) == IF pc[t] = "judge" /\ 0 < rounds[t] /\ rounds[t] < MaxRounds THEN 1 ELSE 0

Unspent ==
    IF goal.status # "none" /\ goal.rounds < MaxRounds THEN MaxRounds - 1 - goal.rounds ELSE 0

Allowance == (MaxRounds - 1) * goals - Unspent

PursuitBegun ==
    \A t \in Turns :
        /\ pc[t] \in {"bump", "judge"} => target[t] # 0
        /\ target[t] = 0 => continued[t] = 0

\* Rounds are counted in the goal; where there is none, there are none.
NoGoalNoRounds == goal.status = "none" => goal.rounds = 0

\* A turn that entered the loop did so for a goal that had been set.
GoalWasSet == \A t \in Turns : target[t] # 0 => goals > 0

Pursuing(t) == target[t] # 0 /\ pc[t] # "done"

WithinAllowance ==
    \A t \in Turns :
        /\ Pursuing(t) => continued[t] + Owed(t) <= Allowance
        /\ continued[t] <= (MaxRounds - 1) * goals

GoalIInv ==
    /\ EngineIInv
    /\ PursuitBegun
    /\ GoalWasSet
    /\ NoGoalNoRounds
    /\ IF MaxRounds = 0 THEN \A t \in Turns : continued[t] = 0 ELSE WithinAllowance

LEMMA InitGoalIInv == Init => GoalIInv
<1> SUFFICES ASSUME Init
             PROVE  GoalIInv
  OBVIOUS
<1>1. EngineIInv
  BY EngineAssumption DEF Init, NoGoal, EngineIInv, EngineTypeOK, Positions, IterationIsLeft, ToolsAreWanted,
     GoalNumbered, OneLookAhead
<1>2. PursuitBegun /\ GoalWasSet /\ NoGoalNoRounds
  BY DEF Init, NoGoal, NoGoalNoRounds, PursuitBegun, GoalWasSet
<1>3. MaxRounds # 0 => WithinAllowance
  BY EngineAssumption DEF Init, WithinAllowance, Pursuing
<1> QED
  BY <1>1, <1>2, <1>3 DEF Init, GoalIInv

\* The steps of a turn within a run, and those after it.
RunStep(t) ==
    \/ Start(t) \/ Refused(t) \/ FullTurn(t) \/ QuickReply(t)
    \/ MayCall(t) \/ CallModel(t) \/ OutOfIterations(t) \/ ModelSpeaks(t)
    \/ ModelWantsTools(t) \/ Overflow(t) \/ ModelFails(t) \/ GivesUp(t)
    \/ MayUseTool(t) \/ BeginTool(t) \/ ToolRefused(t) \/ RunFreely(t) \/ AskFirst(t)
    \/ Asking(t) \/ Decided(t) \/ ToolEnds(t) \/ HookReturns(t) \/ TakeOutput(t) \/ Interrupted(t)

AfterRunStep(t) ==
    \/ StopAccepts(t) \/ StopBlocks(t) \/ EnterGoalLoop(t) \/ NoGoalToPursue(t) \/ Bump(t)
    \/ Concludes(t) \/ Continues(t) \/ StoreReply(t)

LEMMA TurnStepsAre ==
    ASSUME NEW t \in Turns, TurnStep(t)
    PROVE  RunStep(t) \/ AfterRunStep(t)
BY DEF TurnStep, RunStep, AfterRunStep

\* Within a run: model calls, tools, the retry, the interrupt.
LEMMA RunKeepsEngineIInv ==
    ASSUME NEW t \in Turns, EngineIInv, RunStep(t)
    PROVE  EngineIInv'
<1> USE EngineAssumption DEF EngineIInv, EngineTypeOK, Positions, IterationIsLeft, ToolsAreWanted, GoalNumbered,
           OneLookAhead, goalVars, runVars, Goto
<1>0. AfterRun(t) \in {"stop", "bump"}
  BY DEF AfterRun
<1>1. CASE Start(t) \/ Refused(t) \/ FullTurn(t) \/ QuickReply(t) \/ GivesUp(t)
  BY <1>1 DEF Start, Refused, FullTurn, QuickReply, GivesUp
<1>2. CASE MayCall(t)
  BY <1>2 DEF MayCall
<1>3. CASE CallModel(t)
  BY <1>3 DEF CallModel, Begun
<1>4. CASE OutOfIterations(t) \/ ModelSpeaks(t)
  <2>1. /\ pc' = [pc EXCEPT ![t] = AfterRun(t)]
        /\ EndRun(t)
        /\ UNCHANGED <<interrupt, stops, goalVars>>
    BY <1>4 DEF OutOfIterations, ModelSpeaks
  <2> QED
    BY <1>0, <2>1 DEF EndRun
<1>5. CASE ModelWantsTools(t)
  BY <1>5 DEF ModelWantsTools
<1>6. CASE Overflow(t)
  BY <1>6 DEF Overflow
<1>7. CASE ModelFails(t)
  BY <1>7 DEF ModelFails, EndRun
<1>8. CASE MayUseTool(t) \/ ToolRefused(t) \/ RunFreely(t) \/ AskFirst(t)
  BY <1>8 DEF MayUseTool, ToolRefused, RunFreely, AskFirst
<1>9. CASE BeginTool(t)
  BY <1>9 DEF BeginTool, Begun
<1>10. CASE Asking(t) \/ Decided(t)
  BY <1>10 DEF Asking, Decided
<1>11. CASE ToolEnds(t) \/ HookReturns(t)
  BY <1>11 DEF ToolEnds, HookReturns
<1>12. CASE TakeOutput(t)
  BY <1>12 DEF TakeOutput
<1>13. CASE Interrupted(t)
  BY <1>0, <1>13 DEF Interrupted, EndRun
<1> QED
  BY <1>1, <1>2, <1>3, <1>4, <1>5, <1>6, <1>7, <1>8, <1>9, <1>10, <1>11, <1>12, <1>13 DEF RunStep

\* Between runs and at the end of the turn.
LEMMA AfterRunKeepsEngineIInv ==
    ASSUME NEW t \in Turns, EngineIInv, AfterRunStep(t)
    PROVE  EngineIInv'
<1> USE EngineAssumption DEF EngineIInv, EngineTypeOK, Positions, IterationIsLeft, ToolsAreWanted, GoalNumbered,
           OneLookAhead, goalVars, runVars, Goto
<1>1. CASE StopAccepts(t) \/ NoGoalToPursue(t) \/ StoreReply(t)
  BY <1>1 DEF StopAccepts, NoGoalToPursue, StoreReply
<1>2. CASE StopBlocks(t)
  BY <1>2 DEF StopBlocks
<1>3. CASE EnterGoalLoop(t)
  BY <1>3 DEF EnterGoalLoop
<1>4. CASE Bump(t)
  BY <1>4 DEF Bump
<1>5. CASE Concludes(t)
  BY <1>5 DEF Concludes, Stamp
<1>6. CASE Continues(t)
  BY <1>6 DEF Continues
<1> QED
  BY <1>1, <1>2, <1>3, <1>4, <1>5, <1>6 DEF AfterRunStep

LEMMA HumanKeepsEngineIInv ==
    ASSUME EngineIInv, Human
    PROVE  EngineIInv'
<1> USE EngineAssumption DEF EngineIInv, EngineTypeOK, IterationIsLeft, ToolsAreWanted, GoalNumbered, OneLookAhead,
           goalVars, runVars
<1>1. CASE \E t \in Turns : Interrupt(t)
  BY <1>1 DEF Interrupt
<1>2. CASE SetGoal
  BY <1>2 DEF SetGoal
<1>3. CASE ClearGoal
  BY <1>3 DEF ClearGoal, NoGoal
<1>4. CASE AnswerQuestion
  BY <1>4 DEF AnswerQuestion
<1> QED
  BY <1>1, <1>2, <1>3, <1>4 DEF Human

\* A hook that holds a turn moves it aside and touches nothing else.
LEMMA HookKeepsEngineIInv ==
    ASSUME EngineIInv, Hook
    PROVE  EngineIInv'
BY DEF Hook, HookHolds, ToolHookHolds, EngineIInv, EngineTypeOK, Positions, IterationIsLeft, ToolsAreWanted,
   GoalNumbered, OneLookAhead, goalVars, runVars

LEMMA StutterKeepsEngineIInv ==
    ASSUME EngineIInv, UNCHANGED vars
    PROVE  EngineIInv'
BY DEF vars, goalVars, runVars, EngineIInv, EngineTypeOK, IterationIsLeft, ToolsAreWanted, GoalNumbered, OneLookAhead

LEMMA NextKeepsEngineIInv == EngineIInv /\ [Next]_vars => EngineIInv'
<1> SUFFICES ASSUME EngineIInv, [Next]_vars
             PROVE  EngineIInv'
  OBVIOUS
<1>1. ASSUME NEW t \in Turns, TurnStep(t)
      PROVE  EngineIInv'
  BY <1>1, TurnStepsAre, RunKeepsEngineIInv, AfterRunKeepsEngineIInv
<1> QED
  BY <1>1, HumanKeepsEngineIInv, HookKeepsEngineIInv, StutterKeepsEngineIInv DEF Next, AllDone

\* Positions, counters and the goal are well typed and numbered, whatever the
\* turns and the humans do.
THEOREM EngineInductive == Spec => []EngineIInv
<1>1. Init => EngineIInv
  BY InitGoalIInv DEF GoalIInv
<1> QED
  BY <1>1, NextKeepsEngineIInv, PTL DEF Spec

\* Every reachable state of the engine and its bridge is well typed: no run
\* calls the model more than MaxIter times, and no limit's counter runs over.
THEOREM EngineTypeCorrect == Spec => []TypeOK
<1>1. EngineIInv /\ BridgeTypeOK => TypeOK
  BY DEF EngineIInv, TypeOK
<1> QED
  BY <1>1, EngineInductive, EngineDrivesBridge, BridgeTypeCorrect, PTL DEF DrivesBridge

-----------------------------------------------------------------------------
(* The interrupt                                                           *)

\* However many runs, calls and tools a turn has, and whenever the flag goes
\* up: at most one model call or tool is begun after it.
THEOREM InterruptBites == Spec => []OneStepAfterInterrupt
<1>1. EngineIInv => OneStepAfterInterrupt
  BY DEF EngineIInv, OneLookAhead, OneStepAfterInterrupt
<1> QED
  BY <1>1, EngineInductive, PTL

-----------------------------------------------------------------------------
(* The goal loop                                                           *)

\* One more goal is one more allowance.
LEMMA OneMoreAllowance ==
    ASSUME NEW k \in Nat, NEW n \in Nat
    PROVE  /\ k * (n + 1) = k * n + k
           /\ k * n \in Nat
           /\ n > 0 => k * n >= k
OBVIOUS

\* Only the judge's position counts as owed, and at most one.
LEMMA OwedIsSmall ==
    ASSUME NEW t \in Turns, EngineIInv
    PROVE  /\ Owed(t) \in {0, 1}
           /\ pc[t] # "judge" => Owed(t) = 0
BY DEF Owed

\* What is unspent of an allowance is part of it.
LEMMA UnspentIsPart ==
    ASSUME EngineIInv, MaxRounds # 0
    PROVE  /\ MaxRounds - 1 \in Nat
           /\ (MaxRounds - 1) * goals \in Nat
           /\ Unspent \in 0..(MaxRounds - 1)
           /\ Allowance = (MaxRounds - 1) * goals - Unspent
           /\ Allowance <= (MaxRounds - 1) * goals
           /\ goals > 0 => Allowance >= 0
<1>1. MaxRounds - 1 \in Nat /\ goals \in Nat /\ goal.rounds \in Nat
  BY EngineAssumption DEF EngineIInv, EngineTypeOK
<1>2. (MaxRounds - 1) * goals \in Nat /\ (goals > 0 => (MaxRounds - 1) * goals >= MaxRounds - 1)
  BY <1>1, OneMoreAllowance
<1>3. Unspent \in 0..(MaxRounds - 1)
  BY <1>1, EngineAssumption DEF Unspent
<1> QED
  BY <1>1, <1>2, <1>3 DEF Allowance

\* A step that counts nothing for the goal loop keeps the turns within it.
LEMMA QuietKeepsGoalIInv ==
    ASSUME GoalIInv, EngineIInv',
           UNCHANGED <<goals, target, rounds, continued>>,
           (goal.rounds)' = goal.rounds,
           (goal.status # "none")' <=> goal.status # "none",
           \A t \in Turns : /\ pc'[t] # "done" => pc[t] # "done"
                            /\ pc'[t] = "judge" => pc[t] = "judge"
                            /\ pc'[t] = "bump" => pc[t] = "bump" \/ target[t] # 0
    PROVE  GoalIInv'
<1>1. PursuitBegun' /\ GoalWasSet' /\ NoGoalNoRounds'
  BY DEF GoalIInv, PursuitBegun, GoalWasSet, NoGoalNoRounds
<1>2. \A t \in Turns : Pursuing(t)' => Pursuing(t) /\ Owed(t)' <= Owed(t)
  BY DEF Pursuing, Owed
<1>3. Allowance' = Allowance
  BY DEF Allowance, Unspent
<1>4. ASSUME MaxRounds # 0
      PROVE  WithinAllowance'
  <2>1. WithinAllowance /\ EngineIInv
    BY <1>4 DEF GoalIInv
  <2>2. Allowance \in Int /\ \A t \in Turns : continued[t] \in Nat /\ Owed(t) \in Int /\ Owed(t)' \in Int
    BY <2>1, <1>4, UnspentIsPart DEF EngineIInv, EngineTypeOK, Owed
  <2> QED
    BY <1>2, <1>3, <2>1, <2>2 DEF WithinAllowance
<1>5. MaxRounds = 0 => \A t \in Turns : continued'[t] = 0
  BY DEF GoalIInv
<1> QED
  BY <1>1, <1>4, <1>5 DEF GoalIInv

\* The steps of a turn that count nothing for the goal loop.
LEMMA QuietStepKeepsGoalIInv ==
    ASSUME NEW t \in Turns, GoalIInv, TurnStep(t),
           ~EnterGoalLoop(t), ~Bump(t), ~Continues(t)
    PROVE  GoalIInv'
<1> USE DEF Goto, goalVars, runVars
<1>1. pc \in [Turns -> Positions]
  BY DEF GoalIInv, EngineIInv, EngineTypeOK
<1>2. EngineIInv'
  BY TurnStepsAre, RunKeepsEngineIInv, AfterRunKeepsEngineIInv DEF GoalIInv
<1>3. CASE Start(t) \/ Refused(t) \/ FullTurn(t) \/ QuickReply(t) \/ MayCall(t) \/ CallModel(t)
           \/ ModelWantsTools(t) \/ Overflow(t) \/ ModelFails(t) \/ GivesUp(t)
           \/ StopAccepts(t) \/ StopBlocks(t) \/ NoGoalToPursue(t) \/ StoreReply(t)
  <2>1. UNCHANGED goalVars
    BY <1>3 DEF Start, Refused, FullTurn, QuickReply, MayCall, CallModel, ModelWantsTools, Overflow,
       ModelFails, GivesUp, StopAccepts, StopBlocks, NoGoalToPursue, StoreReply
  <2>2. \A u \in Turns : /\ pc'[u] # "done" => pc[u] # "done"
                         /\ pc'[u] \in {"judge", "bump"} => pc'[u] = pc[u]
    BY <1>1, <1>3 DEF Start, Refused, FullTurn, QuickReply, MayCall, CallModel, ModelWantsTools,
       Overflow, ModelFails, GivesUp, StopAccepts, StopBlocks, NoGoalToPursue, StoreReply
  <2> QED
    BY <1>2, <2>1, <2>2, QuietKeepsGoalIInv
<1>4. CASE MayUseTool(t) \/ BeginTool(t) \/ ToolRefused(t) \/ RunFreely(t) \/ AskFirst(t)
           \/ Asking(t) \/ Decided(t) \/ ToolEnds(t) \/ HookReturns(t) \/ TakeOutput(t)
  <2>1. UNCHANGED goalVars
    BY <1>4 DEF MayUseTool, BeginTool, ToolRefused, RunFreely, AskFirst, Asking, Decided, ToolEnds,
       HookReturns, TakeOutput
  <2>2. \A u \in Turns : /\ pc'[u] # "done" => pc[u] # "done"
                         /\ pc'[u] \in {"judge", "bump"} => pc'[u] = pc[u]
    BY <1>1, <1>4 DEF MayUseTool, BeginTool, ToolRefused, RunFreely, AskFirst, Asking, Decided,
       ToolEnds, HookReturns, TakeOutput
  <2> QED
    BY <1>2, <2>1, <2>2, QuietKeepsGoalIInv
<1>5. CASE OutOfIterations(t) \/ ModelSpeaks(t) \/ Interrupted(t)
  <2>1. UNCHANGED goalVars /\ pc' = [pc EXCEPT ![t] = AfterRun(t)] /\ pc[t] # "done"
    BY <1>5 DEF OutOfIterations, ModelSpeaks, Interrupted
  <2>2. AfterRun(t) = "stop" \/ (AfterRun(t) = "bump" /\ target[t] # 0)
    BY DEF AfterRun
  <2>3. \A u \in Turns : /\ pc'[u] # "done" => pc[u] # "done"
                         /\ pc'[u] = "judge" => pc[u] = "judge"
                         /\ pc'[u] = "bump" => pc[u] = "bump" \/ target[u] # 0
    BY <1>1, <2>1, <2>2
  <2> QED
    BY <1>2, <2>1, <2>3, QuietKeepsGoalIInv
<1>6. CASE Concludes(t)
  <2>1. /\ UNCHANGED <<goals, target, rounds, continued>>
        /\ (goal.rounds)' = goal.rounds
        /\ (goal.status # "none")' <=> goal.status # "none"
    BY <1>6 DEF Concludes, Stamp, GoalIInv, EngineIInv, EngineTypeOK
  <2>2. \A u \in Turns : /\ pc'[u] # "done" => pc[u] # "done"
                         /\ pc'[u] \in {"judge", "bump"} => pc'[u] = pc[u]
    BY <1>1, <1>6 DEF Concludes
  <2> QED
    BY <1>2, <2>1, <2>2, QuietKeepsGoalIInv
<1> QED
  BY <1>3, <1>4, <1>5, <1>6 DEF TurnStep

\* A turn that enters the loop has an unused allowance: its goal is set.
LEMMA EnterKeepsGoalIInv ==
    ASSUME NEW t \in Turns, GoalIInv, EnterGoalLoop(t)
    PROVE  GoalIInv'
<1> USE DEF Goto, runVars
<1>1. EngineIInv /\ EngineIInv'
  BY AfterRunKeepsEngineIInv DEF GoalIInv, AfterRunStep
<1>2. goal.status = "active" /\ goal.id # 0 /\ goals > 0
  BY <1>1 DEF EnterGoalLoop, EngineIInv, EngineTypeOK, GoalNumbered
<1>3. /\ pc' = [pc EXCEPT ![t] = "bump"] /\ pc[t] = "goal"
      /\ target' = [target EXCEPT ![t] = goal.id]
      /\ UNCHANGED <<goal, goals, rounds, continued>>
  BY DEF EnterGoalLoop
<1>4. PursuitBegun' /\ GoalWasSet' /\ NoGoalNoRounds'
  BY <1>1, <1>2, <1>3 DEF GoalIInv, PursuitBegun, GoalWasSet, NoGoalNoRounds, EngineIInv, EngineTypeOK
<1>5. ASSUME MaxRounds # 0
      PROVE  WithinAllowance'
  <2>1. WithinAllowance /\ Allowance \in Nat /\ Allowance' = Allowance
    BY <1>1, <1>2, <1>3, <1>5, UnspentIsPart DEF GoalIInv, Allowance, Unspent
  <2>2. Owed(t)' = 0
    BY <1>1, <1>3 DEF Owed, EngineIInv, EngineTypeOK
  <2>3. continued[t] + 0 <= Allowance
    BY <1>1, <1>3, <1>5, <2>1 DEF GoalIInv, PursuitBegun, WithinAllowance, Pursuing, Owed,
       EngineIInv, EngineTypeOK
  <2>4. \A u \in Turns : u # t => (Pursuing(u)' <=> Pursuing(u)) /\ Owed(u)' = Owed(u)
    BY <1>1, <1>3 DEF Pursuing, Owed, EngineIInv, EngineTypeOK
  <2> QED
    BY <1>3, <2>1, <2>2, <2>3, <2>4 DEF WithinAllowance
<1> QED
  BY <1>1, <1>3, <1>4, <1>5 DEF GoalIInv

\* A bump that leaves the turn a continuation has added one to the allowance.
LEMMA BumpKeepsGoalIInv ==
    ASSUME NEW t \in Turns, GoalIInv, Bump(t)
    PROVE  GoalIInv'
<1> USE DEF Goto, runVars
<1>1. EngineIInv /\ EngineIInv'
  BY AfterRunKeepsEngineIInv DEF GoalIInv, AfterRunStep
<1>2. /\ pc' = [pc EXCEPT ![t] = "judge"] /\ pc[t] = "bump"
      /\ rounds' = [rounds EXCEPT ![t] = goal'.rounds]
      /\ UNCHANGED <<goals, target, continued>>
  BY DEF Bump
<1>3. Pursuing(t) /\ goals > 0
  BY <1>2 DEF GoalIInv, PursuitBegun, GoalWasSet, NoGoalNoRounds, Pursuing
<1>4. /\ (goal.status)' = goal.status
      /\ goal.status # "none" => (goal.rounds)' = goal.rounds + 1
      /\ goal.status = "none" => goal' = goal
  BY <1>1, <1>3 DEF Bump, EngineIInv, EngineTypeOK
<1>5. PursuitBegun' /\ GoalWasSet' /\ NoGoalNoRounds'
  BY <1>1, <1>2, <1>4 DEF GoalIInv, PursuitBegun, GoalWasSet, NoGoalNoRounds, EngineIInv, EngineTypeOK
<1>6. ASSUME MaxRounds # 0
      PROVE  WithinAllowance'
  <2>1. WithinAllowance /\ MaxRounds \in Nat /\ goal.rounds \in Nat /\ (goal.rounds)' \in Nat
    BY <1>1, <1>6, EngineAssumption DEF GoalIInv, EngineIInv, EngineTypeOK
  <2>2. (MaxRounds - 1) * goals \in Nat /\ Allowance \in Int /\ Allowance' \in Int
    BY <1>1, <1>6, UnspentIsPart, <1>2, <1>4, <2>1 DEF Allowance, Unspent
  <2>3. /\ Allowance' >= Allowance
        /\ goal.status # "none" /\ goal.rounds + 1 < MaxRounds => Allowance' = Allowance + 1
    BY <1>2, <1>4, <2>1, <2>2 DEF Allowance, Unspent
  <2>4. /\ Owed(t) = 0
        /\ Owed(t)' = IF goal.status # "none" /\ goal.rounds + 1 < MaxRounds THEN 1 ELSE 0
    <3>1. goal.status = "none" => goal.rounds = 0
      BY DEF GoalIInv, NoGoalNoRounds
    <3>2. rounds'[t] = (goal.rounds)' /\ pc'[t] = "judge"
      BY <1>1, <1>2 DEF EngineIInv, EngineTypeOK
    <3> QED
      BY <1>1, <1>2, <1>4, <2>1, <3>1, <3>2 DEF Owed
  <2>5. continued[t] + Owed(t)' <= Allowance'
    <3>1. continued[t] + 0 <= Allowance /\ continued[t] \in Nat
      BY <1>1, <1>3, <2>1, <2>4 DEF WithinAllowance, EngineIInv, EngineTypeOK
    <3> QED
      BY <2>1, <2>2, <2>3, <2>4, <3>1
  <2>6. ASSUME NEW u \in Turns, u # t, Pursuing(u)'
        PROVE  continued[u] + Owed(u)' <= Allowance'
    <3>1. Pursuing(u) /\ Owed(u)' = Owed(u) /\ Owed(u) \in {0, 1} /\ continued[u] \in Nat
      BY <1>1, <1>2, <2>6 DEF Pursuing, Owed, EngineIInv, EngineTypeOK
    <3> QED
      BY <2>1, <2>2, <2>3, <3>1 DEF WithinAllowance
  <2> QED
    BY <1>2, <2>1, <2>5, <2>6 DEF WithinAllowance
<1>7. MaxRounds = 0 => \A u \in Turns : continued'[u] = 0
  BY <1>2 DEF GoalIInv
<1> QED
  BY <1>1, <1>5, <1>6, <1>7 DEF GoalIInv

\* A continuation is the one that was owed.
LEMMA ContinueKeepsGoalIInv ==
    ASSUME NEW t \in Turns, GoalIInv, Continues(t)
    PROVE  GoalIInv'
<1> USE DEF Goto, runVars
<1>1. EngineIInv /\ EngineIInv'
  BY AfterRunKeepsEngineIInv DEF GoalIInv, AfterRunStep
<1>2. /\ pc' = [pc EXCEPT ![t] = "call"] /\ pc[t] = "judge"
      /\ rounds[t] < MaxRounds
      /\ continued' = [continued EXCEPT ![t] = IF rounds[t] > 0 THEN @ + 1 ELSE @]
      /\ UNCHANGED <<goal, goals, target, rounds>>
  BY DEF Continues
<1>3. /\ Pursuing(t) /\ Owed(t)' = 0 /\ Pursuing(t)'
      /\ Owed(t) = IF rounds[t] > 0 THEN 1 ELSE 0
  BY <1>1, <1>2 DEF GoalIInv, PursuitBegun, Pursuing, Owed, EngineIInv, EngineTypeOK
<1>4. PursuitBegun' /\ GoalWasSet' /\ NoGoalNoRounds'
  BY <1>1, <1>2, <1>3 DEF GoalIInv, PursuitBegun, GoalWasSet, NoGoalNoRounds, EngineIInv, EngineTypeOK
<1>5. MaxRounds # 0
  BY <1>1, <1>2, EngineAssumption DEF EngineIInv, EngineTypeOK
<1>6. WithinAllowance'
  <2>1. WithinAllowance /\ Allowance' = Allowance
    BY <1>2, <1>5 DEF GoalIInv, Allowance, Unspent
  <2>2. Allowance \in Int /\ (MaxRounds - 1) * goals \in Nat /\ Allowance <= (MaxRounds - 1) * goals
    BY <1>1, <1>5, UnspentIsPart, EngineAssumption DEF EngineIInv, EngineTypeOK
  <2>3. continued'[t] = continued[t] + Owed(t) /\ continued[t] \in Nat /\ Owed(t) \in {0, 1}
    BY <1>1, <1>2, <1>3 DEF EngineIInv, EngineTypeOK
  <2>4. continued'[t] + Owed(t)' <= Allowance' /\ continued'[t] <= (MaxRounds - 1) * goals
    BY <1>3, <2>1, <2>2, <2>3 DEF WithinAllowance
  <2>5. \A u \in Turns : u # t =>
            continued'[u] = continued[u] /\ (Pursuing(u)' <=> Pursuing(u)) /\ Owed(u)' = Owed(u)
    BY <1>1, <1>2 DEF Pursuing, Owed, EngineIInv, EngineTypeOK
  <2> QED
    BY <1>2, <2>1, <2>4, <2>5 DEF WithinAllowance
<1> QED
  BY <1>1, <1>4, <1>5, <1>6 DEF GoalIInv

\* A new goal brings a new allowance, unspent.
LEMMA SetGoalKeepsGoalIInv ==
    ASSUME GoalIInv, SetGoal
    PROVE  GoalIInv'
<1>1. EngineIInv /\ EngineIInv'
  BY HumanKeepsEngineIInv DEF GoalIInv, Human
<1>2. /\ goals' = goals + 1
      /\ (goal.rounds)' = 0 /\ (goal.status)' = "active"
      /\ UNCHANGED <<pc, target, rounds, continued>>
  BY DEF SetGoal
<1>3. PursuitBegun' /\ GoalWasSet' /\ NoGoalNoRounds'
  BY <1>1, <1>2 DEF GoalIInv, PursuitBegun, GoalWasSet, NoGoalNoRounds, EngineIInv, EngineTypeOK
<1>4. ASSUME MaxRounds # 0
      PROVE  WithinAllowance'
  <2>1. WithinAllowance /\ MaxRounds - 1 \in Nat /\ goals \in Nat
    BY <1>1, <1>4, EngineAssumption DEF GoalIInv, EngineIInv, EngineTypeOK
  <2>2. (MaxRounds - 1) * goals' = (MaxRounds - 1) * goals + (MaxRounds - 1)
    BY <1>2, <2>1, OneMoreAllowance
  <2>3. (MaxRounds - 1) * goals \in Nat /\ Allowance \in Int /\ Allowance <= (MaxRounds - 1) * goals
    BY <1>1, <1>4, <2>1, UnspentIsPart
  <2>4. Allowance' = (MaxRounds - 1) * goals
    BY <1>2, <2>1, <2>2, <2>3, EngineAssumption DEF Allowance, Unspent
  <2>5. \A u \in Turns : /\ continued[u] \in Nat /\ Owed(u) \in {0, 1}
                         /\ (Pursuing(u)' <=> Pursuing(u)) /\ Owed(u)' = Owed(u)
    BY <1>1, <1>2 DEF Pursuing, Owed, EngineIInv, EngineTypeOK
  <2> QED
    BY <1>2, <2>1, <2>2, <2>3, <2>4, <2>5 DEF WithinAllowance
<1>5. MaxRounds = 0 => \A u \in Turns : continued'[u] = 0
  BY <1>2 DEF GoalIInv
<1> QED
  BY <1>1, <1>3, <1>4, <1>5 DEF GoalIInv

\* Clearing the goal leaves nothing unspent: the allowance can only grow.
LEMMA ClearGoalKeepsGoalIInv ==
    ASSUME GoalIInv, ClearGoal
    PROVE  GoalIInv'
<1>1. EngineIInv /\ EngineIInv'
  BY HumanKeepsEngineIInv DEF GoalIInv, Human
<1>2. /\ UNCHANGED <<pc, goals, target, rounds, continued>>
      /\ (goal.status)' = "none" /\ (goal.rounds)' = 0
  BY DEF ClearGoal, NoGoal
<1>3. PursuitBegun' /\ GoalWasSet' /\ NoGoalNoRounds'
  BY <1>2 DEF GoalIInv, PursuitBegun, GoalWasSet, NoGoalNoRounds
<1>4. ASSUME MaxRounds # 0
      PROVE  WithinAllowance'
  <2>1. (MaxRounds - 1) * goals \in Nat /\ Allowance \in Int /\ Allowance <= (MaxRounds - 1) * goals
    BY <1>1, <1>4, UnspentIsPart
  <2>2. Allowance' = (MaxRounds - 1) * goals
    BY <1>2, <2>1 DEF Allowance, Unspent
  <2>3. \A u \in Turns : /\ continued[u] \in Nat /\ Owed(u) \in {0, 1}
                         /\ (Pursuing(u)' <=> Pursuing(u)) /\ Owed(u)' = Owed(u)
    BY <1>1, <1>2 DEF Pursuing, Owed, EngineIInv, EngineTypeOK
  <2> QED
    BY <1>2, <1>4, <2>1, <2>2, <2>3 DEF GoalIInv, WithinAllowance
<1>5. MaxRounds = 0 => \A u \in Turns : continued'[u] = 0
  BY <1>2 DEF GoalIInv
<1> QED
  BY <1>1, <1>3, <1>4, <1>5 DEF GoalIInv

\* The goal loop's invariant, whoever sets and clears goals in mid-pursuit.
THEOREM GoalInductive == Spec => []GoalIInv
<1>1. GoalIInv /\ [Next]_vars => GoalIInv'
  <2> SUFFICES ASSUME GoalIInv, [Next]_vars
               PROVE  GoalIInv'
    OBVIOUS
  <2>1. EngineIInv'
    BY NextKeepsEngineIInv DEF GoalIInv
  <2>2. ASSUME NEW t \in Turns, TurnStep(t)
        PROVE  GoalIInv'
    BY <2>2, QuietStepKeepsGoalIInv, EnterKeepsGoalIInv, BumpKeepsGoalIInv, ContinueKeepsGoalIInv
  <2>3. CASE AllDone \/ UNCHANGED vars \/ AnswerQuestion \/ \E t \in Turns : Interrupt(t)
    <3>1. UNCHANGED <<pc, goalVars>>
      BY <2>3 DEF AllDone, vars, AnswerQuestion, Interrupt
    <3> QED
      BY <2>1, <3>1, QuietKeepsGoalIInv DEF goalVars
  <2>4. CASE Hook
    <3>1. UNCHANGED goalVars
      BY <2>4 DEF Hook, HookHolds, ToolHookHolds
    <3>2. \A u \in Turns : /\ pc'[u] # "done" => pc[u] # "done"
                           /\ pc'[u] \in {"judge", "bump"} => pc'[u] = pc[u]
      BY <2>4 DEF Hook, HookHolds, ToolHookHolds, GoalIInv, EngineIInv, EngineTypeOK
    <3> QED
      BY <2>1, <3>1, <3>2, QuietKeepsGoalIInv DEF goalVars
  <2>5. CASE SetGoal \/ ClearGoal
    BY <2>5, SetGoalKeepsGoalIInv, ClearGoalKeepsGoalIInv
  <2> QED
    BY <2>2, <2>3, <2>4, <2>5 DEF Next, Human
<1> QED
  BY <1>1, InitGoalIInv, PTL DEF Spec

\* "JOY_GOAL_MAX_ROUNDS": for each goal that is set, a turn is continued fewer
\* times than the limit, as long as there is a goal to count the rounds of.
THEOREM GoalsAreLimited == Spec => []ContinuationsBounded
<1>1. GoalIInv => ContinuationsBounded
  BY DEF GoalIInv, WithinAllowance, ContinuationsBounded
<1> QED
  BY <1>1, GoalInductive, PTL

=============================================================================
