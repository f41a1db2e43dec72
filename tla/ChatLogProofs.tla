--------------------------- MODULE ChatLogProofs ----------------------------
(***************************************************************************)
(* Proofs about ChatLog for every set of turns and every batch size: its   *)
(* type invariant, that no row is distilled by two turns or summed up by   *)
(* two episodes, that a marked row is accounted for, and that the claim    *)
(* over the database implements ExclusiveClaim.                            *)
(***************************************************************************)
EXTENDS ChatLog, TLAPS

(***************************************************************************)
(* What a turn's position says about the rows it holds and about the rows  *)
(* it has finished.                                                        *)
(***************************************************************************)
HeldByPosition ==
    \A t \in Turns :
        /\ pc[t] \notin Holding => held[t] = {}
        /\ pc[t] = "episode" /\ "facts" \in answer[t] => held[t] \subseteq facts
        /\ pc[t] # "done" => settled[t] = {}

\* Rows in hand or finished carry consolidated = 1; a cooling row never does.
MarkedRows ==
    /\ \A t \in Turns : held[t] \subseteq consolidated
    /\ \A t \in Turns : episode[t] \subseteq settled[t]
    /\ \A t \in Turns : settled[t] \subseteq consolidated
    /\ cooling \cap consolidated = {}

\* A finished row is in nobody's hands any more.
FinishedIsReleased ==
    \A t, u \in Turns : settled[t] \cap held[u] = {}

IInv ==
    /\ TypeOK
    /\ HeldByPosition
    /\ MarkedRows
    /\ FinishedIsReleased
    /\ ClaimsDisjoint
    /\ EpisodesDisjoint
    /\ ConsolidatedAccountedFor

\* The initial state satisfies the inductive invariant.
LEMMA InitIInv == Init => IInv
BY DEF Init, IInv, TypeOK, HeldByPosition, MarkedRows, FinishedIsReleased,
       ClaimsDisjoint, EpisodesDisjoint, ConsolidatedAccountedFor, States, Holding, Parts

\* append_exchange adds a row that nobody holds.
LEMMA AppendKeepsIInv ==
    ASSUME NEW t \in Turns, IInv, AppendUser(t) \/ AppendAssistant(t)
    PROVE  IInv'
<1>1. UNCHANGED <<consolidated, cooling, held, answer, facts, episode, settled>>
  BY DEF AppendUser, AppendAssistant, stored
<1>2. TypeOK'
  BY <1>1 DEF IInv, AppendUser, AppendAssistant, Goto, TypeOK, States, Holding, Rows
<1>3. HeldByPosition'
  BY <1>1 DEF IInv, AppendUser, AppendAssistant, Goto, TypeOK, HeldByPosition, Holding
<1> QED
  BY <1>1, <1>2, <1>3 DEF IInv, MarkedRows, FinishedIsReleased, ClaimsDisjoint,
     EpisodesDisjoint, ConsolidatedAccountedFor

\* A step that only moves the turn's position keeps the invariant when it
\* moves it to a position that says no more about the rows.
LEMMA MoveKeepsIInv ==
    ASSUME NEW t \in Turns, IInv,
           NotDue(t) \/ Due(t) \/ ClaimNothing(t) \/ DistillFails(t)
             \/ PersistFails(t) \/ Lost(t)
    PROVE  IInv'
<1>1. UNCHANGED <<log, consolidated, cooling, held, answer, facts, episode, settled>>
  BY DEF NotDue, Due, ClaimNothing, DistillFails, PersistFails, Lost, stored
<1>2. TypeOK'
  BY <1>1 DEF IInv, TypeOK, NotDue, Due, ClaimNothing, DistillFails,
     PersistFails, Lost, Goto, States, Holding
<1>3. HeldByPosition'
  BY <1>1 DEF IInv, TypeOK, HeldByPosition, NotDue, Due, ClaimNothing,
     DistillFails, PersistFails, Lost, Goto, States, Holding
<1> QED
  BY <1>1, <1>2, <1>3 DEF IInv, MarkedRows, FinishedIsReleased, ClaimsDisjoint,
     EpisodesDisjoint, ConsolidatedAccountedFor

\* What the answer carries is noted before anything of it is settled.
LEMMA DistillOkKeepsIInv ==
    ASSUME NEW t \in Turns, IInv, DistillOk(t)
    PROVE  IInv'
<1>1. PICK parts \in SUBSET Parts :
        /\ pc[t] = "distill"
        /\ pc' = [pc EXCEPT ![t] = "facts"]
        /\ answer' = [answer EXCEPT ![t] = parts]
        /\ UNCHANGED <<log, consolidated, cooling, held, facts, episode, settled>>
  BY DEF DistillOk, Goto, stored
<1>2. TypeOK'
  BY <1>1 DEF IInv, TypeOK, States, Holding
<1>3. HeldByPosition'
  BY <1>1 DEF IInv, TypeOK, HeldByPosition, Holding
<1>4. settled[t] = {}
  BY <1>1 DEF IInv, HeldByPosition
<1>5. \A u \in Turns \ {t} : answer'[u] = answer[u]
  BY <1>1 DEF IInv, TypeOK
<1>6. ConsolidatedAccountedFor'
  BY <1>1, <1>4, <1>5 DEF IInv, ConsolidatedAccountedFor
<1> QED
  BY <1>1, <1>2, <1>3, <1>6 DEF IInv, MarkedRows, FinishedIsReleased, ClaimsDisjoint,
     EpisodesDisjoint

\* Claiming takes only rows without an owner and without an episode: both
\* kinds are marked, and the claim's WHERE clause excludes marked rows.
LEMMA ClaimKeepsIInv ==
    ASSUME NEW t \in Turns, IInv, Claim(t)
    PROVE  IInv'
<1> DEFINE S == Eligible
<1>1. /\ S \subseteq log
      /\ S \cap consolidated = {}
      /\ S \cap cooling = {}
  BY DEF Eligible
<1>2. /\ pc[t] = "claim"
      /\ pc' = [pc EXCEPT ![t] = "distill"]
      /\ held' = [held EXCEPT ![t] = S]
      /\ consolidated' = consolidated \cup S
      /\ UNCHANGED <<log, cooling, answer, facts, episode, settled>>
  BY DEF Claim, Goto, stored
<1> HIDE DEF S
<1>3. TypeOK'
  BY <1>1, <1>2 DEF IInv, TypeOK, States, Holding
<1>4. HeldByPosition'
  BY <1>2 DEF IInv, TypeOK, HeldByPosition, Holding
<1>5. MarkedRows'
  BY <1>1, <1>2 DEF IInv, TypeOK, MarkedRows
<1>6. FinishedIsReleased'
  BY <1>1, <1>2 DEF IInv, TypeOK, MarkedRows, FinishedIsReleased
<1>7. ClaimsDisjoint'
  BY <1>1, <1>2 DEF IInv, TypeOK, MarkedRows, ClaimsDisjoint
<1>8. EpisodesDisjoint'
  BY <1>2 DEF IInv, EpisodesDisjoint
<1>9. ConsolidatedAccountedFor'
  <2> SUFFICES ASSUME NEW r \in consolidated'
               PROVE  \/ \E u \in Turns : r \in held'[u]
                      \/ \E u \in Turns : /\ r \in settled'[u]
                                          /\ "facts" \in answer'[u] => r \in facts'
                                          /\ "episode" \in answer'[u] => r \in episode'[u]
    BY DEF ConsolidatedAccountedFor
  <2>1. CASE r \in S
    BY <1>2, <2>1 DEF IInv, TypeOK
  <2>2. CASE r \in consolidated
    <3>1. held[t] = {}
      BY <1>2 DEF IInv, HeldByPosition, Holding
    <3> QED
      BY <1>2, <2>2, <3>1 DEF IInv, TypeOK, ConsolidatedAccountedFor
  <2> QED
    BY <1>2, <2>1, <2>2
<1> QED
  BY <1>3, <1>4, <1>5, <1>6, <1>7, <1>8, <1>9 DEF IInv

\* Writing the facts touches no claim.
LEMMA WriteFactsKeepsIInv ==
    ASSUME NEW t \in Turns, IInv, WriteFacts(t)
    PROVE  IInv'
<1>1. TypeOK'
  BY DEF IInv, TypeOK, WriteFacts, Goto, States, Holding
<1>2. HeldByPosition'
  BY DEF IInv, TypeOK, HeldByPosition, WriteFacts, Goto, Holding
<1>3. /\ facts \subseteq facts'
      /\ UNCHANGED <<consolidated, cooling, held, answer, episode, settled>>
  BY DEF WriteFacts
<1> QED
  BY <1>1, <1>2, <1>3 DEF IInv, MarkedRows, FinishedIsReleased, ClaimsDisjoint,
     EpisodesDisjoint, ConsolidatedAccountedFor

\* What is settled is exactly what the turn held, and the episode, if there
\* is one, sums up nothing else.
LEMMA WriteEpisodeKeepsIInv ==
    ASSUME NEW t \in Turns, IInv, WriteEpisode(t)
    PROVE  IInv'
<1> DEFINE E == IF "episode" \in answer[t] THEN held[t] ELSE {}
<1>1. /\ pc[t] = "episode"
      /\ pc' = [pc EXCEPT ![t] = "done"]
      /\ episode' = [episode EXCEPT ![t] = E]
      /\ settled' = [settled EXCEPT ![t] = held[t]]
      /\ held' = [held EXCEPT ![t] = {}]
      /\ UNCHANGED <<log, consolidated, cooling, answer, facts>>
  BY DEF WriteEpisode, Goto
<1>2. /\ E \subseteq held[t]
      /\ "episode" \in answer[t] => E = held[t]
  OBVIOUS
<1> HIDE DEF E
<1>3. TypeOK'
  BY <1>1, <1>2 DEF IInv, TypeOK, States, Holding
<1>4. HeldByPosition'
  BY <1>1 DEF IInv, TypeOK, HeldByPosition, Holding
<1>5. MarkedRows'
  BY <1>1, <1>2 DEF IInv, TypeOK, MarkedRows
<1>6. FinishedIsReleased'
  BY <1>1 DEF IInv, TypeOK, FinishedIsReleased, ClaimsDisjoint
<1>7. ClaimsDisjoint'
  BY <1>1 DEF IInv, TypeOK, ClaimsDisjoint
<1>8. \A u \in Turns \ {t} : episode[u] \cap held[t] = {}
  BY DEF IInv, MarkedRows, FinishedIsReleased
<1>9. EpisodesDisjoint'
  BY <1>1, <1>2, <1>8 DEF IInv, TypeOK, EpisodesDisjoint
<1>10. ConsolidatedAccountedFor'
  <2> SUFFICES ASSUME NEW r \in consolidated'
               PROVE  \/ \E u \in Turns : r \in held'[u]
                      \/ \E u \in Turns : /\ r \in settled'[u]
                                          /\ "facts" \in answer'[u] => r \in facts'
                                          /\ "episode" \in answer'[u] => r \in episode'[u]
    BY DEF ConsolidatedAccountedFor
  <2>1. CASE r \in held[t]
    <3>1. "facts" \in answer[t] => r \in facts
      BY <1>1, <2>1 DEF IInv, HeldByPosition
    <3>2. r \in settled'[t] /\ ("episode" \in answer[t] => r \in episode'[t])
      BY <1>1, <1>2, <2>1 DEF IInv, TypeOK
    <3> QED
      BY <1>1, <3>1, <3>2
  <2>2. CASE \E u \in Turns \ {t} : r \in held[u]
    BY <1>1, <2>2 DEF IInv, TypeOK
  <2>3. ASSUME NEW u \in Turns, r \in settled[u],
               "facts" \in answer[u] => r \in facts,
               "episode" \in answer[u] => r \in episode[u]
        PROVE  /\ r \in settled'[u]
               /\ "facts" \in answer[u] => r \in facts
               /\ "episode" \in answer[u] => r \in episode'[u]
    <3>1. u # t
      BY <1>1, <2>3 DEF IInv, HeldByPosition
    <3> QED
      BY <1>1, <2>3, <3>1 DEF IInv, TypeOK
  <2> QED
    BY <1>1, <2>1, <2>2, <2>3 DEF IInv, ConsolidatedAccountedFor
<1> QED
  BY <1>3, <1>4, <1>5, <1>6, <1>7, <1>9, <1>10 DEF IInv

\* Handing back one row: no other turn can hold it, so unmarking it is safe.
LEMMA GiveBackKeepsIInv ==
    ASSUME NEW t \in Turns, NEW r \in Rows, IInv, GiveBack(t, r)
    PROVE  IInv'
<1>1. /\ r \in held[t]
      /\ pc[t] = "give_back"
      /\ held' = [held EXCEPT ![t] = held[t] \ {r}]
      /\ consolidated' = consolidated \ {r}
      /\ cooling' = cooling \cup {r}
      /\ UNCHANGED <<log, answer, facts, episode, settled>>
  BY DEF GiveBack, Goto, stored
<1>2. \/ held[t] = {r} /\ pc' = [pc EXCEPT ![t] = "done"]
      \/ pc' = [pc EXCEPT ![t] = "give_back"]
  BY DEF GiveBack, Goto
<1>3. TypeOK'
  BY <1>1, <1>2 DEF IInv, TypeOK, States, Holding, MarkedRows, FinishedIsReleased
<1>4. HeldByPosition'
  BY <1>1, <1>2 DEF IInv, TypeOK, HeldByPosition, Holding
<1>5. MarkedRows'
  BY <1>1 DEF IInv, TypeOK, MarkedRows, ClaimsDisjoint, FinishedIsReleased
<1>6. FinishedIsReleased'
  BY <1>1 DEF IInv, TypeOK, FinishedIsReleased
<1>7. ClaimsDisjoint'
  BY <1>1 DEF IInv, TypeOK, ClaimsDisjoint
<1>8. EpisodesDisjoint'
  BY <1>1 DEF IInv, EpisodesDisjoint
<1>9. ConsolidatedAccountedFor'
  BY <1>1 DEF IInv, TypeOK, ConsolidatedAccountedFor
<1> QED
  BY <1>3, <1>4, <1>5, <1>6, <1>7, <1>8, <1>9 DEF IInv

\* Time passing for a cooling row.
LEMMA BackoffKeepsIInv ==
    ASSUME NEW r \in Rows, IInv, BackoffElapses(r)
    PROVE  IInv'
BY DEF IInv, BackoffElapses, stored, TypeOK, HeldByPosition, MarkedRows, FinishedIsReleased,
       ClaimsDisjoint, EpisodesDisjoint, ConsolidatedAccountedFor

LEMMA NextKeepsIInv == IInv /\ [Next]_vars => IInv'
<1> SUFFICES ASSUME IInv, [Next]_vars PROVE IInv'
  OBVIOUS
<1>1. CASE UNCHANGED vars
  BY <1>1 DEF vars, IInv, TypeOK, HeldByPosition, MarkedRows, FinishedIsReleased,
     ClaimsDisjoint, EpisodesDisjoint, ConsolidatedAccountedFor
<1>2. ASSUME NEW t \in Turns, TurnStep(t) PROVE IInv'
  BY <1>2, AppendKeepsIInv, MoveKeepsIInv, DistillOkKeepsIInv, ClaimKeepsIInv, WriteFactsKeepsIInv,
     WriteEpisodeKeepsIInv, GiveBackKeepsIInv DEF TurnStep
<1>3. ASSUME NEW t \in Turns, Lost(t) PROVE IInv'
  BY <1>3, MoveKeepsIInv
<1>4. ASSUME NEW r \in Rows, BackoffElapses(r) PROVE IInv'
  BY <1>4, BackoffKeepsIInv
<1> QED
  BY <1>1, <1>2, <1>3, <1>4 DEF Next, Quiescent

(***************************************************************************)
(* The inductive invariant holds in every reachable state: for any number  *)
(* of concurrent turns, with any of them failing or lost at any point.     *)
(***************************************************************************)
THEOREM Inductive == Spec => []IInv
BY InitIInv, NextKeepsIInv, PTL DEF Spec

(***************************************************************************)
(* Type correctness: in particular only logged rows are ever claimed.      *)
(***************************************************************************)
THEOREM TypeCorrect == Spec => []TypeOK
BY Inductive, PTL DEF IInv

(***************************************************************************)
(* Two concurrent turns never distil the same row.                         *)
(***************************************************************************)
THEOREM ExclusiveDistillation == Spec => []ClaimsDisjoint
BY Inductive, PTL DEF IInv

(***************************************************************************)
(* No row is summed up twice in episodic memory.                           *)
(***************************************************************************)
THEOREM NoDuplicateEpisode == Spec => []EpisodesDisjoint
BY Inductive, PTL DEF IInv

(***************************************************************************)
(* A row marked consolidated is in some turn's hands, or its distillation  *)
(* came to the end and all that the answer carried is stored.              *)
(***************************************************************************)
THEOREM NothingForgottenButLost == Spec => []ConsolidatedAccountedFor
BY Inductive, PTL DEF IInv

-----------------------------------------------------------------------------
(* Refinement: the claim over the database implements ExclusiveClaim.      *)

Open == log \ consolidated
Kept == consolidated \ UNION {held[t] : t \in Turns}

\* A row just inserted opens; a row inserted already changes nothing.
LEMMA AppendRefines ==
    ASSUME NEW t \in Turns, IInv, AppendUser(t) \/ AppendAssistant(t)
    PROVE  [Claims!Next]_(Claims!claimVars)
<1>1. PICK r \in Rows : /\ log' = log \cup {r}
                        /\ UNCHANGED <<consolidated, held>>
  BY DEF AppendUser, AppendAssistant, Rows
<1>2. UNCHANGED <<held, Kept>>
  BY <1>1 DEF Kept
<1>3. CASE r \in log
  BY <1>1, <1>2, <1>3 DEF Claims!claimVars, Kept
<1>4. CASE r \notin log
  <2>1. r \notin consolidated
    BY <1>4 DEF IInv, TypeOK
  <2>2. {r} \cap (Kept \cup UNION {held[w] : w \in Turns}) = {}
    BY <2>1 DEF IInv, MarkedRows, Kept
  <2>3. Claims!Insert({r})
    BY <1>1, <1>2, <2>1, <2>2 DEF Claims!Insert, Kept
  <2> QED
    BY <2>3 DEF Claims!Next
<1> QED
  BY <1>3, <1>4

\* The claim takes the eligible rows out of the open ones.
LEMMA ClaimRefines ==
    ASSUME NEW t \in Turns, IInv, Claim(t)
    PROVE  Claims!Next
<1> DEFINE S == Eligible
<1>1. /\ S # {}
      /\ S \subseteq Open
      /\ held[t] = {}
      /\ held' = [held EXCEPT ![t] = S]
      /\ consolidated' = consolidated \cup S
      /\ log' = log
  BY DEF Claim, Goto, Eligible, Open, IInv, HeldByPosition, Holding
<1>2. S \in SUBSET Rows
  BY DEF Eligible, IInv, TypeOK
<1> HIDE DEF S
<1>3. UNION {held'[w] : w \in Turns} = S \cup UNION {held[w] : w \in Turns}
  BY <1>1 DEF IInv, TypeOK
<1>4. Kept' = Kept
  BY <1>1, <1>3 DEF Kept, Open
<1>5. Claims!Take(t, S)
  BY <1>1, <1>4 DEF Claims!Take, Open, Kept
<1> QED
  BY <1>2, <1>5 DEF Claims!Next

\* Writing the episode keeps what the turn holds.
LEMMA WriteEpisodeRefines ==
    ASSUME NEW t \in Turns, IInv, WriteEpisode(t)
    PROVE  Claims!Next
<1>1. /\ held' = [held EXCEPT ![t] = {}]
      /\ UNCHANGED <<log, consolidated>>
  BY DEF WriteEpisode
<1>2. UNION {held'[w] : w \in Turns} = UNION {held[w] : w \in Turns \ {t}}
  BY <1>1 DEF IInv, TypeOK
<1>3. Kept' = Kept \cup held[t]
  BY <1>1, <1>2 DEF Kept, IInv, MarkedRows, ClaimsDisjoint
<1>4. Claims!Keep(t)
  BY <1>1, <1>3 DEF Claims!Keep, Kept
<1> QED
  BY <1>4 DEF Claims!Next

\* Handing a row back opens it again.
LEMMA GiveBackRefines ==
    ASSUME NEW t \in Turns, NEW r \in Rows, IInv, GiveBack(t, r)
    PROVE  Claims!Next
<1>1. /\ r \in held[t]
      /\ held' = [held EXCEPT ![t] = held[t] \ {r}]
      /\ consolidated' = consolidated \ {r}
      /\ log' = log
  BY DEF GiveBack
<1>2. r \in log /\ r \in consolidated
  BY <1>1 DEF IInv, TypeOK, MarkedRows
<1>3. \A u \in Turns \ {t} : r \notin held[u]
  BY <1>1 DEF IInv, ClaimsDisjoint
<1>4. UNION {held'[w] : w \in Turns} = (UNION {held[w] : w \in Turns}) \ {r}
  BY <1>1, <1>3 DEF IInv, TypeOK
<1>5. Kept' = Kept
  BY <1>1, <1>4 DEF Kept
<1>6. Open' = Open \cup {r}
  BY <1>1, <1>2 DEF Open
<1>7. Claims!GiveBack(t, {r})
  BY <1>1, <1>5, <1>6 DEF Claims!GiveBack, Open, Kept
<1> QED
  BY <1>7, {r} \in SUBSET Rows DEF Claims!Next

\* Every step of the log is a step of the abstract claim, or a stutter.
LEMMA StepRefines == IInv /\ [Next]_vars => [Claims!Next]_(Claims!claimVars)
<1> SUFFICES ASSUME IInv, [Next]_vars PROVE [Claims!Next]_(Claims!claimVars)
  OBVIOUS
<1>1. CASE UNCHANGED <<log, consolidated, held>>
  BY <1>1 DEF Claims!claimVars
<1>2. ASSUME NEW t \in Turns, TurnStep(t)
      PROVE  [Claims!Next]_(Claims!claimVars)
  <2>1. CASE UNCHANGED <<log, consolidated, held>>
    BY <1>1, <2>1
  <2>2. CASE NotDue(t) \/ Due(t) \/ ClaimNothing(t) \/ DistillOk(t)
               \/ DistillFails(t) \/ WriteFacts(t) \/ PersistFails(t)
    BY <2>1, <2>2 DEF NotDue, Due, ClaimNothing, DistillOk, DistillFails,
       WriteFacts, PersistFails
  <2> QED
    BY <1>2, <2>2, AppendRefines, ClaimRefines, WriteEpisodeRefines,
       GiveBackRefines DEF TurnStep
<1>3. ASSUME NEW t \in Turns, Lost(t) PROVE [Claims!Next]_(Claims!claimVars)
  BY <1>1, <1>3 DEF Lost
<1>4. ASSUME NEW r \in Rows, BackoffElapses(r)
      PROVE  [Claims!Next]_(Claims!claimVars)
  BY <1>1, <1>4 DEF BackoffElapses
<1>5. CASE Quiescent \/ UNCHANGED vars
  BY <1>1, <1>5 DEF Quiescent, vars
<1> QED
  BY <1>2, <1>3, <1>4, <1>5 DEF Next

(***************************************************************************)
(* Concurrent turns over chat_log implement the exclusive claim: whatever  *)
(* interleaving, a row is open, in one turn's hands, or kept for good.     *)
(***************************************************************************)
THEOREM LogImplementsClaims == Spec => ImplementsClaims
<1>1. Init => Claims!Init
  BY DEF Init, Claims!Init
<1>2. Spec => []IInv
  BY Inductive
<1> QED
  BY <1>1, <1>2, StepRefines, PTL DEF Spec, ImplementsClaims, Claims!Spec
=============================================================================
