------------------------------ MODULE ChatLog -------------------------------
(***************************************************************************)
(* The raw conversation log and its consolidation into long-term memory    *)
(* (joyczl-state/src/chat.rs, joyczl-memory/src/consolidation.rs).         *)
(*                                                                         *)
(* A turn that has been answered appends its two rows and then distils the *)
(* backlog if enough has piled up.  Turns run concurrently -- turn/start   *)
(* is handled concurrently, and the REPL, the daemon and the scheduler are *)
(* separate processes on one state.db -- so every SQL statement is a step  *)
(* of its own.  The log is shared by all sessions.                         *)
(***************************************************************************)
EXTENDS Naturals, FiniteSets

CONSTANTS
    Turns,    \* the turns, of whatever session or process
    EveryN,   \* settings.consolidate_every
    MaxLost   \* bound: how many turns may be lost

ASSUME EveryNAssumption == EveryN \in Nat

Rows == Turns \X {"user", "assistant"}

VARIABLES
    pc,            \* where each turn is in the tail of run_turn
    log,           \* chat_log: the rows inserted so far
    consolidated,  \* rows with consolidated = 1
    cooling,       \* rows whose consolidation_next_at lies in the future
    held,          \* held[t]: the rows t claimed and has not settled
    answer,        \* answer[t]: what the JSON of t's distillation carries
    facts,         \* rows whose distilled facts were offered to facts.add
    episode,       \* episode[t]: the rows summed up by the episode t added
    settled        \* history: the rows whose distillation t brought to its end

vars == <<pc, log, consolidated, cooling, held, answer, facts, episode, settled>>
stored == <<facts, episode, settled>>

(***************************************************************************)
(* "lost": the turn's future is gone -- the process died, the runtime      *)
(* exited with turns in flight, or a `?` left the function on a database   *)
(* error.  Nothing it held locally is ever used again.                     *)
(***************************************************************************)
Holding == {"distill", "facts", "episode", "give_back", "lost"}
Parts == {"facts", "episode"}
States == {"append_user", "append_reply", "due", "claim", "done"} \cup Holding

Init ==
    /\ pc = [t \in Turns |-> "append_user"]
    /\ log = {}
    /\ consolidated = {}
    /\ cooling = {}
    /\ held = [t \in Turns |-> {}]
    /\ answer = [t \in Turns |-> {}]
    /\ facts = {}
    /\ episode = [t \in Turns |-> {}]
    /\ settled = [t \in Turns |-> {}]

Goto(t, from, to) ==
    /\ pc[t] = from
    /\ pc' = [pc EXCEPT ![t] = to]

Eligible == {r \in log : r \notin consolidated /\ r \notin cooling}

\* One exchange is two rows.
Threshold == 2 * (IF EveryN = 0 THEN 1 ELSE EveryN)

-----------------------------------------------------------------------------
(* append_exchange: two INSERTs, no transaction around them.               *)

AppendUser(t) ==
    /\ Goto(t, "append_user", "append_reply")
    /\ log' = log \cup {<<t, "user">>}
    /\ UNCHANGED <<consolidated, cooling, held, answer, stored>>

AppendAssistant(t) ==
    /\ Goto(t, "append_reply", "due")
    /\ log' = log \cup {<<t, "assistant">>}
    /\ UNCHANGED <<consolidated, cooling, held, answer, stored>>

-----------------------------------------------------------------------------
(* consolidate_if_due                                                      *)

NotDue(t) ==
    /\ Cardinality(Eligible) < Threshold
    /\ Goto(t, "due", "done")
    /\ UNCHANGED <<log, consolidated, cooling, held, answer, stored>>

Due(t) ==
    /\ Cardinality(Eligible) >= Threshold
    /\ Goto(t, "due", "claim")
    /\ UNCHANGED <<log, consolidated, cooling, held, answer, stored>>

\* Mutant: read the batch now, mark it only when the distillation is done.
ClaimByReading(t) ==
    /\ Eligible # {}
    /\ Goto(t, "claim", "distill")
    /\ held' = [held EXCEPT ![t] = Eligible]
    /\ UNCHANGED <<log, consolidated, cooling, answer, stored>>

\* UPDATE .. SET consolidated = 1 .. RETURNING: select and mark in one statement.
Claim(t) ==
    /\ Eligible # {}
    /\ Goto(t, "claim", "distill")
    /\ held' = [held EXCEPT ![t] = Eligible]
    /\ consolidated' = consolidated \cup Eligible
    /\ UNCHANGED <<log, cooling, answer, stored>>

ClaimNothing(t) ==
    /\ Eligible = {}
    /\ Goto(t, "claim", "done")
    /\ UNCHANGED <<log, consolidated, cooling, held, answer, stored>>

\* The small model answered with JSON that parses.  It may carry facts, an
\* episode, both or neither: an empty object is JSON too.
DistillOk(t) ==
    /\ Goto(t, "distill", "facts")
    /\ \E parts \in SUBSET Parts : answer' = [answer EXCEPT ![t] = parts]
    /\ UNCHANGED <<log, consolidated, cooling, held, stored>>

\* Mutant: an early return that forgets to hand the claim back.
DistillFailsForgetting(t) ==
    /\ Goto(t, "distill", "done")
    /\ held' = [held EXCEPT ![t] = {}]
    /\ UNCHANGED <<log, consolidated, cooling, answer, stored>>

\* The model call failed, no JSON was found in the answer, or it did not parse.
DistillFails(t) ==
    /\ Goto(t, "distill", "give_back")
    /\ UNCHANGED <<log, consolidated, cooling, held, answer, stored>>

\* persist, first half: the facts there are, each through the de-duplicating
\* facts.add.
WriteFacts(t) ==
    /\ Goto(t, "facts", "episode")
    /\ facts' = IF "facts" \in answer[t] THEN facts \cup held[t] ELSE facts
    /\ UNCHANGED <<log, consolidated, cooling, held, answer, episode, settled>>

\* persist, second half: the one episode, if there is one.  Either way the
\* rows stay marked: the claim is now settled.
WriteEpisode(t) ==
    /\ Goto(t, "episode", "done")
    /\ episode' = [episode EXCEPT ![t] =
                      IF "episode" \in answer[t] THEN held[t] ELSE {}]
    /\ settled' = [settled EXCEPT ![t] = held[t]]
    /\ held' = [held EXCEPT ![t] = {}]
    /\ UNCHANGED <<log, consolidated, cooling, answer, facts>>

\* Mutant: the error of the second half is passed on with the claim kept.
PersistFailsHalfway(t) ==
    \/ /\ Goto(t, "facts", "give_back")
       /\ UNCHANGED <<log, consolidated, cooling, held, answer, stored>>
    \/ /\ Goto(t, "episode", "done")
       /\ held' = [held EXCEPT ![t] = {}]
       /\ settled' = [settled EXCEPT ![t] = held[t]]
       /\ UNCHANGED <<log, consolidated, cooling, answer, facts, episode>>

\* facts.add or episodes.add returned an error.
PersistFails(t) ==
    /\ \/ Goto(t, "facts", "give_back")
       \/ Goto(t, "episode", "give_back")
    /\ UNCHANGED <<log, consolidated, cooling, held, answer, stored>>

\* mark_consolidation_failed, one row of its loop.
GiveBack(t, r) ==
    /\ r \in held[t]
    /\ Goto(t, "give_back", IF held[t] = {r} THEN "done" ELSE "give_back")
    /\ held' = [held EXCEPT ![t] = @ \ {r}]
    /\ consolidated' = consolidated \ {r}
    /\ cooling' = cooling \cup {r}
    /\ UNCHANGED <<log, answer, stored>>

-----------------------------------------------------------------------------
\* datetime('now') passes the row's consolidation_next_at.
BackoffElapses(r) ==
    /\ r \in cooling
    /\ cooling' = cooling \ {r}
    /\ UNCHANGED <<pc, log, consolidated, held, answer, stored>>

Lost(t) ==
    /\ pc[t] \notin {"done", "lost"}
    /\ Cardinality({u \in Turns : pc[u] = "lost"}) < MaxLost
    /\ pc' = [pc EXCEPT ![t] = "lost"]
    /\ UNCHANGED <<log, consolidated, cooling, held, answer, stored>>

\* Every turn has run its course and no row is waiting.
Quiescent ==
    /\ \A t \in Turns : pc[t] \in {"done", "lost"}
    /\ cooling = {}
    /\ UNCHANGED vars

TurnStep(t) ==
    \/ AppendUser(t)
    \/ AppendAssistant(t)
    \/ NotDue(t)
    \/ Due(t)
    \/ Claim(t)
    \/ ClaimNothing(t)
    \/ DistillOk(t)
    \/ DistillFails(t)
    \/ WriteFacts(t)
    \/ WriteEpisode(t)
    \/ PersistFails(t)
    \/ \E r \in Rows : GiveBack(t, r)

Next ==
    \/ \E t \in Turns : TurnStep(t) \/ Lost(t)
    \/ \E r \in Rows : BackoffElapses(r)
    \/ Quiescent

Spec == Init /\ [][Next]_vars

(***************************************************************************)
(* A turn is a tokio task: it is polled as long as it can move, its model  *)
(* call ends because the HTTP client has a timeout (llm_timeout_secs) and  *)
(* the retries are bounded.  Nothing promises that a turn is never lost.   *)
(***************************************************************************)
FairSpec == Spec /\ \A t \in Turns : WF_vars(TurnStep(t))

-----------------------------------------------------------------------------
TypeOK ==
    /\ pc \in [Turns -> States]
    /\ log \subseteq Rows
    /\ consolidated \subseteq log
    /\ cooling \subseteq log
    /\ held \in [Turns -> SUBSET log]
    /\ answer \in [Turns -> SUBSET Parts]
    /\ facts \subseteq log
    /\ episode \in [Turns -> SUBSET log]
    /\ settled \in [Turns -> SUBSET log]

(***************************************************************************)
(* Two turns never distil the same row at the same time: the claim is one  *)
(* statement, and the loser gets other rows or none.                       *)
(***************************************************************************)
ClaimsDisjoint ==
    \A t, u \in Turns : t # u => held[t] \cap held[u] = {}

(***************************************************************************)
(* No row is ever summed up by two episodes, whatever fails and is retried *)
(* in between: episodes, unlike facts, have no unique index to catch it.   *)
(***************************************************************************)
EpisodesDisjoint ==
    \A t, u \in Turns : t # u => episode[t] \cap episode[u] = {}

(***************************************************************************)
(* A row marked consolidated is in the hands of the turn that claimed it   *)
(* (dead or alive), or its distillation came to its end and all that the   *)
(* answer carried is stored.  So no failure between the mark and the end,  *)
(* not even half-way through persist, leaves a row marked.  (An answer     *)
(* that parses and carries nothing does settle its rows: that is the       *)
(* model's word, and the second way besides losing the turn in which a row *)
(* ends without a trace.)                                                  *)
(***************************************************************************)
ConsolidatedAccountedFor ==
    \A r \in consolidated :
        \/ \E t \in Turns : r \in held[t]
        \/ \E t \in Turns :
             /\ r \in settled[t]
             /\ "facts" \in answer[t] => r \in facts
             /\ "episode" \in answer[t] => r \in episode[t]

(***************************************************************************)
(* A claimed row is settled -- distilled to the end, or handed back to be  *)
(* retried -- or its turn is lost: the two-step "mark first, work later"   *)
(* never leaves a living turn sitting on rows.                             *)
(***************************************************************************)
ClaimsAreSettled ==
    \A t \in Turns, r \in Rows :
        r \in held[t] ~> (r \notin consolidated \/ r \in settled[t] \/ pc[t] = "lost")

Claims == INSTANCE ExclusiveClaim WITH
    Items <- Rows,
    Workers <- Turns,
    open <- log \ consolidated,
    work <- held,
    kept <- consolidated \ UNION {held[t] : t \in Turns}

\* The database-level claim implements the abstract exclusive claim.
ImplementsClaims == Claims!Spec
=============================================================================
