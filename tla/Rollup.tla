------------------------------- MODULE Rollup -------------------------------
(***************************************************************************)
(* One session's working memory: the rows of chat_log, the exchanges that  *)
(* session_history pairs them into, the sliding window of recent exchanges *)
(* and the rolling summary that stands for everything pushed out of it     *)
(* (joyczl-state/src/chat.rs, joyczl-memory/src/compaction.rs, and         *)
(* load_history and full_turn of joyczl-app-server/src/turn.rs).           *)
(*                                                                         *)
(* Turns of one session are not serialised.  Each loads the history, folds *)
(* what fell out of its window into the summary, asks the model -- once    *)
(* more with a forced small window if the context overflowed -- and        *)
(* appends its exchange.  Every query is a step of its own, and may fail:  *)
(* the code goes on without its result.                                    *)
(*                                                                         *)
(* A summary is modelled as the sequence of exchanges it speaks of.  Rows  *)
(* are only ever appended, so the log is kept as what session_history      *)
(* makes of it: the exchanges found, and the user row still unanswered.    *)
(***************************************************************************)
EXTENDS Integers, Sequences, FiniteSets, SequencesExt

CONSTANTS
    Turns,            \* the turns to come
    Seed,             \* number of exchanges already in the session
    HistoryTurns,     \* settings.history_turns, the window's ceiling
    ForcedTurns,      \* FORCED_RETRY_TURNS
    ExcerptTurns,     \* how many full-length excerpts FALLBACK_CHARS holds
    MaxConcurrent,    \* bound: turns in flight at once
    SummariserFails,  \* BOOLEAN: may the summarising call fail?
    MaxFaults         \* bound: queries on the rollup or the history that fail

ASSUME RollupAssumption ==
    /\ Seed \in Nat
    /\ HistoryTurns \in Nat
    /\ ForcedTurns \in Nat \ {0}
    /\ ExcerptTurns \in Nat
    /\ MaxConcurrent \in Nat \ {0}
    /\ SummariserFails \in BOOLEAN
    /\ MaxFaults \in Nat

VARIABLES
    pc,        \* where each turn is
    log,       \* the session's chat_log rows, paired: [found, pending]
    rollup,    \* the context_rollups row: [covered, summary]
    pairs,     \* pairs[t]: the history t loaded
    window,    \* window[t]: how many of them t keeps verbatim
    announced, \* announced[t]: t fired the PreCompact hook
    previous,  \* previous[t]: the rollup t read first
    fresh,     \* fresh[t]: the exchanges t is folding in
    view,      \* view[t]: the summary that goes into t's prompt
    retried,   \* retried[t]: t has used its one retry
    faults,    \* how many queries have failed
    disturbed  \* history: did turns overlap, an excerpt stand in, a read fail?

local == <<pairs, window, announced, previous, fresh, view, retried>>
history == <<faults, disturbed>>
vars == <<pc, log, rollup, local, history>>

NoRollup == [covered |-> 0, summary |-> <<>>]

\* A session whose earlier turns all fitted their window: nothing summed up yet.
Init ==
    /\ pc = [t \in Turns |-> "new"]
    /\ log = [found |-> [k \in 1..Seed |-> <<k, k>>], pending |-> <<>>]
    /\ rollup = NoRollup
    /\ pairs = [t \in Turns |-> <<>>]
    /\ window = [t \in Turns |-> 0]
    /\ announced = [t \in Turns |-> FALSE]
    /\ previous = [t \in Turns |-> NoRollup]
    /\ fresh = [t \in Turns |-> <<>>]
    /\ view = [t \in Turns |-> <<>>]
    /\ retried = [t \in Turns |-> FALSE]
    /\ faults = 0
    /\ disturbed = {}

Goto(t, from, to) ==
    /\ pc[t] = from
    /\ pc' = [pc EXCEPT ![t] = to]

InFlight == {t \in Turns : pc[t] \notin {"new", "done"}}

\* A step whose queries, if any, are answered ...
Heard(what) ==
    /\ disturbed' = disturbed \cup what
    /\ UNCHANGED faults

\* ... and one whose query fails, unwrap_or and `if let` hiding it.
Swallowed(what) ==
    /\ faults < MaxFaults
    /\ faults' = faults + 1
    /\ disturbed' = disturbed \cup what

-----------------------------------------------------------------------------
(* Pure parts                                                              *)

\* session_history: a user row waits for the next assistant row; a second
\* user row replaces it, an assistant row with nobody waiting is dropped.
PairRow(acc, row) ==
    IF row.role = "user"
    THEN [acc EXCEPT !.pending = <<row.turn>>]
    ELSE [found   |-> IF acc.pending = <<>> THEN acc.found
                      ELSE Append(acc.found, <<acc.pending[1], row.turn>>),
          pending |-> <<>>]

\* How many exchanges have fallen out of a window of w.
EvictedLen(ps, w) == IF Len(ps) > w THEN Len(ps) - w ELSE 0

\* Mutant: the slice starts one past the watermark.
NewlyEvictedOffByOne(ps, w, covered) ==
    SubSeq(ps, covered + 2, EvictedLen(ps, w))

\* newly_evicted: the exchanges between the watermark and the window.
NewlyEvicted(ps, w, covered) == SubSeq(ps, covered + 1, EvictedLen(ps, w))

\* turns_that_fit keeps at least the newest exchange, and the ceiling caps it.
Windows(ps) ==
    {IF fit < HistoryTurns THEN fit ELSE HistoryTurns :
        fit \in IF ps = <<>> THEN {0} ELSE 1..Len(ps)}

\* What the prompt of t lets the model know of the session.
Known(t) ==
    ToSet(view[t]) \cup ToSet(SubSeq(pairs[t], EvictedLen(pairs[t], window[t]) + 1, Len(pairs[t])))

-----------------------------------------------------------------------------
(* load_history and compaction::refresh                                    *)

\* session_history, and the window this turn keeps of what it found.
LoadPairs(t, found, forced) ==
    /\ pairs' = [pairs EXCEPT ![t] = found]
    /\ \E w \in IF forced THEN {ForcedTurns} ELSE Windows(found) :
        window' = [window EXCEPT ![t] = w]
    /\ UNCHANGED <<log, rollup, announced, previous, fresh, view>>

\* A history that cannot be read counts as an empty one.
Begin(t) ==
    LET overlap == IF InFlight = {} THEN {} ELSE {"overlap"} IN
    /\ Cardinality(InFlight) < MaxConcurrent
    /\ Goto(t, "new", "announce")
    /\ \/ LoadPairs(t, log.found, FALSE) /\ Heard(overlap)
       \/ LoadPairs(t, <<>>, FALSE) /\ Swallowed(overlap \cup {"history"})
    /\ UNCHANGED retried

\* compaction::due, and the PreCompact hook if it says yes.
Announce(t) ==
    /\ Goto(t, "announce", "previous")
    /\ \E covered \in {0, rollup.covered} :
        /\ announced' = [announced EXCEPT
            ![t] = NewlyEvicted(pairs[t], window[t], covered) # <<>>]
        /\ IF covered = rollup.covered THEN Heard({}) ELSE Swallowed({})
    /\ UNCHANGED <<log, rollup, pairs, window, previous, fresh, view, retried>>

\* refresh reads the rollup for its text ...
ReadPrevious(t) ==
    /\ Goto(t, "previous", "covered")
    /\ \E found \in {NoRollup, rollup} :
        /\ previous' = [previous EXCEPT ![t] = found]
        /\ IF found = rollup THEN Heard({}) ELSE Swallowed({"text"})
    /\ UNCHANGED <<log, rollup, pairs, window, announced, fresh, view, retried>>

\* ... and then reads it again for its watermark.
ReadCovered(t) ==
    \E covered \in {0, rollup.covered} :
        LET new == NewlyEvicted(pairs[t], window[t], covered) IN
        /\ Goto(t, "covered", IF new = <<>> THEN "answer" ELSE "summarise")
        /\ fresh' = [fresh EXCEPT ![t] = new]
        /\ view' = [view EXCEPT ![t] = previous[t].summary]
        /\ IF covered = rollup.covered THEN Heard({}) ELSE Swallowed({"watermark"})
        /\ UNCHANGED <<log, rollup, pairs, window, announced, previous, retried>>

\* Mutant: the prompt leaves the previous summary out.
SummariseAnew(t) ==
    /\ Goto(t, "summarise", "save")
    /\ view' = [view EXCEPT ![t] = fresh[t]]
    /\ UNCHANGED <<log, rollup, pairs, window, announced, previous, fresh, retried, history>>

\* roll_forward, the model answered: its summary speaks of all it was given.
Summarise(t) ==
    /\ Goto(t, "summarise", "save")
    /\ view' = [view EXCEPT ![t] = previous[t].summary \o fresh[t]]
    /\ UNCHANGED <<log, rollup, pairs, window, announced, previous, fresh, retried, history>>

\* roll_forward, the model failed: previous summary and excerpts are joined and
\* the joined text is cut to its first FALLBACK_CHARS characters.
SummariseByExcerpt(t) ==
    LET joined == previous[t].summary \o fresh[t] IN
    /\ SummariserFails
    /\ Goto(t, "summarise", "save")
    /\ \E k \in 0..Len(joined) :
        /\ k >= ExcerptTurns \/ k = Len(joined)
        /\ view' = [view EXCEPT ![t] = SubSeq(joined, 1, k)]
    /\ Heard({"excerpt"})
    /\ UNCHANGED <<log, rollup, pairs, window, announced, previous, fresh, retried>>

CoveredNow(t) == previous[t].covered + Len(fresh[t])

\* Mutant: an upsert without the monotonic WHERE.
SaveAlways(t) ==
    /\ Goto(t, "save", "answer")
    /\ rollup' = [covered |-> CoveredNow(t), summary |-> view[t]]
    /\ UNCHANGED <<log, local, history>>

\* save_rollup: only a watermark further on is written.  A save that fails
\* costs nothing but the summary: this turn uses it, the next makes it anew.
Save(t) ==
    /\ Goto(t, "save", "answer")
    /\ \/ /\ rollup' = IF CoveredNow(t) > rollup.covered
                       THEN [covered |-> CoveredNow(t), summary |-> view[t]]
                       ELSE rollup
          /\ Heard({})
       \/ /\ Swallowed({})
          /\ UNCHANGED rollup
    /\ UNCHANGED <<log, local>>

-----------------------------------------------------------------------------
(* The rest of the turn                                                    *)

Answer(t) ==
    /\ Goto(t, "answer", "append_user")
    /\ UNCHANGED <<log, rollup, local, history>>

\* Context overflow: load the history again with the forced window, once.
Overflow(t) ==
    /\ ~retried[t]
    /\ Goto(t, "answer", "announce")
    /\ retried' = [retried EXCEPT ![t] = TRUE]
    /\ \/ LoadPairs(t, log.found, TRUE) /\ Heard({})
       \/ LoadPairs(t, <<>>, TRUE) /\ Swallowed({"history"})

\* Any other model error, or a second overflow: the turn leaves no trace.
AnswerFails(t) ==
    /\ Goto(t, "answer", "done")
    /\ UNCHANGED <<log, rollup, local, history>>

AppendUser(t) ==
    /\ Goto(t, "append_user", "append_reply")
    /\ log' = PairRow(log, [turn |-> t, role |-> "user"])
    /\ UNCHANGED <<rollup, local, history>>

AppendAssistant(t) ==
    /\ Goto(t, "append_reply", "done")
    /\ log' = PairRow(log, [turn |-> t, role |-> "assistant"])
    /\ UNCHANGED <<rollup, local, history>>

\* The future is dropped, the process dies, or an INSERT fails, between two steps.
Lost(t) ==
    /\ pc[t] \notin {"new", "done"}
    /\ pc' = [pc EXCEPT ![t] = "done"]
    /\ UNCHANGED <<log, rollup, local, history>>

TurnStep(t) ==
    \/ Begin(t)
    \/ Announce(t)
    \/ ReadPrevious(t)
    \/ ReadCovered(t)
    \/ Summarise(t)
    \/ SummariseByExcerpt(t)
    \/ Save(t)
    \/ Answer(t)
    \/ Overflow(t)
    \/ AnswerFails(t)
    \/ AppendUser(t)
    \/ AppendAssistant(t)
    \/ Lost(t)

AllDone ==
    /\ \A t \in Turns : pc[t] = "done"
    /\ UNCHANGED vars

Next == AllDone \/ \E t \in Turns : TurnStep(t)

Spec == Init /\ [][Next]_vars

-----------------------------------------------------------------------------
Sides == Turns \cup (1..Seed)
Exchanges == Sides \X Sides
Rollups == [covered : Nat, summary : Seq(Exchanges)]

TypeOK ==
    /\ pc \in [Turns -> {"new", "announce", "previous", "covered", "summarise", "save",
                         "answer", "append_user", "append_reply", "done"}]
    /\ log \in [found : Seq(Exchanges), pending : {<<>>} \cup {<<u>> : u \in Sides}]
    /\ rollup \in Rollups
    /\ pairs \in [Turns -> Seq(Exchanges)]
    /\ window \in [Turns -> 0..HistoryTurns \cup {ForcedTurns}]
    /\ announced \in [Turns -> BOOLEAN]
    /\ previous \in [Turns -> Rollups]
    /\ fresh \in [Turns -> Seq(Exchanges)]
    /\ view \in [Turns -> Seq(Exchanges)]
    /\ retried \in [Turns -> BOOLEAN]
    /\ faults \in 0..MaxFaults
    /\ disturbed \subseteq {"overlap", "excerpt", "history", "text", "watermark"}

\* What a window keeps of a session that has a history, at the least.
LeastWindow == IF HistoryTurns = 0 THEN 0 ELSE 1

(***************************************************************************)
(* The newest exchange of a session, if a window keeps any, is not behind  *)
(* the watermark: however refreshes overlap, each adding the length of a   *)
(* slice reckoned from its second read of the rollup to the watermark of   *)
(* its first (compaction.rs:201-208), and whatever fails, the sum never    *)
(* runs ahead of what has left a window; what it ran ahead of would never  *)
(* be summed up.  Only a watermark that cannot be read, and is taken for   *)
(* 0, breaks it.                                                           *)
(***************************************************************************)
WatermarkStaysBehind ==
    "watermark" \notin disturbed /\ rollup.covered # 0
        => rollup.covered + LeastWindow <= Len(log.found)

(***************************************************************************)
(* architecture.md: "eviction never means amnesia".  When a turn asks the  *)
(* model, every exchange of the session is either verbatim in its window   *)
(* or spoken of in its summary, as long as turns follow one another, the   *)
(* summariser answers and the reads succeed, wherever any of them dies,    *)
(* overflows or cannot save.                                               *)
(***************************************************************************)
CalmTurnsForgetNothing ==
    disturbed = {} => \A t \in Turns : pc[t] = "answer" => ToSet(log.found) \subseteq Known(t)

(***************************************************************************)
(* The stored summary speaks of everything its watermark claims, under the *)
(* same conditions (compaction.rs refresh, save_rollup).                   *)
(***************************************************************************)
CalmSummaryCoversWatermark ==
    disturbed = {} => \A i \in 1..rollup.covered :
        log.found[i] \in ToSet(rollup.summary)
=============================================================================
