------------------------- MODULE ConversationProofs -------------------------
(***************************************************************************)
(* What a conversation keeps and what its tools may do. "Eviction never    *)
(* means amnesia", for every number of turns, every window and however     *)
(* long the session is: the rolling summary of a session whose turns       *)
(* follow one another speaks of all that left the window. No tool runs     *)
(* against a gate, for every file of hooks, whatever its commands answer   *)
(* and whenever the file changes. A model that goes in circles is told so, *)
(* however long the turn. And the requests keep to the budget without a    *)
(* warning being cut away, for every budget and whatever the shape of the  *)
(* results.                                                                *)
(***************************************************************************)
EXTENDS Rollup, ToolCalls, SequenceTheorems, FiniteSetTheorems, WellFoundedInduction, TLAPS

\* One turn of the session at a time.
Alone == \A s, t \in InFlight : s = t

\* The stored summary speaks of the exchanges up to its watermark.
Covered ==
    /\ rollup.covered <= Len(log.found)
    /\ \A i \in 1..rollup.covered : log.found[i] \in ToSet(rollup.summary)

\* What the turn in flight has read is still so.
Current(t) ==
    /\ pc[t] \in {"announce", "previous", "covered", "summarise", "save", "answer"} =>
           pairs[t] = log.found
    /\ pc[t] \in {"covered", "summarise", "save"} => previous[t] = rollup
    /\ pc[t] \in {"summarise", "save"} =>
           fresh[t] = NewlyEvicted(pairs[t], window[t], rollup.covered)
    /\ pc[t] = "save" => view[t] = rollup.summary \o fresh[t]
    /\ pc[t] = "answer" => ToSet(pairs[t]) \subseteq Known(t)

Calm == disturbed = {} => Alone /\ Covered /\ \A t \in Turns : Current(t)

-----------------------------------------------------------------------------
(* Types                                                                   *)

LEMMA TypesAtTheStart == Init => TypeOK
<1> SUFFICES ASSUME Init PROVE TypeOK
    OBVIOUS
<1>1. [k \in 1..Seed |-> <<k, k>>] \in Seq(Exchanges)
    BY RollupAssumption DEF Exchanges, Sides
<1>2. NoRollup \in Rollups
    BY DEF NoRollup, Rollups
<1> QED
    BY <1>1, <1>2, RollupAssumption DEF Init, TypeOK

\* session_history keeps the log's type, whatever row comes next.
LEMMA PairRowType ==
    ASSUME TypeOK, NEW t \in Turns, NEW role \in {"user", "assistant"},
           log' = PairRow(log, [turn |-> t, role |-> role])
    PROVE  /\ log' \in [found : Seq(Exchanges), pending : {<<>>} \cup {<<u>> : u \in Sides}]
           /\ role = "user" => log'.found = log.found
           /\ Len(log.found) <= Len(log'.found)
           /\ \A i \in 1..Len(log.found) : log'.found[i] = log.found[i]
<1>0. /\ log.found \in Seq(Exchanges) /\ t \in Sides
      /\ log.pending \in {<<>>} \cup {<<u>> : u \in Sides}
    BY DEF TypeOK, Sides
<1>1. CASE role = "user"
    <2>1. log' = [log EXCEPT !.pending = <<t>>]
        BY <1>1 DEF PairRow
    <2>2. log'.found = log.found /\ log'.pending = <<t>>
        BY <2>1 DEF TypeOK
    <2>3. log' \in [found : Seq(Exchanges), pending : {<<>>} \cup {<<u>> : u \in Sides}]
        BY <1>0, <2>1 DEF TypeOK
    <2> QED
        BY <1>0, <2>2, <2>3
<1>2. CASE role = "assistant" /\ log.pending = <<>>
    <2>1. log' = [found |-> log.found, pending |-> <<>>]
        BY <1>2 DEF PairRow
    <2> QED
        BY <1>0, <1>2, <2>1
<1>3. CASE role = "assistant" /\ log.pending # <<>>
    <2>1. PICK u \in Sides : log.pending = <<u>>
        BY <1>0, <1>3
    <2> DEFINE longer == Append(log.found, <<u, t>>)
    <2>2. log' = [found |-> longer, pending |-> <<>>]
        BY <1>3, <2>1 DEF PairRow
    <2>3. <<u, t>> \in Exchanges
        BY <1>0 DEF Exchanges
    <2>4. /\ longer \in Seq(Exchanges) /\ Len(longer) = Len(log.found) + 1
          /\ \A i \in 1..Len(log.found) : longer[i] = log.found[i]
        BY <1>0, <2>3, AppendProperties
    <2> HIDE DEF longer
    <2> QED
        BY <1>0, <1>3, <2>2, <2>4
<1> QED
    BY <1>1, <1>2, <1>3

LEMMA EvictedType ==
    ASSUME NEW ps \in Seq(Exchanges), NEW w \in Nat, NEW c \in Nat
    PROVE  /\ EvictedLen(ps, w) \in 0..Len(ps)
           /\ NewlyEvicted(ps, w, c) \in Seq(Exchanges)
           /\ Len(NewlyEvicted(ps, w, c)) =
                  IF c < EvictedLen(ps, w) THEN EvictedLen(ps, w) - c ELSE 0
           /\ \A i \in 1..Len(NewlyEvicted(ps, w, c)) : NewlyEvicted(ps, w, c)[i] = ps[c + i]
<1>1. Len(ps) \in Nat
    OBVIOUS
<1>2. EvictedLen(ps, w) \in 0..Len(ps)
    BY <1>1 DEF EvictedLen
<1> DEFINE e == EvictedLen(ps, w)
<1> HIDE DEF e
<1>3. e \in 0..Len(ps)
    BY <1>2 DEF e
<1>4. /\ SubSeq(ps, c + 1, e) \in Seq(Exchanges)
      /\ Len(SubSeq(ps, c + 1, e)) = IF c < e THEN e - c ELSE 0
      /\ \A i \in 1..Len(SubSeq(ps, c + 1, e)) : SubSeq(ps, c + 1, e)[i] = ps[c + i]
    BY <1>1, <1>3
<1> QED
    BY <1>2, <1>4 DEF NewlyEvicted, e

LEMMA LoadTypes ==
    ASSUME TypeOK, NEW t \in Turns, NEW forced \in BOOLEAN, NEW found \in Seq(Exchanges),
           LoadPairs(t, found, forced)
    PROVE  /\ pairs' \in [Turns -> Seq(Exchanges)]
           /\ window' \in [Turns -> 0..HistoryTurns \cup {ForcedTurns}]
           /\ found # <<>> => window'[t] >= LeastWindow
<1>1. Len(found) \in Nat /\ (found = <<>> <=> Len(found) = 0)
    BY EmptySeq
<1>2. /\ Windows(found) \subseteq 0..HistoryTurns
      /\ found # <<>> => \A w \in Windows(found) : w >= LeastWindow
    BY <1>1, RollupAssumption DEF Windows, LeastWindow
<1>3. PICK w \in IF forced THEN {ForcedTurns} ELSE Windows(found) :
          window' = [window EXCEPT ![t] = w]
    BY DEF LoadPairs
<1>4. /\ w \in (0..HistoryTurns) \cup {ForcedTurns}
      /\ found # <<>> => w >= LeastWindow
    BY <1>2, <1>3, RollupAssumption DEF LeastWindow
<1> QED
    BY <1>3, <1>4 DEF LoadPairs, TypeOK

\* Whether a step's query succeeds or fails, the histories keep their types.
LEMMA HistoryTypes ==
    ASSUME TypeOK,
           NEW what \in SUBSET {"overlap", "excerpt", "history", "text", "watermark"},
           Heard(what) \/ Swallowed(what)
    PROVE  /\ faults' \in 0..MaxFaults
           /\ disturbed' \subseteq {"overlap", "excerpt", "history", "text", "watermark"}
           /\ disturbed \subseteq disturbed'
<1>1. faults \in Nat /\ MaxFaults \in Nat /\ faults <= MaxFaults
    BY RollupAssumption DEF TypeOK
<1>2. faults' = faults \/ (faults < MaxFaults /\ faults' = faults + 1)
    BY DEF Heard, Swallowed
<1>3. disturbed' = disturbed \cup what
    BY DEF Heard, Swallowed
<1>4. faults' \in 0..MaxFaults
    BY <1>1, <1>2
<1>5. disturbed' \subseteq {"overlap", "excerpt", "history", "text", "watermark"}
    BY <1>3 DEF TypeOK
<1> QED
    BY <1>3, <1>4, <1>5

\* The history a turn loads, or fails to, is a sequence of exchanges no longer
\* than the one there is.
LEMMA FoundType ==
    ASSUME TypeOK, NEW found \in {log.found, <<>>}
    PROVE  found \in Seq(Exchanges) /\ Len(found) <= Len(log.found)
<1>1. log.found \in Seq(Exchanges) /\ Len(log.found) \in Nat
    BY DEF TypeOK
<1>2. CASE found = log.found
    BY <1>1, <1>2
<1>3. CASE found = <<>>
    <2>1. <<>> \in Seq(Exchanges) /\ Len(<<>>) = 0
        OBVIOUS
    <2> QED
        BY <1>1, <1>3, <2>1
<1> QED
    BY <1>2, <1>3

LEMMA StepKeepsTypes ==
    ASSUME TypeOK, NEW t \in Turns, TurnStep(t)
    PROVE  TypeOK'
<1>0. /\ rollup \in Rollups /\ pairs[t] \in Seq(Exchanges) /\ window[t] \in Nat
      /\ previous[t] \in Rollups /\ fresh[t] \in Seq(Exchanges) /\ view[t] \in Seq(Exchanges)
    BY RollupAssumption DEF TypeOK
<1>1. rollup.covered \in Nat /\ rollup.summary \in Seq(Exchanges)
      /\ previous[t].covered \in Nat /\ previous[t].summary \in Seq(Exchanges)
    BY <1>0 DEF Rollups
<1>2. CASE Begin(t)
    <2>1. PICK found \in {log.found, <<>>}, what \in SUBSET {"overlap", "history"} :
              LoadPairs(t, found, FALSE) /\ (Heard(what) \/ Swallowed(what))
        BY <1>2 DEF Begin
    <2>2. found \in Seq(Exchanges)
        BY <2>1, FoundType
    <2> QED
        BY <1>2, <2>1, <2>2, LoadTypes, HistoryTypes DEF Begin, Goto, LoadPairs, TypeOK
<1>3. CASE Announce(t)
    <2>1. Heard({}) \/ Swallowed({})
        BY <1>3 DEF Announce
    <2>2. announced' \in [Turns -> BOOLEAN]
        BY <1>3 DEF Announce, TypeOK
    <2> QED
        BY <1>3, <2>1, <2>2, HistoryTypes DEF Announce, Goto, TypeOK
<1>4. CASE ReadPrevious(t)
    <2>1. PICK what \in {{}, {"text"}} : Heard(what) \/ Swallowed(what)
        BY <1>4 DEF ReadPrevious
    <2>2. NoRollup \in Rollups
        BY DEF NoRollup, Rollups
    <2>3. previous' \in [Turns -> Rollups]
        BY <1>0, <1>4, <2>2 DEF ReadPrevious, TypeOK
    <2> QED
        BY <1>4, <2>1, <2>3, HistoryTypes DEF ReadPrevious, Goto, TypeOK
<1>5. CASE ReadCovered(t)
    <2>1. PICK covered \in {0, rollup.covered}, what \in {{}, {"watermark"}} :
              /\ fresh' = [fresh EXCEPT ![t] = NewlyEvicted(pairs[t], window[t], covered)]
              /\ Heard(what) \/ Swallowed(what)
        BY <1>5 DEF ReadCovered
    <2>2. NewlyEvicted(pairs[t], window[t], covered) \in Seq(Exchanges)
        BY <1>0, <1>1, EvictedType
    <2>3. fresh' \in [Turns -> Seq(Exchanges)] /\ view' \in [Turns -> Seq(Exchanges)]
        BY <1>0, <1>1, <1>5, <2>1, <2>2 DEF ReadCovered, TypeOK
    <2>4. pc' \in [Turns -> {"new", "announce", "previous", "covered", "summarise", "save",
                         "answer", "append_user", "append_reply", "done"}]
        BY <1>5 DEF ReadCovered, Goto, TypeOK
    <2>5. UNCHANGED <<log, rollup, pairs, window, announced, previous, retried>>
        BY <1>5 DEF ReadCovered
    <2> QED
        BY <2>1, <2>3, <2>4, <2>5, HistoryTypes DEF TypeOK
<1>6. previous[t].summary \o fresh[t] \in Seq(Exchanges)
    BY <1>0, <1>1, ConcatProperties
<1>7. CASE Summarise(t)
    BY <1>6, <1>7 DEF Summarise, Goto, history, TypeOK
<1>8. CASE SummariseByExcerpt(t)
    <2> DEFINE joined == previous[t].summary \o fresh[t]
    <2> HIDE DEF joined
    <2>1. joined \in Seq(Exchanges)
        BY <1>6 DEF joined
    <2>2. PICK k \in 0..Len(joined) : view' = [view EXCEPT ![t] = SubSeq(joined, 1, k)]
        BY <1>8 DEF SummariseByExcerpt, joined
    <2>3. SubSeq(joined, 1, k) \in Seq(Exchanges)
        BY <2>1
    <2>4. view' \in [Turns -> Seq(Exchanges)]
        BY <2>2, <2>3 DEF TypeOK
    <2> QED
        BY <1>8, <2>4, HistoryTypes DEF SummariseByExcerpt, Goto, TypeOK
<1>9. CASE Save(t)
    <2>1. CoveredNow(t) \in Nat
        BY <1>0, <1>1 DEF CoveredNow
    <2>2. rollup' \in Rollups
        BY <1>0, <1>9, <2>1 DEF Save, Rollups
    <2> QED
        BY <1>9, <2>2, HistoryTypes DEF Save, Goto, local, TypeOK
<1>10. CASE Answer(t)
    BY <1>10 DEF Answer, Goto, local, history, TypeOK
<1>11. CASE Overflow(t)
    <2>1. PICK found \in {log.found, <<>>}, what \in {{}, {"history"}} :
              LoadPairs(t, found, TRUE) /\ (Heard(what) \/ Swallowed(what))
        BY <1>11 DEF Overflow
    <2>2. found \in Seq(Exchanges)
        BY <2>1, FoundType
    <2> QED
        BY <1>11, <2>1, <2>2, LoadTypes, HistoryTypes DEF Overflow, Goto, LoadPairs, TypeOK
<1>12. CASE AnswerFails(t)
    BY <1>12 DEF AnswerFails, Goto, local, history, TypeOK
<1>13. CASE AppendUser(t)
    BY <1>13, PairRowType DEF AppendUser, Goto, local, history, TypeOK
<1>14. CASE AppendAssistant(t)
    BY <1>14, PairRowType DEF AppendAssistant, Goto, local, history, TypeOK
<1>15. CASE Lost(t)
    BY <1>15 DEF Lost, local, history, TypeOK
<1> QED
    BY <1>2, <1>3, <1>4, <1>5, <1>7, <1>8, <1>9, <1>10, <1>11, <1>12, <1>13, <1>14, <1>15
    DEF TurnStep

LEMMA TypesKept == TypeOK /\ [Next]_vars => TypeOK'
<1> SUFFICES ASSUME TypeOK, [Next]_vars PROVE TypeOK'
    OBVIOUS
<1>1. ASSUME NEW t \in Turns, TurnStep(t) PROVE TypeOK'
    BY <1>1, StepKeepsTypes
<1>2. CASE UNCHANGED vars
    BY <1>2 DEF vars, local, history, TypeOK
<1> QED
    BY <1>1, <1>2 DEF Next, AllDone

(***************************************************************************)
(* The tables of the session keep their types.                             *)
(***************************************************************************)
THEOREM RollupTypeCorrect == Spec => []TypeOK
BY TypesAtTheStart, TypesKept, PTL DEF Spec

-----------------------------------------------------------------------------
(* The watermark                                                           *)

\* What a turn has read, or is about to save, is no further on than what is
\* stored, or what has left its window.
Reaches(t) ==
    /\ Len(pairs[t]) <= Len(log.found)
    /\ pairs[t] # <<>> => window[t] >= LeastWindow
    /\ pc[t] = "covered" => previous[t].covered <= rollup.covered
    /\ pc[t] \in {"summarise", "save"} => CoveredNow(t) + LeastWindow <= Len(log.found)

Behind ==
    "watermark" \notin disturbed =>
        /\ WatermarkStaysBehind
        /\ \A t \in Turns : Reaches(t)

\* A step of any turn leaves the log as long as it was, or longer; it moves
\* the watermark on or not at all, and only a save moves it.
LEMMA Onwards ==
    ASSUME TypeOK, NEW t \in Turns, TurnStep(t)
    PROVE  /\ log.found \in Seq(Exchanges) /\ log'.found \in Seq(Exchanges)
           /\ Len(log.found) <= Len(log'.found)
           /\ rollup.covered <= rollup'.covered
           /\ ~Save(t) => rollup' = rollup
           /\ disturbed \subseteq disturbed'
           /\ \A s \in Turns \ {t} : pc'[s] = pc[s] /\ pairs'[s] = pairs[s] /\ window'[s] = window[s]
                  /\ previous'[s] = previous[s] /\ fresh'[s] = fresh[s]
<1>0. log.found \in Seq(Exchanges) /\ log'.found \in Seq(Exchanges) /\ Len(log.found) \in Nat
    BY StepKeepsTypes DEF TypeOK
<1>1. Len(log.found) <= Len(log'.found)
    <2>1. CASE AppendUser(t)
        BY <2>1, PairRowType DEF AppendUser
    <2>2. CASE AppendAssistant(t)
        BY <2>2, PairRowType DEF AppendAssistant
    <2>3. CASE log' = log
        BY <1>0, <2>3
    <2> QED
        BY <2>1, <2>2, <2>3 DEF TurnStep, Begin, Announce, ReadPrevious, ReadCovered, Summarise,
           SummariseByExcerpt, Save, Answer, Overflow, LoadPairs, AnswerFails, Lost
<1>2. ~Save(t) => rollup' = rollup
    BY DEF TurnStep, Begin, Announce, ReadPrevious, ReadCovered, Summarise,
       SummariseByExcerpt, Answer, Overflow, LoadPairs, AnswerFails, AppendUser,
       AppendAssistant, Lost
<1>3. rollup.covered \in Nat /\ previous[t].covered \in Nat /\ Len(fresh[t]) \in Nat
    BY DEF TypeOK, Rollups
<1>4. rollup.covered <= rollup'.covered
    <2>1. CASE Save(t)
        <3>1. CoveredNow(t) \in Nat
            BY <1>3 DEF CoveredNow
        <3>2. \/ rollup' = rollup
              \/ /\ CoveredNow(t) > rollup.covered
                 /\ rollup' = [covered |-> CoveredNow(t), summary |-> view[t]]
            BY <2>1 DEF Save
        <3> QED
            BY <1>3, <3>1, <3>2
    <2> QED
        BY <1>2, <1>3, <2>1
<1>5. disturbed \subseteq disturbed'
    BY DEF TurnStep, Begin, Announce, ReadPrevious, ReadCovered, Summarise, history,
       SummariseByExcerpt, Save, Answer, Overflow, AnswerFails, AppendUser,
       AppendAssistant, Lost, Heard, Swallowed
<1>6. \A s \in Turns \ {t} : pc'[s] = pc[s] /\ pairs'[s] = pairs[s] /\ window'[s] = window[s]
          /\ previous'[s] = previous[s] /\ fresh'[s] = fresh[s]
    BY DEF TypeOK, TurnStep, Begin, Announce, ReadPrevious, ReadCovered, Summarise, local,
       SummariseByExcerpt, Save, Answer, Overflow, LoadPairs, AnswerFails, AppendUser,
       AppendAssistant, Lost, Goto
<1> QED
    BY <1>0, <1>1, <1>2, <1>4, <1>5, <1>6

\* Loading: what is read is no longer than the log, and the window keeps its due.
LEMMA LoadingReaches ==
    ASSUME TypeOK, NEW t \in Turns, Reaches(t), Begin(t) \/ Overflow(t)
    PROVE  Reaches(t)'
<1>1. PICK found \in {log.found, <<>>}, forced \in BOOLEAN :
          LoadPairs(t, found, forced) /\ pc' = [pc EXCEPT ![t] = "announce"]
    BY DEF Begin, Overflow, Goto
<1>2. found \in Seq(Exchanges) /\ Len(found) <= Len(log.found)
    BY <1>1, FoundType
<1>3. found # <<>> => window'[t] >= LeastWindow
    BY <1>1, <1>2, LoadTypes
<1>4. pairs'[t] = found /\ log' = log /\ pc'[t] = "announce"
    BY <1>1 DEF LoadPairs, TypeOK
<1> QED
    BY <1>2, <1>3, <1>4 DEF Reaches, LeastWindow

\* The second read: what the slice adds to the watermark of the first read
\* ends before the window, for the first watermark is not the later one.
LEMMA ReadingReaches ==
    ASSUME TypeOK, NEW t \in Turns, Reaches(t), ReadCovered(t), "watermark" \notin disturbed'
    PROVE  Reaches(t)'
<1> DEFINE e == EvictedLen(pairs[t], window[t])
           new == NewlyEvicted(pairs[t], window[t], rollup.covered)
<1>0. /\ pairs[t] \in Seq(Exchanges) /\ window[t] \in Nat /\ rollup.covered \in Nat
      /\ previous[t].covered \in Nat /\ Len(log.found) \in Nat /\ Len(pairs[t]) \in Nat
      /\ LeastWindow \in Nat
    BY RollupAssumption DEF TypeOK, Rollups, LeastWindow
<1>1. /\ pc[t] = "covered" /\ fresh'[t] = new
      /\ pc'[t] = IF new = <<>> THEN "answer" ELSE "summarise"
      /\ UNCHANGED <<log, rollup, pairs, window, previous>>
    <2>1. PICK covered \in {0, rollup.covered} :
              LET n == NewlyEvicted(pairs[t], window[t], covered) IN
              /\ Goto(t, "covered", IF n = <<>> THEN "answer" ELSE "summarise")
              /\ fresh' = [fresh EXCEPT ![t] = n]
              /\ IF covered = rollup.covered THEN Heard({}) ELSE Swallowed({"watermark"})
              /\ UNCHANGED <<log, rollup, pairs, window, previous>>
        BY DEF ReadCovered
    <2>2. covered = rollup.covered
        BY <2>1 DEF Swallowed
    <2> QED
        BY <2>1, <2>2 DEF Goto, TypeOK
<1>2. /\ e \in 0..Len(pairs[t]) /\ new \in Seq(Exchanges)
      /\ Len(new) = IF rollup.covered < e THEN e - rollup.covered ELSE 0
    BY <1>0, EvictedType
<1>3. e = IF Len(pairs[t]) > window[t] THEN Len(pairs[t]) - window[t] ELSE 0
    BY DEF EvictedLen
<1> HIDE DEF e, new
<1>4. ASSUME new # <<>> PROVE previous[t].covered + Len(new) + LeastWindow <= Len(log.found)
    <2>1. Len(new) # 0
        BY <1>2, <1>4, EmptySeq
    <2>2. rollup.covered < e /\ Len(new) = e - rollup.covered /\ e > 0
        BY <1>0, <1>2, <2>1
    <2>3. e = Len(pairs[t]) - window[t]
        BY <1>3, <2>2
    <2>4. pairs[t] # <<>>
        BY <1>0, <1>2, <2>2, EmptySeq
    <2>5. window[t] >= LeastWindow /\ previous[t].covered <= rollup.covered
          /\ Len(pairs[t]) <= Len(log.found)
        BY <1>1, <2>4 DEF Reaches
    <2> DEFINE p == previous[t].covered
               l == Len(pairs[t])
               w == window[t]
               n == Len(new)
               m == Len(log.found)
    <2>6. /\ p \in Nat /\ l \in Nat /\ w \in Nat /\ m \in Nat /\ rollup.covered \in Nat
          /\ e \in Nat /\ LeastWindow \in Nat
        BY <1>0, <1>2
    <2>7. /\ n = e - rollup.covered /\ e = l - w /\ w >= LeastWindow
          /\ p <= rollup.covered /\ l <= m
        BY <2>2, <2>3, <2>5
    <2> HIDE DEF p, l, w, n, m
    <2>8. p + n + LeastWindow <= m
        BY <2>6, <2>7
    <2> QED
        BY <2>8 DEF p, n, m
<1> QED
    BY <1>1, <1>4 DEF Reaches, CoveredNow, LeastWindow

LEMMA BehindKept == TypeOK /\ Behind /\ [Next]_vars => Behind'
<1> SUFFICES ASSUME TypeOK, Behind, Next, "watermark" \notin disturbed'
             PROVE  WatermarkStaysBehind' /\ \A t \in Turns : Reaches(t)'
    BY DEF vars, local, history, Behind, WatermarkStaysBehind, Reaches, CoveredNow
<1>1. ASSUME NEW t \in Turns, TurnStep(t)
      PROVE  WatermarkStaysBehind' /\ \A s \in Turns : Reaches(s)'
    <2>0. /\ \A s \in Turns : Reaches(s)
          /\ WatermarkStaysBehind
          /\ "watermark" \notin disturbed
        BY <1>1, Onwards DEF Behind
    <2>a. TypeOK'
        BY <1>1, StepKeepsTypes
    <2>b. rollup.covered \in Nat /\ LeastWindow \in Nat /\ Len(log.found) \in Nat
        BY DEF TypeOK, Rollups, LeastWindow
    <2>c. rollup'.covered \in Nat /\ Len(log'.found) \in Nat
        BY <2>a DEF TypeOK, Rollups
    <2>d. ASSUME NEW s \in Turns
          PROVE  Len(pairs[s]) \in Nat /\ previous[s].covered \in Nat /\ CoveredNow(s) \in Nat
        <3>1. pairs[s] \in Seq(Exchanges) /\ previous[s].covered \in Nat /\ fresh[s] \in Seq(Exchanges)
            BY DEF TypeOK, Rollups
        <3> QED
            BY <3>1 DEF CoveredNow
    <2>1. /\ rollup.covered \in Nat /\ rollup'.covered \in Nat /\ LeastWindow \in Nat
          /\ Len(log.found) \in Nat /\ Len(log'.found) \in Nat
          /\ \A s \in Turns : Len(pairs[s]) \in Nat /\ previous[s].covered \in Nat
                                /\ CoveredNow(s) \in Nat
        BY <2>b, <2>c, <2>d
    <2>2. /\ Len(log.found) <= Len(log'.found)
          /\ rollup.covered <= rollup'.covered
          /\ \A s \in Turns \ {t} : pc'[s] = pc[s] /\ pairs'[s] = pairs[s] /\ window'[s] = window[s]
                  /\ previous'[s] = previous[s] /\ fresh'[s] = fresh[s]
        BY <1>1, Onwards
    <2>3. ASSUME NEW s \in Turns \ {t} PROVE Reaches(s)'
        <3>1. /\ pc'[s] = pc[s] /\ pairs'[s] = pairs[s] /\ window'[s] = window[s]
              /\ previous'[s] = previous[s] /\ CoveredNow(s)' = CoveredNow(s) /\ Reaches(s)
            BY <2>0, <2>2 DEF CoveredNow
        <3>2. previous[s].covered \in Nat /\ Len(pairs[s]) \in Nat /\ CoveredNow(s) \in Nat
            BY <2>d
        <3>3. Len(pairs'[s]) <= Len(log'.found)
            BY <2>1, <2>2, <3>1, <3>2 DEF Reaches
        <3>4. pairs'[s] # <<>> => window'[s] >= LeastWindow'
            BY <3>1 DEF Reaches, LeastWindow
        <3>5. pc'[s] = "covered" => previous'[s].covered <= rollup'.covered
            BY <2>1, <2>2, <3>1, <3>2 DEF Reaches
        <3>6. pc'[s] \in {"summarise", "save"} => CoveredNow(s)' + LeastWindow' <= Len(log'.found)
            <4>1. LeastWindow' = LeastWindow
                BY DEF LeastWindow
            <4> HIDE DEF LeastWindow
            <4> QED
                BY <2>1, <2>2, <3>1, <3>2, <4>1 DEF Reaches
        <3> QED
            BY <3>3, <3>4, <3>5, <3>6 DEF Reaches
    <2>4. WatermarkStaysBehind'
        <3>1. CASE rollup' = rollup
            BY <2>0, <2>1, <2>2, <3>1 DEF WatermarkStaysBehind, LeastWindow
        <3>2. CASE rollup' # rollup
            <4>1. Save(t) /\ pc[t] = "save"
                BY <1>1, <3>2, Onwards DEF Save, Goto
            <4>2. rollup'.covered = CoveredNow(t)
                BY <3>2, <4>1 DEF Save
            <4> QED
                BY <2>0, <2>1, <2>2, <4>1, <4>2 DEF Reaches, WatermarkStaysBehind, LeastWindow
        <3> QED
            BY <3>1, <3>2
    <2>5. Reaches(t)'
        <3>1. CASE Begin(t) \/ Overflow(t)
            BY <2>0, <3>1, LoadingReaches
        <3>2. CASE ReadCovered(t)
            BY <2>0, <3>2, ReadingReaches
        <3>3. CASE ReadPrevious(t)
            <4>1. pc'[t] = "covered" /\ previous'[t] \in {NoRollup, rollup}
                  /\ UNCHANGED <<log, rollup, pairs, window>>
                BY <3>3 DEF ReadPrevious, Goto, TypeOK
            <4>2. previous'[t].covered <= rollup'.covered
                BY <2>1, <4>1 DEF NoRollup
            <4> QED
                BY <2>0, <4>1, <4>2 DEF Reaches, LeastWindow
        <3>4. CASE Summarise(t) \/ SummariseByExcerpt(t)
            <4>1. pc[t] = "summarise" /\ pc'[t] = "save"
                  /\ UNCHANGED <<log, rollup, pairs, window, previous, fresh>>
                BY <3>4 DEF Summarise, SummariseByExcerpt, Goto, TypeOK
            <4> QED
                BY <2>0, <4>1 DEF Reaches, CoveredNow, LeastWindow
        <3>5. CASE Announce(t) \/ Save(t) \/ Answer(t) \/ AnswerFails(t) \/ AppendUser(t)
                     \/ AppendAssistant(t) \/ Lost(t)
            <4>1. pc'[t] \notin {"covered", "summarise", "save"} /\ UNCHANGED <<pairs, window>>
                BY <3>5 DEF Announce, Save, Answer, AnswerFails, AppendUser, AppendAssistant,
                   Lost, Goto, local, TypeOK
            <4> QED
                BY <2>0, <2>1, <2>2, <4>1 DEF Reaches, LeastWindow
        <3> QED
            BY <1>1, <3>1, <3>2, <3>3, <3>4, <3>5 DEF TurnStep
    <2> QED
        BY <2>3, <2>4, <2>5
<1>2. CASE AllDone
    BY <1>2 DEF AllDone, vars, local, history, Behind, WatermarkStaysBehind, Reaches, CoveredNow
<1> QED
    BY <1>1, <1>2 DEF Next

LEMMA BehindAtTheStart == Init => Behind
<1> SUFFICES ASSUME Init PROVE WatermarkStaysBehind /\ \A t \in Turns : Reaches(t)
    BY DEF Behind
<1>1. WatermarkStaysBehind
    BY DEF Init, WatermarkStaysBehind, NoRollup
<1>2. Len(log.found) \in Nat /\ \A t \in Turns : Len(pairs[t]) = 0
    BY RollupAssumption DEF Init
<1>3. \A t \in Turns : Reaches(t)
    <2> TAKE t \in Turns
    <2>1. pc[t] = "new" /\ pairs[t] = <<>>
        BY DEF Init
    <2> QED
        BY <1>2, <2>1 DEF Reaches
<1> QED
    BY <1>1, <1>3

(***************************************************************************)
(* However many refreshes race, each reading the rollup twice and writing  *)
(* it much later, and whatever they cannot read or save, the watermark     *)
(* stays behind the newest exchange, unless it was itself what could not   *)
(* be read (refresh, save_rollup).                                         *)
(***************************************************************************)
THEOREM WatermarkIsBehind == Spec => []WatermarkStaysBehind
<1>1. Behind => WatermarkStaysBehind
    BY DEF Behind, WatermarkStaysBehind
<1> QED
    BY <1>1, TypesAtTheStart, TypesKept, BehindAtTheStart, BehindKept, PTL DEF Spec

-----------------------------------------------------------------------------
(* Nothing is forgotten                                                    *)

LEMMA CalmAtTheStart == Init => Calm
<1> SUFFICES ASSUME Init PROVE Alone /\ Covered /\ \A t \in Turns : Current(t)
    BY DEF Calm
<1>1. Alone
    BY DEF Init, Alone, InFlight
<1>2. Covered
    BY RollupAssumption DEF Init, Covered, NoRollup
<1>3. \A t \in Turns : Current(t)
    BY DEF Init, Current
<1> QED
    BY <1>1, <1>2, <1>3

\* A turn that takes no step and that nobody else outruns keeps what it has.
LEMMA OthersStay ==
    ASSUME TypeOK, Alone, \A s \in Turns : Current(s), NEW t \in Turns,
           pc[t] \notin {"new", "done"} \/ InFlight = {},
           NEW to, pc' = [pc EXCEPT ![t] = to]
    PROVE  /\ Alone'
           /\ \A s \in Turns \ {t} : Current(s)'
<1>1. \A s \in Turns \ {t} : pc[s] \in {"new", "done"} /\ pc'[s] = pc[s]
    BY DEF TypeOK, Alone, InFlight
<1>2. Alone'
    BY <1>1 DEF Alone, InFlight
<1>3. \A s \in Turns \ {t} : Current(s)'
    BY <1>1 DEF Current
<1> QED
    BY <1>2, <1>3

\* What a summary speaks of is spoken of by a longer one.
LEMMA SpeaksOf ==
    ASSUME NEW a \in Seq(Exchanges), NEW b \in Seq(Exchanges)
    PROVE  ToSet(a \o b) = ToSet(a) \cup ToSet(b)
<1> DEFINE c == a \o b
<1>1. /\ c \in Seq(Exchanges) /\ Len(c) = Len(a) + Len(b)
      /\ \A i \in 1..(Len(a) + Len(b)) : c[i] = IF i <= Len(a) THEN a[i] ELSE b[i - Len(a)]
    BY ConcatProperties
<1> HIDE DEF c
<1>2. /\ DOMAIN a = 1..Len(a) /\ DOMAIN b = 1..Len(b) /\ DOMAIN c = 1..Len(c)
      /\ Len(a) \in Nat /\ Len(b) \in Nat
    BY <1>1
<1>3. ASSUME NEW i \in DOMAIN a PROVE a[i] \in ToSet(c)
    <2>1. i \in DOMAIN c /\ c[i] = a[i]
        BY <1>1, <1>2
    <2> QED
        BY <2>1 DEF ToSet
<1>4. ASSUME NEW i \in DOMAIN b PROVE b[i] \in ToSet(c)
    <2>1. Len(a) + i \in DOMAIN c /\ c[Len(a) + i] = b[i]
        BY <1>1, <1>2
    <2> QED
        BY <2>1 DEF ToSet
<1>5. ASSUME NEW i \in DOMAIN c PROVE c[i] \in ToSet(a) \cup ToSet(b)
    <2>1. CASE i <= Len(a)
        <3>1. i \in DOMAIN a /\ c[i] = a[i]
            BY <1>1, <1>2, <2>1
        <3> QED
            BY <3>1 DEF ToSet
    <2>2. CASE ~(i <= Len(a))
        <3>1. i - Len(a) \in DOMAIN b /\ c[i] = b[i - Len(a)]
            BY <1>1, <1>2, <2>2
        <3> QED
            BY <3>1 DEF ToSet
    <2> QED
        BY <2>1, <2>2
<1>6. ToSet(c) \subseteq ToSet(a) \cup ToSet(b)
    BY <1>5 DEF ToSet
<1>7. ToSet(a) \subseteq ToSet(c) /\ ToSet(b) \subseteq ToSet(c)
    BY <1>3, <1>4 DEF ToSet
<1> QED
    BY <1>6, <1>7 DEF c

\* A summary up to the watermark, what is folded in and the window make up the
\* whole history.
LEMMA AllKnown ==
    ASSUME NEW ps \in Seq(Exchanges), NEW w \in Nat, NEW c \in Nat, NEW known,
           \A i \in 1..c : i <= Len(ps) => ps[i] \in known,
           ToSet(NewlyEvicted(ps, w, c)) \subseteq known
    PROVE  /\ \A i \in 1..EvictedLen(ps, w) : ps[i] \in known
           /\ ToSet(ps) \subseteq known \cup ToSet(SubSeq(ps, EvictedLen(ps, w) + 1, Len(ps)))
<1> DEFINE e == EvictedLen(ps, w)
           new == NewlyEvicted(ps, w, c)
           kept == SubSeq(ps, e + 1, Len(ps))
<1>1. /\ e \in 0..Len(ps) /\ Len(ps) \in Nat /\ new \in Seq(Exchanges)
      /\ Len(new) = IF c < e THEN e - c ELSE 0
      /\ \A i \in 1..Len(new) : new[i] = ps[c + i]
    BY EvictedType
<1> HIDE DEF e, new
<1>2. /\ kept \in Seq(Exchanges) /\ Len(kept) = Len(ps) - e
      /\ \A i \in 1..Len(kept) : kept[i] = ps[e + i]
    BY <1>1
<1> HIDE DEF kept
<1>3. ASSUME NEW i \in 1..e PROVE ps[i] \in known
    <2>1. CASE i <= c
        BY <1>1, <2>1
    <2>2. CASE i > c
        <3>1. i - c \in 1..Len(new) /\ new[i - c] = ps[i]
            BY <1>1, <2>2
        <3>2. new[i - c] \in ToSet(new)
            BY <1>1, <3>1 DEF ToSet
        <3> QED
            BY <3>1, <3>2 DEF new
    <2> QED
        BY <1>1, <2>1, <2>2
<1>4. ASSUME NEW i \in 1..Len(ps) PROVE ps[i] \in known \cup ToSet(kept)
    <2>1. CASE i <= e
        BY <1>1, <1>3, <2>1
    <2>2. CASE i > e
        <3>1. i - e \in 1..Len(kept) /\ kept[i - e] = ps[i]
            BY <1>1, <1>2, <2>2
        <3>2. kept[i - e] \in ToSet(kept)
            BY <1>2, <3>1 DEF ToSet
        <3> QED
            BY <3>1, <3>2
    <2> QED
        BY <1>1, <2>1, <2>2
<1>5. ToSet(ps) \subseteq known \cup ToSet(kept)
    BY <1>4 DEF ToSet
<1> QED
    BY <1>3, <1>5 DEF e, kept

LEMMA LoadingKeepsCalm ==
    ASSUME TypeOK, Alone, Covered, \A s \in Turns : Current(s), NEW t \in Turns,
           NEW forced \in BOOLEAN, LoadPairs(t, log.found, forced), pc' = [pc EXCEPT ![t] = "announce"],
           pc[t] \notin {"new", "done"} \/ InFlight = {}
    PROVE  Alone' /\ Covered' /\ \A s \in Turns : Current(s)'
<1>1. pairs'[t] = log'.found /\ pc'[t] = "announce" /\ UNCHANGED <<log, rollup>>
    BY DEF LoadPairs, TypeOK
<1>2. Current(t)'
    BY <1>1 DEF Current
<1>3. Covered'
    BY <1>1 DEF Covered
<1> QED
    BY <1>2, <1>3, OthersStay

LEMMA RefreshKeepsCalm ==
    ASSUME TypeOK, Alone, Covered, \A s \in Turns : Current(s), NEW t \in Turns,
           Announce(t) \/ ReadPrevious(t) \/ ReadCovered(t) \/ Summarise(t), disturbed' = {}
    PROVE  Alone' /\ Covered' /\ \A s \in Turns : Current(s)'
<1>0. /\ pairs[t] \in Seq(Exchanges) /\ window[t] \in Nat /\ Current(t)
      /\ rollup.covered \in Nat /\ rollup.summary \in Seq(Exchanges)
    BY RollupAssumption DEF TypeOK, Rollups
<1>1. UNCHANGED <<log, rollup, pairs, window>>
    BY DEF Announce, ReadPrevious, ReadCovered, Summarise
<1>2. Covered'
    BY <1>1 DEF Covered
<1>3. Alone' /\ \A s \in Turns \ {t} : Current(s)'
    BY OthersStay DEF Announce, ReadPrevious, ReadCovered, Summarise, Goto
<1> SUFFICES Current(t)'
    BY <1>2, <1>3
<1>4. CASE Announce(t)
    BY <1>0, <1>1, <1>4 DEF Announce, Goto, Current, TypeOK
<1>5. CASE ReadPrevious(t)
    <2>1. previous'[t] = rollup /\ pc'[t] = "covered" /\ pc[t] = "previous"
        BY <1>5 DEF ReadPrevious, Swallowed, Goto, TypeOK
    <2> QED
        BY <1>0, <1>1, <2>1 DEF Current
<1>6. CASE ReadCovered(t)
    <2> DEFINE new == NewlyEvicted(pairs[t], window[t], rollup.covered)
    <2>1. /\ pairs[t] = log.found /\ previous[t] = rollup
          /\ previous' = previous /\ fresh'[t] = new /\ view'[t] = rollup.summary
          /\ pc'[t] = IF new = <<>> THEN "answer" ELSE "summarise"
        BY <1>0, <1>6 DEF ReadCovered, Swallowed, Goto, Current, TypeOK
    <2>2. CASE new # <<>>
        BY <1>1, <2>1, <2>2 DEF Current
    <2>3. CASE new = <<>>
        <3>1. ToSet(new) \subseteq ToSet(rollup.summary)
            BY <2>3 DEF ToSet
        <3>2. \A i \in 1..rollup.covered : i <= Len(pairs[t]) => pairs[t][i] \in ToSet(rollup.summary)
            BY <2>1 DEF Covered
        <3>3. ToSet(pairs[t]) \subseteq ToSet(rollup.summary)
                  \cup ToSet(SubSeq(pairs[t], EvictedLen(pairs[t], window[t]) + 1, Len(pairs[t])))
            BY <1>0, <3>1, <3>2, AllKnown
        <3>4. (ToSet(pairs[t]) \subseteq Known(t))'
            BY <1>1, <2>1, <3>3 DEF Known
        <3> QED
            BY <1>1, <2>1, <2>3, <3>4 DEF Current
    <2> QED
        BY <2>2, <2>3
<1>7. CASE Summarise(t)
    <2>1. /\ pc[t] = "summarise" /\ pc'[t] = "save" /\ UNCHANGED <<previous, fresh>>
          /\ view'[t] = previous[t].summary \o fresh[t]
        BY <1>7 DEF Summarise, Goto, TypeOK
    <2> QED
        BY <1>0, <1>1, <2>1 DEF Current
<1> QED
    BY <1>4, <1>5, <1>6, <1>7

LEMMA SaveKeepsCalm ==
    ASSUME TypeOK, Alone, Covered, \A s \in Turns : Current(s), NEW t \in Turns, Save(t)
    PROVE  Alone' /\ Covered' /\ \A s \in Turns : Current(s)'
<1> DEFINE ps == pairs[t]
           c == rollup.covered
           new == NewlyEvicted(ps, window[t], c)
           e == EvictedLen(ps, window[t])
           sum == rollup.summary \o new
<1>0. /\ ps \in Seq(Exchanges) /\ window[t] \in Nat /\ c \in Nat /\ rollup.summary \in Seq(Exchanges)
    BY RollupAssumption DEF TypeOK, Rollups
<1>1. /\ pc[t] = "save" /\ pc'[t] = "answer" /\ UNCHANGED <<log, pairs, window, view>>
      /\ ps = log.found /\ previous[t] = rollup /\ fresh[t] = new /\ view[t] = sum
    BY DEF Save, Goto, local, Current, TypeOK
<1>2. Alone' /\ \A s \in Turns \ {t} : Current(s)'
    BY OthersStay DEF Save, Goto
<1>3. /\ e \in 0..Len(ps) /\ Len(ps) \in Nat /\ new \in Seq(Exchanges)
      /\ Len(new) = IF c < e THEN e - c ELSE 0
    <2> DEFINE w == window[t]
    <2> HIDE DEF ps, c, w
    <2> SUFFICES /\ EvictedLen(ps, w) \in 0..Len(ps) /\ Len(ps) \in Nat
                 /\ NewlyEvicted(ps, w, c) \in Seq(Exchanges)
                 /\ Len(NewlyEvicted(ps, w, c)) =
                        IF c < EvictedLen(ps, w) THEN EvictedLen(ps, w) - c ELSE 0
        BY DEF w
    <2>1. w \in Nat /\ ps \in Seq(Exchanges) /\ c \in Nat
        BY <1>0 DEF w
    <2> QED
        BY <2>1, EvictedType
<1>4. ToSet(sum) = ToSet(rollup.summary) \cup ToSet(new)
    BY <1>0, <1>3, SpeaksOf
<1>5. \A i \in 1..c : i <= Len(ps) => ps[i] \in ToSet(sum)
    BY <1>1, <1>4 DEF Covered
<1>6. /\ \A i \in 1..e : ps[i] \in ToSet(sum)
      /\ ToSet(ps) \subseteq ToSet(sum) \cup ToSet(SubSeq(ps, e + 1, Len(ps)))
    BY <1>0, <1>4, <1>5, AllKnown
<1>7. (ToSet(pairs[t]) \subseteq Known(t))'
    BY <1>1, <1>6 DEF Known
<1>8. Current(t)'
    BY <1>1, <1>7 DEF Current
<1>9. Covered'
    <2>1. CoveredNow(t) = c + Len(new)
        BY <1>1 DEF CoveredNow
    <2>4. CASE rollup' = rollup
        BY <1>1, <2>4 DEF Covered
    <2> HIDE DEF new, sum, e
    <2> SUFFICES ASSUME rollup' # rollup PROVE Covered'
        BY <2>4
    <2>2. CASE c < e
        <3>1. CoveredNow(t) = e
            BY <1>0, <1>3, <2>1, <2>2
        <3>2. rollup' = [covered |-> e, summary |-> sum]
            BY <1>1, <2>2, <3>1 DEF Save
        <3> QED
            BY <1>1, <1>3, <1>6, <3>2 DEF Covered
    <2>3. CASE ~(c < e)
        <3>1. rollup' = rollup
            BY <1>0, <1>3, <2>1, <2>3 DEF Save
        <3> QED
            BY <1>1, <3>1 DEF Covered
    <2> QED
        BY <2>2, <2>3
<1> QED
    BY <1>2, <1>8, <1>9

LEMMA TailKeepsCalm ==
    ASSUME TypeOK, Alone, Covered, \A s \in Turns : Current(s), NEW t \in Turns,
           Answer(t) \/ AnswerFails(t) \/ AppendUser(t) \/ AppendAssistant(t) \/ Lost(t)
    PROVE  Alone' /\ Covered' /\ \A s \in Turns : Current(s)'
<1>1. PICK to \in {"append_user", "append_reply", "done"} :
          pc[t] \notin {"new", "done"} /\ pc' = [pc EXCEPT ![t] = to]
    BY DEF Answer, AnswerFails, AppendUser, AppendAssistant, Lost, Goto
<1>2. Alone' /\ \A s \in Turns \ {t} : Current(s)'
    BY <1>1, OthersStay
<1>3. Current(t)'
    BY <1>1 DEF Current, TypeOK
<1>4. rollup' = rollup /\ Len(log.found) \in Nat /\ Len(log'.found) \in Nat
      /\ Len(log.found) <= Len(log'.found)
      /\ \A i \in 1..Len(log.found) : log'.found[i] = log.found[i]
    <2>0. log.found \in Seq(Exchanges)
        BY DEF TypeOK
    <2>1. ASSUME NEW role \in {"user", "assistant"}, rollup' = rollup,
                 log' = PairRow(log, [turn |-> t, role |-> role])
          PROVE  /\ log'.found \in Seq(Exchanges) /\ Len(log.found) <= Len(log'.found)
                 /\ \A i \in 1..Len(log.found) : log'.found[i] = log.found[i]
        BY <2>1, PairRowType
    <2>2. CASE AppendUser(t) \/ AppendAssistant(t)
        BY <2>0, <2>1, <2>2 DEF AppendUser, AppendAssistant
    <2>3. CASE Answer(t) \/ AnswerFails(t) \/ Lost(t)
        BY <2>3 DEF Answer, AnswerFails, Lost, TypeOK
    <2> QED
        BY <2>2, <2>3
<1>5. rollup.covered \in Nat
    BY DEF TypeOK, Rollups
<1>6. Covered'
    BY <1>4, <1>5 DEF Covered
<1> QED
    BY <1>2, <1>3, <1>6

LEMMA CalmKept == TypeOK /\ Calm /\ [Next]_vars => Calm'
<1> SUFFICES ASSUME TypeOK, Calm, [Next]_vars, disturbed' = {}
             PROVE  Alone' /\ Covered' /\ \A s \in Turns : Current(s)'
    BY DEF Calm
<1>1. ASSUME NEW t \in Turns, TurnStep(t)
      PROVE  Alone' /\ Covered' /\ \A s \in Turns : Current(s)'
    <2>1. disturbed = {} /\ ~SummariseByExcerpt(t) /\ (Begin(t) => InFlight = {})
        BY <1>1, Onwards DEF Begin, SummariseByExcerpt, Heard, Swallowed
    <2>2. Alone /\ Covered /\ \A s \in Turns : Current(s)
        BY <2>1 DEF Calm
    <2>3. CASE Begin(t)
        BY <2>1, <2>2, <2>3, LoadingKeepsCalm DEF Begin, Goto, Swallowed
    <2>4. CASE Overflow(t)
        BY <2>2, <2>4, LoadingKeepsCalm DEF Overflow, Goto, Swallowed
    <2>5. CASE Announce(t) \/ ReadPrevious(t) \/ ReadCovered(t) \/ Summarise(t)
        BY <2>2, <2>5, RefreshKeepsCalm
    <2>6. CASE Save(t)
        BY <2>2, <2>6, SaveKeepsCalm
    <2>7. CASE Answer(t) \/ AnswerFails(t) \/ AppendUser(t) \/ AppendAssistant(t) \/ Lost(t)
        BY <2>2, <2>7, TailKeepsCalm
    <2> QED
        BY <1>1, <2>1, <2>3, <2>4, <2>5, <2>6, <2>7 DEF TurnStep
<1>2. CASE UNCHANGED vars
    <2>1. Alone /\ Covered /\ \A s \in Turns : Current(s)
        BY <1>2 DEF Calm, vars, history
    <2> QED
        BY <1>2, <2>1 DEF vars, local, history, Alone, InFlight, Covered, Current, Known
<1> QED
    BY <1>1, <1>2 DEF Next, AllDone

(***************************************************************************)
(* "Eviction never means amnesia" (architecture.md): as long as turns      *)
(* follow one another, the summariser answers and what is stored can be    *)
(* read, whatever a turn asks the model with, every exchange of the        *)
(* session is in its window or spoken of in its summary, wherever turns    *)
(* die, overflow or cannot save (full_turn, refresh).                      *)
(***************************************************************************)
THEOREM NothingIsForgotten == Spec => []CalmTurnsForgetNothing
<1>1. Calm => CalmTurnsForgetNothing
    BY DEF Calm, Current, CalmTurnsForgetNothing
<1> QED
    BY <1>1, TypesAtTheStart, TypesKept, CalmAtTheStart, CalmKept, PTL DEF Spec

(***************************************************************************)
(* The stored summary speaks of all that its watermark says it covers,     *)
(* under the same conditions (refresh, save_rollup).                       *)
(***************************************************************************)
THEOREM SummaryIsWhole == Spec => []CalmSummaryCoversWatermark
<1>1. Calm => CalmSummaryCoversWatermark
    BY DEF Calm, Covered, CalmSummaryCoversWatermark
<1> QED
    BY <1>1, TypesAtTheStart, TypesKept, CalmAtTheStart, CalmKept, PTL DEF Spec


\* The names and the values that occur are those of some setting.
Subjects == Tools \cup {Stranger, "none"} \cup (UNION {s.tools : s \in Settings})
Inputs == {"none", Unwritten} \cup (UNION {s.inputs : s \in Settings}) \cup {end.input : end \in Ends}
Commands == {"none"} \cup (UNION {s.commands : s \in Settings})
Outputs == {Error, Unwritten} \cup (UNION {s.outputs : s \in Settings}) \cup {end.output : end \in Ends}
Stages == {"none", "called", "before", "permission", "handler", "after", "answered"}
Calls == [tool: Subjects, input: Inputs, args: Inputs, command: Commands, stage: Stages,
          output: Outputs, refused: BOOLEAN, consented: BOOLEAN, ran: BOOLEAN]
Outcomes == [blocked: BOOLEAN, allowed: BOOLEAN, input: Inputs, output: Outputs]
Firings == [event: Events \cup {"none"}, subject: Subjects, next: Nat, deaf: BOOLEAN,
            outcome: Outcomes]

CallTypeOK ==
    /\ setup \in Settings
    /\ call \in Calls
    /\ firing \in Firings
    /\ phase \in {"model", "call", "request", "sent", "over"}

\* What is known of a call at each stage.  A refusal is in the outcome of the
\* firing that is under way, so that whoever looks at the outcome sees it.
Hears == call.refused => firing.outcome.blocked

Cleared ==
    /\ phase # "call" => firing = NotFiring
    /\ phase = "call" => call.stage # "none"
    /\ phase = "call" /\ call.stage \in {"called", "handler", "answered"} => firing = NotFiring
    /\ phase = "call" /\ call.stage \in {"called", "handler"} => ~call.refused /\ ~call.ran
    /\ phase = "call" /\ call.stage \in {"before", "permission"} => Hears /\ ~call.ran
    /\ phase = "call" /\ call.stage = "permission" =>
         /\ call.tool = RunCommand
         /\ firing.event = "PermissionRequest"
         /\ firing.outcome.allowed => call.consented
    /\ phase = "call" /\ call.stage = "handler" => call.tool # RunCommand
    /\ phase = "call" /\ call.stage \in {"before", "permission", "handler"} =>
         Conforms(call.tool, call.args)
    /\ phase = "call" /\ call.stage = "after" => firing.event \notin Policy

TIInv == CallTypeOK /\ Cleared /\ RunsAreCleared

LEMMA FiredType ==
    ASSUME NEW event \in Events, NEW subject \in Subjects
    PROVE  /\ Fired(event, subject) \in Firings
           /\ Fired(event, subject).outcome = Nothing
           /\ Fired(event, subject).event = event
BY DEF Fired, NotFiring, Nothing, Firings, Outcomes, Inputs, Outputs, Subjects

LEMMA NotFiringType == NotFiring \in Firings /\ ~NotFiring.outcome.blocked
BY DEF NotFiring, Nothing, Firings, Outcomes, Inputs, Outputs, Subjects

LEMMA ClearedAtTheStart == ToolCallsInit => TIInv
<1> SUFFICES ASSUME ToolCallsInit PROVE TIInv
    OBVIOUS
<1>1. call \in Calls
    BY DEF ToolCallsInit, NoCall, Calls, Subjects, Inputs, Commands, Outputs, Stages
<1>2. CallTypeOK
    BY <1>1, NotFiringType DEF ToolCallsInit, HooksInit, CallTypeOK
<1>3. Cleared
    BY DEF ToolCallsInit, HooksInit, Cleared
<1>4. RunsAreCleared
    BY DEF ToolCallsInit, NoCall, RunsAreCleared
<1> QED
    BY <1>2, <1>3, <1>4 DEF TIInv

\* One run of a command, heard by the call it was run for.
LEMMA OutcomeType ==
    ASSUME NEW event, NEW end \in Ends
    PROVE  /\ Outcome(event, end) \in Outcomes
           /\ event \in Policy /\ SaysNo(end) => Outcome(event, end).blocked
           /\ Outcome(event, end).allowed => SaysYes(end)
<1>1. Unwritten \in Inputs /\ Unwritten \in Outputs /\ end.input \in Inputs /\ end.output \in Outputs
    BY DEF Inputs, Outputs
<1>2. CASE end.how = "decision"
  <2> DEFINE no  == end.decision = "block" \/ end.permission = "deny"
             yes == end.permission = "allow"
             o   == [blocked |-> no, allowed |-> yes, input |-> end.input, output |-> end.output]
  <2>1. Outcome(event, end) = o
      BY <1>2 DEF Outcome
  <2>2. SaysNo(end) => no
      BY <1>2, SaysAssumption DEF SaysAssumption, SaysNo
  <2>3. yes => SaysYes(end)
      BY <1>2, SaysAssumption DEF SaysAssumption, SaysYes
  <2>4. no \in BOOLEAN /\ yes \in BOOLEAN
      OBVIOUS
  <2> HIDE DEF no, yes
  <2>5. o \in Outcomes
      BY <1>1, <2>4 DEF Outcomes
  <2>6. o.blocked = no /\ o.allowed = yes
      OBVIOUS
  <2> HIDE DEF o
  <2> QED
      BY <2>1, <2>2, <2>3, <2>5, <2>6
<1>3. CASE end.how = "late"
  <2>1. Outcome(event, end) =
          [blocked |-> event \in Policy, allowed |-> FALSE, input |-> Unwritten, output |-> Unwritten]
      BY <1>3 DEF Outcome, Nothing
  <2>2. Outcome(event, end) \in Outcomes
      BY <1>1, <2>1 DEF Outcomes
  <2>3. ASSUME event \in Policy PROVE Outcome(event, end).blocked
    <3>1. (event \in Policy) = TRUE
        BY <2>3
    <3>2. Outcome(event, end).blocked = (event \in Policy)
        BY <2>1
    <3> QED
        BY <3>1, <3>2
  <2>4. ~Outcome(event, end).allowed
      BY <2>1
  <2> QED
      BY <2>2, <2>3, <2>4
<1>4. CASE end.how = "exit 2"
  <2>1. Outcome(event, end) =
          [blocked |-> TRUE, allowed |-> FALSE, input |-> Unwritten, output |-> Unwritten]
      BY <1>4 DEF Outcome, Nothing
  <2>2. Outcome(event, end) \in Outcomes
      BY <1>1, <2>1 DEF Outcomes
  <2> QED
      BY <2>1, <2>2
<1>5. CASE end.how \notin {"decision", "late", "exit 2"}
  <2>1. Outcome(event, end) = Nothing
      BY <1>5 DEF Outcome
  <2>2. Outcome(event, end) \in Outcomes
      BY <1>1, <2>1 DEF Outcomes, Nothing
  <2>3. ~SaysNo(end)
      BY <1>5 DEF SaysNo
  <2> QED
      BY <2>1, <2>2, <2>3 DEF Nothing
<1> QED
    BY <1>2, <1>3, <1>4, <1>5

\* The merge of two outcomes refuses and allows as either does.
LEMMA MergeType ==
    ASSUME NEW into \in Outcomes, NEW one \in Outcomes
    PROVE  /\ Merge(into, one) \in Outcomes
           /\ Merge(into, one).blocked <=> into.blocked \/ one.blocked
           /\ Merge(into, one).allowed <=> into.allowed \/ one.allowed
<1>1. /\ into.blocked \in BOOLEAN /\ into.allowed \in BOOLEAN
      /\ one.blocked \in BOOLEAN /\ one.allowed \in BOOLEAN
      /\ into.input \in Inputs /\ one.input \in Inputs
      /\ into.output \in Outputs /\ one.output \in Outputs
    BY DEF Outcomes
<1>2. Merge(into, one) \in Outcomes
    BY <1>1 DEF Merge, Outcomes
<1>3. Merge(into, one).blocked = (into.blocked \/ one.blocked)
    BY DEF Merge
<1>4. Merge(into, one).allowed = (into.allowed \/ one.allowed)
    BY DEF Merge
<1> QED
    BY <1>2, <1>3, <1>4

\* The model's turn: a new call has no history.
LEMMA ProposingIsClear ==
    ASSUME TIInv,
           NEW tool \in setup.tools, NEW input \in setup.inputs, NEW command \in setup.commands,
           Propose(tool, input, command)
    PROVE  TIInv'
<1>1. /\ tool \in Subjects /\ input \in Inputs /\ command \in Commands
    BY DEF TIInv, CallTypeOK, Subjects, Inputs, Commands
<1>2. NoCall \in Calls
    BY DEF NoCall, Calls, Subjects, Inputs, Commands, Outputs, Stages
<1>3. call' \in Calls
    BY <1>1, <1>2 DEF Propose, Calls, Stages
<1>4. /\ call'.stage = "called" /\ ~call'.refused /\ ~call'.ran
    BY <1>2 DEF Propose, NoCall, Calls
<1>5. /\ phase' = "call" /\ setup' = setup /\ firing' = NotFiring
    BY DEF TIInv, CallTypeOK, Cleared, Propose, hookVars
<1>6. CallTypeOK'
    BY <1>3, <1>5, NotFiringType DEF TIInv, CallTypeOK
<1>7. Cleared'
    BY <1>4, <1>5 DEF Cleared
<1>8. RunsAreCleared'
    BY <1>4 DEF RunsAreCleared
<1> QED
    BY <1>6, <1>7, <1>8 DEF TIInv

\* A call that is let in is checked; one that is not is answered unrun.
LEMMA AdmittingIsClear ==
    ASSUME TIInv, Refuse \/ Admit
    PROVE  TIInv'
<1>1. /\ call \in Calls /\ phase = "call" /\ phase' = "call" /\ setup' = setup
      /\ call.stage = "called" /\ ~call.refused /\ ~call.ran /\ firing = NotFiring
    BY DEF TIInv, CallTypeOK, Cleared, Refuse, Admit, At, CallStep
<1>2. CASE Refuse
  <2>1. call' \in Calls
      BY <1>1, <1>2 DEF Refuse, Calls, Stages, Outputs
  <2>2. /\ call'.stage = "answered" /\ ~call'.ran /\ firing' = NotFiring
      BY <1>1, <1>2 DEF Refuse, Calls
  <2>3. CallTypeOK'
      BY <1>1, <2>1, <2>2, NotFiringType DEF TIInv, CallTypeOK
  <2> QED
      BY <1>1, <2>2, <2>3 DEF TIInv, Cleared, RunsAreCleared
<1>3. CASE Admit
  <2>1. call' \in Calls
      BY <1>1, <1>3 DEF Admit, Calls, Stages
  <2>2. /\ call'.stage = "before" /\ ~call'.ran /\ ~call'.refused
        /\ Conforms(call'.tool, call'.args)
      BY <1>1, <1>3 DEF Admit, Calls, Conforms
  <2>3. firing' \in Firings
      BY <1>1, <1>3, FiredType DEF Admit, Calls, Events
  <2>4. CallTypeOK'
      BY <1>1, <2>1, <2>3 DEF TIInv, CallTypeOK
  <2> QED
      BY <1>1, <2>2, <2>4 DEF TIInv, Cleared, Hears, RunsAreCleared
<1> QED
    BY <1>2, <1>3

\* After PreToolUse: whoever goes on has not been refused, on arguments that
\* have been checked, rewritten or not.
LEMMA GoingOnIsClear ==
    ASSUME TIInv, Before
    PROVE  TIInv'
<1>1. /\ call \in Calls /\ firing \in Firings
      /\ phase = "call" /\ phase' = "call" /\ setup' = setup
      /\ call.stage = "before" /\ Hears /\ ~call.ran
    BY DEF TIInv, CallTypeOK, Cleared, Before, At, CallStep
<1> DEFINE input == firing.outcome.input
           args  == IF input = Unwritten THEN call.args ELSE input
<1>2. args \in Inputs
    BY <1>1 DEF Calls, Firings, Outcomes
<1>3. CASE /\ call' = [call EXCEPT !.stage = "answered", !.output = Error]
           /\ firing' = NotFiring
  <2>1. call' \in Calls
      BY <1>1, <1>3 DEF Calls, Stages, Outputs
  <2>2. call'.stage = "answered" /\ ~call'.ran
      BY <1>1, <1>3 DEF Calls
  <2>3. CallTypeOK'
      BY <1>1, <1>3, <2>1, NotFiringType DEF TIInv, CallTypeOK
  <2> QED
      BY <1>1, <1>3, <2>2, <2>3 DEF TIInv, Cleared, RunsAreCleared
<1>4. CASE /\ ~firing.outcome.blocked /\ Conforms(call.tool, args)
           /\ call' = [call EXCEPT !.stage = IF call.tool = RunCommand THEN "permission" ELSE "handler",
                                   !.args = args]
           /\ firing' = IF call.tool = RunCommand THEN Fired("PermissionRequest", RunCommand)
                        ELSE NotFiring
  <2>1. call' \in Calls
      BY <1>1, <1>2, <1>4 DEF Calls, Stages
  <2>2. ~call.refused
      BY <1>1, <1>4 DEF Hears
  <2>3. /\ ~call'.ran /\ ~call'.refused /\ call'.tool = call.tool /\ call'.args = args
        /\ call'.stage = IF call.tool = RunCommand THEN "permission" ELSE "handler"
      BY <1>1, <1>4, <2>2 DEF Calls
  <2>4. RunCommand \in Subjects
      BY ToolCallsAssumption DEF ToolCallsAssumption, Subjects
  <2>5. /\ firing' \in Firings
        /\ call.tool = RunCommand => /\ firing'.event = "PermissionRequest"
                                     /\ firing'.outcome = Nothing
        /\ call.tool # RunCommand => firing' = NotFiring
      BY <1>4, <2>4, FiredType, NotFiringType DEF Events
  <2>6. CallTypeOK'
      BY <1>1, <2>1, <2>5 DEF TIInv, CallTypeOK
  <2>7. Conforms(call'.tool, call'.args)
      BY <1>4, <2>3 DEF Conforms
  <2>8. Cleared'
      BY <1>1, <2>3, <2>5, <2>7 DEF Cleared, Hears, Nothing
  <2> QED
      BY <2>3, <2>6, <2>8 DEF TIInv, RunsAreCleared
<1> QED
    BY <1>3, <1>4 DEF Before

\* The handler's output, run or not, once the gates are behind it.
LEMMA ReturningIsClear ==
    ASSUME TIInv, phase = "call", phase' = "call", setup' = setup,
           NEW output \in Outputs, NEW ran \in BOOLEAN, NEW yes \in BOOLEAN,
           Returns(output, ran, yes),
           ran => /\ Conforms(call.tool, call.args)
                  /\ ~call.refused
                  /\ call.tool = RunCommand =>
                       \/ call.command = "listed"
                       \/ call.command = "asked" /\ (call.consented \/ yes)
    PROVE  TIInv'
<1>1. call \in Calls /\ firing \in Firings
    BY DEF TIInv, CallTypeOK
<1> DEFINE event == IF output = Error THEN "PostToolUseFailure" ELSE "PostToolUse"
<1>2. event \in Events /\ event \notin Policy
    BY DEF Events, Policy
<1>3. firing' \in Firings /\ firing'.event = event
    BY <1>1, <1>2, FiredType DEF Returns, Calls
<1>4. call' \in Calls
    BY <1>1 DEF Returns, Calls, Stages
<1>5. /\ call'.stage = "after" /\ call'.ran = ran /\ call'.refused = call.refused
      /\ call'.tool = call.tool /\ call'.args = call.args /\ call'.command = call.command
      /\ call'.consented = (call.consented \/ yes)
    BY <1>1 DEF Returns, Calls
<1>6. CallTypeOK'
    BY <1>3, <1>4 DEF TIInv, CallTypeOK
<1>7. Cleared'
    BY <1>2, <1>3, <1>5 DEF Cleared
<1>8. RunsAreCleared'
    BY <1>5 DEF RunsAreCleared, Conforms
<1> QED
    BY <1>6, <1>7, <1>8 DEF TIInv

LEMMA HandlingIsClear ==
    ASSUME TIInv, NEW output \in setup.outputs \cup {Error}, Handle(output)
    PROVE  TIInv'
<1>1. /\ setup \in Settings /\ phase = "call" /\ phase' = "call" /\ setup' = setup
      /\ Conforms(call.tool, call.args) /\ ~call.refused /\ call.tool # RunCommand
    BY DEF TIInv, CallTypeOK, Cleared, Handle, At, CallStep
<1>2. output \in Outputs
    BY <1>1 DEF Outputs
<1>3. Returns(output, TRUE, FALSE)
    BY DEF Handle
<1> QED
    BY <1>1, <1>2, <1>3, ReturningIsClear

\* run_command: the outcome that is looked at holds every refusal, and no
\* allowance that no hook gave.
LEMMA PermittingIsClear ==
    ASSUME TIInv, NEW answer \in BOOLEAN, NEW output \in setup.outputs \cup {Error},
           Permission(answer, output)
    PROVE  TIInv'
<1>1. /\ setup \in Settings /\ phase = "call" /\ phase' = "call" /\ setup' = setup
      /\ Conforms(call.tool, call.args) /\ Hears
      /\ firing.outcome.allowed => call.consented
    BY DEF TIInv, CallTypeOK, Cleared, Permission, At, CallStep
<1>2. output \in Outputs /\ Error \in Outputs
    BY <1>1 DEF Outputs
<1>3. CASE ~firing.outcome.blocked /\ Granted(answer) /\ Returns(output, TRUE, answer)
  <2>1. ~call.refused
      BY <1>1, <1>3 DEF Hears
  <2>2. \/ call.command = "listed"
        \/ call.command = "asked" /\ (call.consented \/ answer)
      BY <1>1, <1>3 DEF Granted
  <2> QED
      BY <1>1, <1>2, <1>3, <2>1, <2>2, ReturningIsClear
<1>4. CASE Returns(Error, FALSE, answer)
    BY <1>1, <1>2, <1>4, ReturningIsClear
<1> QED
    BY <1>3, <1>4 DEF Permission

\* What a hook makes of the result changes nothing of how it came about.
LEMMA AfterIsClear ==
    ASSUME TIInv, After
    PROVE  TIInv'
<1>1. /\ call \in Calls /\ firing \in Firings /\ phase = "call" /\ phase' = "call"
      /\ setup' = setup /\ firing' = NotFiring
    BY DEF TIInv, CallTypeOK, After, At, CallStep
<1> DEFINE output == IF firing.outcome.blocked THEN Error
                     ELSE IF firing.outcome.output # Unwritten THEN firing.outcome.output
                     ELSE call.output
<1>2. output \in Outputs
    BY <1>1 DEF Calls, Firings, Outcomes, Outputs
<1>3. call' = [call EXCEPT !.stage = "answered", !.output = output]
    BY DEF After
<1> HIDE DEF output
<1>4. call' \in Calls
    BY <1>1, <1>2, <1>3 DEF Calls, Stages
<1>5. /\ call'.stage = "answered" /\ call'.ran = call.ran /\ call'.refused = call.refused
      /\ call'.tool = call.tool /\ call'.args = call.args /\ call'.command = call.command
      /\ call'.consented = call.consented
    BY <1>1, <1>3 DEF Calls
<1>6. CallTypeOK'
    BY <1>1, <1>4, NotFiringType DEF TIInv, CallTypeOK
<1>7. Cleared'
    BY <1>1, <1>5 DEF Cleared
<1>8. RunsAreCleared'
    BY <1>5 DEF TIInv, RunsAreCleared, Conforms
<1> QED
    BY <1>6, <1>7, <1>8 DEF TIInv

\* A hook is passed over or heard.
LEMMA HookingIsClear ==
    ASSUME TIInv, Hook
    PROVE  TIInv'
<1>1. /\ call \in Calls /\ firing \in Firings /\ firing # NotFiring
      /\ phase = "call" /\ phase' = "call" /\ setup' = setup
    BY DEF TIInv, CallTypeOK, Cleared, Hook, PassOver, RunEntry, Due, CallStep
<1>2. call.stage \in {"before", "permission", "after"}
    BY <1>1 DEF TIInv, Cleared, Calls, Stages
<1>3. CASE PassOver /\ UNCHANGED call
  <2>1. firing' \in Firings /\ firing'.event = firing.event /\ firing'.outcome = firing.outcome
      BY <1>1, <1>3 DEF PassOver, Firings
  <2>2. CallTypeOK'
      BY <1>1, <1>3, <2>1 DEF TIInv, CallTypeOK
  <2>3. Cleared'
      BY <1>1, <1>2, <1>3, <2>1 DEF TIInv, Cleared, Hears, Conforms
  <2> QED
      BY <1>3, <2>2, <2>3 DEF TIInv, RunsAreCleared, Conforms
<1>4. CASE \E end \in Ends :
             /\ RunEntry(end)
             /\ call' = [call EXCEPT
                  !.refused = @ \/ (firing.event \in Policy /\ SaysNo(end)),
                  !.consented = @ \/ (firing.event = "PermissionRequest" /\ SaysYes(end))]
  <2>1. PICK end \in Ends :
             /\ RunEntry(end)
             /\ call' = [call EXCEPT
                  !.refused = @ \/ (firing.event \in Policy /\ SaysNo(end)),
                  !.consented = @ \/ (firing.event = "PermissionRequest" /\ SaysYes(end))]
      BY <1>4
  <2> DEFINE no  == firing.event \in Policy /\ SaysNo(end)
             yes == firing.event = "PermissionRequest" /\ SaysYes(end)
             one == Outcome(firing.event, end)
             merged == Merge(firing.outcome, one)
  <2>2. /\ call'.refused = (call.refused \/ no) /\ call'.consented = (call.consented \/ yes)
        /\ call'.stage = call.stage /\ call'.ran = call.ran
        /\ call'.tool = call.tool /\ call'.args = call.args /\ call'.command = call.command
        /\ call' \in Calls
      BY <1>1, <2>1 DEF Calls
  <2>3. /\ one \in Outcomes
        /\ no => one.blocked
        /\ one.allowed => SaysYes(end)
      BY OutcomeType
  <2>4. firing' = [firing EXCEPT !.next = @ + 1, !.outcome = merged]
      BY <1>1, <2>1 DEF RunEntry, Firings
  <2>5. firing.outcome \in Outcomes
      BY <1>1 DEF Firings
  <2>6. /\ merged \in Outcomes
        /\ merged.blocked <=> firing.outcome.blocked \/ one.blocked
        /\ merged.allowed <=> firing.outcome.allowed \/ one.allowed
      BY <2>3, <2>5, MergeType DEF merged
  <2>7. /\ firing' \in Firings /\ firing'.event = firing.event /\ firing'.outcome = merged
    <3>1. merged \in Outcomes /\ firing.next + 1 \in Nat
        BY <1>1, <2>6 DEF Firings
    <3> QED
        BY <1>1, <2>4, <3>1 DEF Firings
  <2>8. CallTypeOK'
      BY <1>1, <2>2, <2>7 DEF TIInv, CallTypeOK
  <2>9. CASE call.stage = "after"
    <3>1. ~no
        BY <2>9, <1>1 DEF TIInv, Cleared
    <3>2. call'.refused = call.refused
        BY <1>1, <2>2, <3>1 DEF Calls
    <3>3. Cleared'
        BY <1>1, <2>2, <2>7, <2>9 DEF TIInv, Cleared
    <3>4. RunsAreCleared'
        BY <2>2, <3>2 DEF TIInv, RunsAreCleared, Conforms
    <3> QED
        BY <2>8, <3>3, <3>4 DEF TIInv
  <2>10. CASE call.stage \in {"before", "permission"}
    <3>1. ~call.ran /\ Hears /\ Conforms(call.tool, call.args)
        BY <1>1, <2>10 DEF TIInv, Cleared
    <3>2. Hears'
        BY <2>2, <2>3, <2>6, <2>7, <3>1 DEF Hears
    <3>3. CASE call.stage = "permission"
      <4>1. /\ call.tool = RunCommand /\ firing.event = "PermissionRequest"
            /\ firing.outcome.allowed => call.consented
          BY <1>1, <3>3 DEF TIInv, Cleared
      <4>2. firing'.outcome.allowed => call'.consented
          BY <2>2, <2>3, <2>6, <2>7, <4>1 DEF yes
      <4>3. Cleared'
          BY <1>1, <2>2, <2>7, <3>1, <3>2, <3>3, <4>1, <4>2 DEF Cleared, Conforms
      <4> QED
          BY <2>2, <2>8, <3>1, <4>3 DEF TIInv, RunsAreCleared
    <3>4. CASE call.stage = "before"
      <4>1. Cleared'
          BY <1>1, <2>2, <2>7, <3>1, <3>2, <3>4 DEF Cleared, Conforms
      <4> QED
          BY <2>2, <2>8, <3>1, <4>1 DEF TIInv, RunsAreCleared
    <3> QED
        BY <2>10, <3>3, <3>4
  <2> QED
      BY <1>2, <2>9, <2>10
<1> QED
    BY <1>3, <1>4 DEF Hook

\* A stuck hook and a changed file touch no call; an interrupt and the budget
\* leave none under way.
LEMMA TheRestIsClear ==
    ASSUME TIInv,
           HookSticks \/ HooksChange \/ Result \/ Interrupt \/ NextRequest \/ TrimOne \/ Send
    PROVE  TIInv'
<1>1. /\ call \in Calls /\ firing \in Firings /\ setup' = setup
    BY DEF TIInv, CallTypeOK, HookSticks, HooksChange, Result, Interrupt, NextRequest, TrimOne,
           Send, CallStep, callVars
<1>2. CASE HookSticks
  <2>1. /\ firing' = [firing EXCEPT !.deaf = TRUE] /\ call' = call /\ phase' = phase
        /\ firing # NotFiring
      BY <1>2 DEF HookSticks, StuckInEntry, Due, CallStep
  <2>2. firing' \in Firings /\ firing'.event = firing.event /\ firing'.outcome = firing.outcome
      BY <1>1, <2>1 DEF Firings
  <2>3. CallTypeOK'
      BY <1>1, <2>1, <2>2 DEF TIInv, CallTypeOK
  <2>4. Cleared'
      BY <2>1, <2>2 DEF TIInv, Cleared, Hears, Conforms
  <2> QED
      BY <2>1, <2>3, <2>4 DEF TIInv, RunsAreCleared, Conforms
<1>3. CASE HooksChange \/ NextRequest \/ TrimOne \/ Send
  <2>1. /\ call' = call /\ firing' = firing
        /\ phase' # phase => phase # "call" /\ phase' \in {"request", "sent"}
      BY <1>3 DEF HooksChange, FileChanges, NextRequest, TrimOne, Send, hookVars, callVars
  <2>2. CallTypeOK' /\ Cleared'
      BY <1>1, <2>1 DEF TIInv, CallTypeOK, Cleared, Hears, Conforms
  <2> QED
      BY <2>1, <2>2 DEF TIInv, RunsAreCleared, Conforms
<1>4. CASE Result
  <2>1. /\ call' = NoCall /\ phase' = "model" /\ firing' = firing /\ firing = NotFiring
      BY <1>4 DEF TIInv, Cleared, Result, At, hookVars
  <2>2. NoCall \in Calls /\ ~NoCall.ran
      BY DEF NoCall, Calls, Subjects, Inputs, Commands, Outputs, Stages
  <2>3. CallTypeOK' /\ Cleared'
      BY <1>1, <2>1, <2>2 DEF TIInv, CallTypeOK, Cleared
  <2> QED
      BY <2>1, <2>2, <2>3 DEF TIInv, RunsAreCleared
<1>5. CASE Interrupt
  <2>1. call' = call /\ phase' = "over" /\ firing' = NotFiring
      BY <1>5 DEF Interrupt
  <2>2. CallTypeOK' /\ Cleared'
      BY <1>1, <2>1, NotFiringType DEF TIInv, CallTypeOK, Cleared
  <2> QED
      BY <2>1, <2>2 DEF TIInv, RunsAreCleared, Conforms
<1> QED
    BY <1>2, <1>3, <1>4, <1>5

LEMMA StepsAreClear == TIInv /\ [ToolCallsNext]_toolVars => TIInv'
<1> SUFFICES ASSUME TIInv, [ToolCallsNext]_toolVars PROVE TIInv'
    OBVIOUS
<1>1. CASE UNCHANGED toolVars
    BY <1>1 DEF TIInv, CallTypeOK, Cleared, Hears, Conforms, RunsAreCleared, toolVars, hookVars,
                callVars
<1>2. CASE \E tool \in setup.tools, input \in setup.inputs : \E command \in setup.commands :
             Propose(tool, input, command)
    BY <1>2, ProposingIsClear
<1>3. CASE Refuse \/ Admit
    BY <1>3, AdmittingIsClear
<1>4. CASE Before
    BY <1>4, GoingOnIsClear
<1>5. CASE \E output \in setup.outputs \cup {Error} : Handle(output)
    BY <1>5, HandlingIsClear
<1>6. CASE \E answer \in BOOLEAN, output \in setup.outputs \cup {Error} : Permission(answer, output)
    BY <1>6, PermittingIsClear
<1>7. CASE After
    BY <1>7, AfterIsClear
<1>8. CASE Hook
    BY <1>8, HookingIsClear
<1>9. CASE HookSticks \/ HooksChange \/ Result \/ Interrupt \/ NextRequest \/ TrimOne \/ Send
    BY <1>9, TheRestIsClear
<1> QED
    BY <1>1, <1>2, <1>3, <1>4, <1>5, <1>6, <1>7, <1>8, <1>9 DEF ToolCallsNext

\* No tool runs against a gate or on arguments its schema refuses, and no
\* command that is not listed without a yes, for every file of hooks, any number
\* of commands per event and every way they may end.
THEOREM GatesHold == ToolCallsSpec => []RunsAreCleared
<1>1. TIInv => RunsAreCleared
    BY DEF TIInv
<1> QED
    BY <1>1, ClearedAtTheStart, StepsAreClear, PTL DEF ToolCallsSpec

-----------------------------------------------------------------------------
(* The loop guard                                                          *)

\* What the end of a turn is.
LEMMA LastOfFacts ==
    ASSUME NEW S, NEW c \in Seq(S), NEW n \in 0..Len(c)
    PROVE  /\ LastOf(c, n) \in Seq(S) /\ Len(LastOf(c, n)) = n
           /\ \A j \in 1..n : LastOf(c, n)[j] = c[Len(c) - n + j]
<1>1. Len(c) \in Nat /\ Len(c) - n + 1 \in 1..Len(c) + 1 /\ Len(c) \in Len(c) - n..Len(c)
    BY LenProperties
<1>2. CASE n = 0
    <2>1. LastOf(c, n) = <<>>
        BY <1>1, <1>2 DEF LastOf
    <2>2. 1..n = {}
        BY <1>2
    <2> QED
        BY <1>2, <2>1, <2>2, EmptySeq
<1>3. CASE n # 0
    <2>1. Len(c) - n + 1 \in 1..Len(c) /\ Len(c) \in 1..Len(c)
        BY <1>1, <1>3
    <2>2. \A i \in Len(c) - n + 1..Len(c) : c[i] \in S
        BY <1>1, <2>1
    <2>3. LastOf(c, n) = [i \in 1..n |-> c[Len(c) - n + i]]
        BY <1>1, <2>1 DEF LastOf
    <2> QED
        BY <1>1, <2>2, <2>3
<1> QED
    BY <1>2, <1>3

\* Letting go of old calls one by one leaves what letting go of them at once leaves.
LEMMA TrimmedFacts ==
    ASSUME NEW S, NEW c \in Seq(S)
    PROVE  /\ Trimmed(c) \in Seq(S)
           /\ Len(Trimmed(c)) = IF Len(c) > 2 * MaxCyclePeriod THEN 2 * MaxCyclePeriod ELSE Len(c)
           /\ \A i \in 0..Len(Trimmed(c)) - 1 : Trimmed(c)[Len(Trimmed(c)) - i] = c[Len(c) - i]
<1>1. Len(c) \in Nat /\ 2 * MaxCyclePeriod \in Nat
    BY StallGuardAssumption
<1>2. CASE Len(c) > 2 * MaxCyclePeriod
    <2> DEFINE n == 2 * MaxCyclePeriod
    <2>1. n \in 0..Len(c)
        BY <1>1, <1>2
    <2>2. Trimmed(c) = LastOf(c, n)
        BY <1>2 DEF Trimmed
    <2>3. \A i \in 0..n - 1 : n - i \in 1..n /\ Len(c) - n + (n - i) = Len(c) - i
        BY <1>1
    <2> HIDE DEF n
    <2>4. \A i \in 0..n - 1 : LastOf(c, n)[n - i] = c[Len(c) - i]
        BY <2>1, <2>3, LastOfFacts
    <2>5. LastOf(c, n) \in Seq(S) /\ Len(LastOf(c, n)) = n
        BY <2>1, LastOfFacts
    <2> QED
        BY <1>2, <2>2, <2>4, <2>5 DEF n
<1>3. CASE ~(Len(c) > 2 * MaxCyclePeriod)
    BY <1>3 DEF Trimmed
<1> QED
    BY <1>2, <1>3

LEMMA TrimmedTwice ==
    ASSUME NEW S, NEW c \in Seq(S), NEW f \in S
    PROVE  Trimmed(Append(Trimmed(c), f)) = Trimmed(Append(c, f))
<1> DEFINE t == Trimmed(c)
           a == Trimmed(Append(t, f))
           b == Trimmed(Append(c, f))
<1>1. /\ t \in Seq(S)
      /\ Len(t) = IF Len(c) > 2 * MaxCyclePeriod THEN 2 * MaxCyclePeriod ELSE Len(c)
      /\ \A i \in 0..Len(t) - 1 : t[Len(t) - i] = c[Len(c) - i]
    BY TrimmedFacts
<1>0. Len(c) \in Nat /\ Len(t) \in Nat /\ 2 * MaxCyclePeriod \in Nat \ {0}
    BY <1>1, StallGuardAssumption
<1> HIDE DEF t, a, b
<1>2. /\ Append(t, f) \in Seq(S) /\ Len(Append(t, f)) = Len(t) + 1
      /\ Append(t, f)[Len(t) + 1] = f /\ \A i \in 1..Len(t) : Append(t, f)[i] = t[i]
      /\ Append(c, f) \in Seq(S) /\ Len(Append(c, f)) = Len(c) + 1
      /\ Append(c, f)[Len(c) + 1] = f /\ \A i \in 1..Len(c) : Append(c, f)[i] = c[i]
    BY <1>1
<1>3. /\ a \in Seq(S)
      /\ Len(a) = IF Len(t) + 1 > 2 * MaxCyclePeriod THEN 2 * MaxCyclePeriod ELSE Len(t) + 1
      /\ \A i \in 0..Len(a) - 1 : a[Len(a) - i] = Append(t, f)[Len(t) + 1 - i]
    <2> DEFINE x == Append(t, f)
    <2> HIDE DEF x
    <2>1. x \in Seq(S) /\ Len(x) = Len(t) + 1
        BY <1>2 DEF x
    <2>2. a = Trimmed(x)
        BY DEF x, a
    <2>3. /\ Trimmed(x) \in Seq(S)
          /\ Len(Trimmed(x)) = IF Len(x) > 2 * MaxCyclePeriod THEN 2 * MaxCyclePeriod ELSE Len(x)
          /\ \A i \in 0..Len(Trimmed(x)) - 1 : Trimmed(x)[Len(Trimmed(x)) - i] = x[Len(x) - i]
        BY <2>1, TrimmedFacts
    <2> QED
        BY <2>1, <2>2, <2>3 DEF x
<1>4. /\ b \in Seq(S)
      /\ Len(b) = IF Len(c) + 1 > 2 * MaxCyclePeriod THEN 2 * MaxCyclePeriod ELSE Len(c) + 1
      /\ \A i \in 0..Len(b) - 1 : b[Len(b) - i] = Append(c, f)[Len(c) + 1 - i]
    <2> DEFINE x == Append(c, f)
    <2> HIDE DEF x
    <2>1. x \in Seq(S) /\ Len(x) = Len(c) + 1
        BY <1>2 DEF x
    <2>2. b = Trimmed(x)
        BY DEF x, b
    <2>3. /\ Trimmed(x) \in Seq(S)
          /\ Len(Trimmed(x)) = IF Len(x) > 2 * MaxCyclePeriod THEN 2 * MaxCyclePeriod ELSE Len(x)
          /\ \A i \in 0..Len(Trimmed(x)) - 1 : Trimmed(x)[Len(Trimmed(x)) - i] = x[Len(x) - i]
        BY <2>1, TrimmedFacts
    <2> QED
        BY <2>1, <2>2, <2>3 DEF x
<1>5. Len(a) = Len(b) /\ Len(a) \in Nat /\ Len(a) <= Len(t) + 1 /\ Len(t) <= Len(c)
    BY <1>0, <1>1, <1>3, <1>4
<1>6. ASSUME NEW i \in 0..Len(a) - 1
      PROVE  a[Len(a) - i] = b[Len(a) - i]
    <2>1. a[Len(a) - i] = Append(t, f)[Len(t) + 1 - i] /\ b[Len(a) - i] = Append(c, f)[Len(c) + 1 - i]
        BY <1>3, <1>4, <1>5
    <2>2. CASE i = 0
        BY <1>0, <1>2, <2>1, <2>2
    <2>3. CASE i # 0
        <3>1. /\ i - 1 \in 0..Len(t) - 1 /\ Len(t) + 1 - i \in 1..Len(t) /\ Len(c) + 1 - i \in 1..Len(c)
              /\ Len(t) + 1 - i = Len(t) - (i - 1) /\ Len(c) + 1 - i = Len(c) - (i - 1)
            BY <1>0, <1>5, <2>3
        <3> QED
            BY <1>1, <1>2, <2>1, <3>1
    <2> QED
        BY <2>2, <2>3
<1>7. ASSUME NEW j \in 1..Len(a)
      PROVE  a[j] = b[j]
    <2>1. Len(a) - j \in 0..Len(a) - 1 /\ j = Len(a) - (Len(a) - j)
        BY <1>5
    <2> QED
        BY <1>6, <2>1
<1>8. a = b
    BY <1>3, <1>4, <1>5, <1>7, SeqEqual
<1> QED
    BY <1>8 DEF a, b, t

-----------------------------------------------------------------------------
\* The last n calls are one call n times.
LEMMA OneCall ==
    ASSUME NEW S, NEW c \in Seq(S), NEW n \in 1..Len(c)
    PROVE  /\ Cardinality(ToSet(LastOf(c, n))) \in Nat \ {0}
           /\ Cardinality(ToSet(LastOf(c, n))) = 1 <=>
                  \A i \in 1..n - 1 : c[Len(c) - i] = c[Len(c)]
<1> DEFINE l == LastOf(c, n)
<1>0. n \in Nat \ {0} /\ Len(c) \in Nat /\ n <= Len(c)
    OBVIOUS
<1>1. l \in Seq(S) /\ Len(l) = n /\ \A j \in 1..n : l[j] = c[Len(c) - n + j]
    BY <1>0, LastOfFacts
<1> HIDE DEF l
<1>2. ToSet(l) = {l[j] : j \in 1..n}
    <2>1. DOMAIN l = 1..n
        BY <1>0, <1>1
    <2> QED
        BY <2>1 DEF ToSet
<1>3. IsFiniteSet(ToSet(l)) /\ Cardinality(ToSet(l)) \in Nat
    <2>1. IsFiniteSet(1..n)
        BY <1>0, FS_Interval
    <2>2. l \in Surjection(1..n, ToSet(l))
        BY <1>1, <1>2 DEF Surjection
    <2> QED
        BY <2>1, <2>2, FS_Surjection, FS_CardinalityType
<1>4. l[n] \in ToSet(l) /\ l[n] = c[Len(c)]
    BY <1>0, <1>1, <1>2
<1>5. Cardinality(ToSet(l)) # 0
    BY <1>3, <1>4, FS_EmptySet
<1>6. \A i \in 0..n - 1 : l[n - i] = c[Len(c) - i]
    <2>1. \A i \in 0..n - 1 : n - i \in 1..n /\ Len(c) - n + (n - i) = Len(c) - i
        BY <1>0
    <2> QED
        BY <1>1, <2>1
<1>7. ASSUME Cardinality(ToSet(l)) = 1, NEW i \in 1..n - 1
      PROVE  c[Len(c) - i] = c[Len(c)]
    <2>1. PICK x : ToSet(l) = {x}
        BY <1>3, <1>7, FS_Singleton
    <2>2. n - i \in 1..n /\ i \in 0..n - 1
        BY <1>0
    <2>3. l[n - i] = x /\ l[n] = x
        BY <1>2, <1>4, <2>1, <2>2
    <2> QED
        BY <1>4, <1>6, <2>2, <2>3
<1>8. ASSUME \A i \in 1..n - 1 : c[Len(c) - i] = c[Len(c)]
      PROVE  Cardinality(ToSet(l)) = 1
    <2>1. ASSUME NEW j \in 1..n
          PROVE  l[j] = c[Len(c)]
        <3>1. n - j \in 0..n - 1 /\ n - (n - j) = j
            BY <1>0
        <3>2. l[j] = c[Len(c) - (n - j)]
            BY <1>6, <3>1
        <3>3. CASE n - j = 0
            BY <1>0, <3>2, <3>3
        <3>4. CASE n - j # 0
            BY <1>0, <1>8, <3>1, <3>2, <3>4
        <3> QED
            BY <3>3, <3>4
    <2>2. ToSet(l) = {c[Len(c)]}
        BY <1>2, <1>4, <2>1
    <2> QED
        BY <2>2, FS_Singleton
<1> QED
    BY <1>3, <1>5, <1>7, <1>8 DEF l

\* The rule of equal calls asks whether the last ones it needs are equal.
LEMMA RepeatedMeans ==
    ASSUME NEW S, NEW c \in Seq(S)
    PROVE  Identical(c) >= IdenticalThreshold <=>
               /\ Len(c) >= IdenticalThreshold
               /\ \A i \in 1..IdenticalThreshold - 1 : c[Len(c) - i] = Last(c)
<1> DEFINE T == IdenticalThreshold
           same == {n \in 1..Len(c) : Cardinality(ToSet(LastOf(c, n))) = 1}
           All(n) == \A i \in 1..n - 1 : c[Len(c) - i] = c[Len(c)]
<1>0. T \in Nat \ {0, 1} /\ Len(c) \in Nat
    BY StallGuardAssumption
<1>1. same = {n \in 1..Len(c) : All(n)}
    BY OneCall
<1>2. Identical(c) = Cardinality(same)
    BY DEF Identical
<1>3. Last(c) = c[Len(c)]
    BY DEF Last
<1>4. IsFiniteSet(same) /\ Cardinality(same) \in Nat
    <2>1. IsFiniteSet(1..Len(c)) /\ same \in SUBSET (1..Len(c))
        BY <1>0, FS_Interval
    <2> QED
        BY <2>1, FS_Subset, FS_CardinalityType
<1> HIDE DEF same, T
<1>5. ASSUME Len(c) >= T, All(T)
      PROVE  Cardinality(same) >= T
    <2>1. \A n \in 1..T : n \in 1..Len(c) /\ All(n)
        BY <1>0, <1>5
    <2>2. 1..T \in SUBSET same
        BY <1>1, <2>1
    <2>3. Cardinality(1..T) = T
        BY <1>0, FS_Interval
    <2>4. Cardinality(1..T) <= Cardinality(same)
        BY <1>4, <2>2, FS_Subset
    <2> QED
        BY <2>3, <2>4, <1>0, <1>4
<1>6. ASSUME ~(Len(c) >= T /\ All(T))
      PROVE  ~(Cardinality(same) >= T)
    <2>1. \A n \in 1..Len(c) : All(n) => n <= T - 1
        BY <1>0, <1>6
    <2>2. same \in SUBSET (1..T - 1)
        BY <1>0, <1>1, <2>1
    <2>3. IsFiniteSet(1..T - 1) /\ Cardinality(1..T - 1) = T - 1
        BY <1>0, FS_Interval
    <2>4. Cardinality(same) <= Cardinality(1..T - 1)
        BY <2>2, <2>3, FS_Subset
    <2> QED
        BY <2>3, <2>4, <1>0, <1>4
<1> QED
    BY <1>2, <1>3, <1>5, <1>6 DEF T

\* The rule of cycles asks whether the last period agrees with the one before.
LEMMA CyclicMeans ==
    ASSUME NEW S, NEW c \in Seq(S), NEW p \in Nat \ {0}, Len(c) >= 2 * p
    PROVE  LastOf(c, 2 * p) = LastOf(c, p) \o LastOf(c, p) <=>
               \A i \in 0..p - 1 : c[Len(c) - i] = c[Len(c) - i - p]
<1> DEFINE l == LastOf(c, p)
           w == LastOf(c, 2 * p)
           L == Len(c)
<1>0. L \in Nat /\ p \in 0..L /\ 2 * p \in 0..L
    OBVIOUS
<1>1. l \in Seq(S) /\ Len(l) = p /\ \A j \in 1..p : l[j] = c[L - p + j]
    BY <1>0, LastOfFacts
<1>2. w \in Seq(S) /\ Len(w) = 2 * p /\ \A j \in 1..2 * p : w[j] = c[L - 2 * p + j]
    BY <1>0, LastOfFacts
<1> HIDE DEF l, w
<1>3. /\ l \o l \in Seq(S) /\ Len(l \o l) = 2 * p
      /\ \A j \in 1..2 * p : (l \o l)[j] = IF j <= p THEN l[j] ELSE l[j - p]
    BY <1>0, <1>1
<1>4. w = l \o l <=> \A j \in 1..2 * p : w[j] = (l \o l)[j]
    BY <1>2, <1>3, SeqEqual
<1>5. \A j \in p + 1..2 * p : w[j] = (l \o l)[j]
    <2> TAKE j \in p + 1..2 * p
    <2>1. j \in 1..2 * p /\ j - p \in 1..p /\ ~(j <= p) /\ L - 2 * p + j = L - p + (j - p)
        BY <1>0
    <2> QED
        BY <1>1, <1>2, <1>3, <2>1
<1>6. \A j \in 1..p : w[j] = (l \o l)[j] <=> c[L - 2 * p + j] = c[L - p + j]
    <2> TAKE j \in 1..p
    <2>1. j \in 1..2 * p /\ j <= p
        BY <1>0
    <2> QED
        BY <1>1, <1>2, <1>3, <2>1
<1>7. w = l \o l <=> \A j \in 1..p : c[L - 2 * p + j] = c[L - p + j]
    <2>1. \A j \in 1..2 * p : j \in 1..p \/ j \in p + 1..2 * p
        BY <1>0
    <2>2. \A j \in 1..p : j \in 1..2 * p
        BY <1>0
    <2> QED
        BY <1>4, <1>5, <1>6, <2>1, <2>2
<1>8. (\A j \in 1..p : c[L - 2 * p + j] = c[L - p + j]) <=>
          \A i \in 0..p - 1 : c[L - i] = c[L - i - p]
    <2>1. \A j \in 1..p : p - j \in 0..p - 1 /\ L - (p - j) = L - p + j /\ L - (p - j) - p = L - 2 * p + j
        BY <1>0
    <2>2. \A i \in 0..p - 1 : p - i \in 1..p /\ L - p + (p - i) = L - i /\ L - 2 * p + (p - i) = L - i - p
        BY <1>0
    <2>3. ASSUME \A j \in 1..p : c[L - 2 * p + j] = c[L - p + j], NEW i \in 0..p - 1
          PROVE  c[L - i] = c[L - i - p]
        BY <2>2, <2>3
    <2>4. ASSUME \A i \in 0..p - 1 : c[L - i] = c[L - i - p], NEW j \in 1..p
          PROVE  c[L - 2 * p + j] = c[L - p + j]
        BY <2>1, <2>4
    <2> QED
        BY <2>3, <2>4
<1> QED
    BY <1>7, <1>8 DEF l, w

\* The two rules together say what they are for: a cycle of one and the same
\* call is long enough for the rule of equal calls.
LEMMA ClassifyMeans ==
    ASSUME NEW S, NEW c \in Seq(S), IdenticalThreshold <= 4
    PROVE  Classify(c) # "ok" <=> EndsInACircle(c)
<1> DEFINE Rep == /\ Len(c) >= IdenticalThreshold
                  /\ \A i \in 1..IdenticalThreshold - 1 : c[Len(c) - i] = Last(c)
           Twice(p) == /\ Len(c) >= 2 * p
                       /\ \A i \in 0..p - 1 : c[Len(c) - i] = c[Len(c) - i - p]
<1>0. /\ IdenticalThreshold \in Nat \ {0, 1} /\ MaxCyclePeriod \in Nat /\ Len(c) \in Nat
      /\ \A p \in 2..MaxCyclePeriod : p \in Nat \ {0, 1}
    BY StallGuardAssumption
<1>1. Identical(c) >= IdenticalThreshold <=> Rep
    BY RepeatedMeans
<1>2. ASSUME NEW p \in 2..MaxCyclePeriod, Cycles(c, p)
      PROVE  Twice(p)
    BY <1>0, <1>2, CyclicMeans DEF Cycles
<1>3. ASSUME NEW p \in 2..MaxCyclePeriod, Twice(p), ~Cycles(c, p)
      PROVE  Rep
    <2>0. p \in Nat /\ p >= 2 /\ 2 * p \in Nat /\ p \in 1..Len(c)
        BY <1>0, <1>3
    <2>1. LastOf(c, 2 * p) = LastOf(c, p) \o LastOf(c, p)
        BY <1>0, <1>3, CyclicMeans
    <2>2. Cardinality(ToSet(LastOf(c, p))) = 1
        <3>1. Cardinality(ToSet(LastOf(c, p))) \in Nat \ {0}
            BY <2>0, OneCall
        <3>2. ~(Cardinality(ToSet(LastOf(c, p))) > 1)
            BY <1>3, <2>1 DEF Cycles
        <3> QED
            BY <3>1, <3>2
    <2>3. \A i \in 1..p - 1 : c[Len(c) - i] = c[Len(c)]
        BY <2>0, <2>2, OneCall
    <2>4. ASSUME NEW i \in 1..2 * p - 1
          PROVE  c[Len(c) - i] = c[Len(c)]
        <3>1. CASE i <= p - 1
            BY <2>0, <2>3, <3>1
        <3>2. CASE i = p
            <4>1. 0 \in 0..p - 1 /\ Len(c) - 0 = Len(c) /\ Len(c) - 0 - p = Len(c) - i
                BY <1>0, <2>0, <3>2
            <4> QED
                BY <1>3, <4>1
        <3>3. CASE i > p
            <4>1. /\ i - p \in 1..p - 1 /\ i - p \in 0..p - 1
                  /\ Len(c) - (i - p) - p = Len(c) - i
                BY <1>0, <2>0, <3>3
            <4>2. c[Len(c) - (i - p)] = c[Len(c)]
                BY <2>3, <4>1
            <4>3. c[Len(c) - (i - p)] = c[Len(c) - (i - p) - p]
                BY <1>3, <4>1
            <4> QED
                BY <4>1, <4>2, <4>3
        <3> QED
            BY <2>0, <3>1, <3>2, <3>3
    <2>5. Len(c) >= IdenticalThreshold
        BY <1>0, <1>3, <2>0
    <2>6. \A i \in 1..IdenticalThreshold - 1 : i \in 1..2 * p - 1
        BY <1>0, <2>0
    <2> QED
        BY <2>4, <2>5, <2>6 DEF Last
<1>4. Classify(c) # "ok" <=> Rep \/ \E p \in 2..MaxCyclePeriod : Cycles(c, p)
    BY <1>1 DEF Classify
<1>5. EndsInACircle(c) <=> Rep \/ \E p \in 2..MaxCyclePeriod : Twice(p)
    BY DEF EndsInACircle
<1> HIDE DEF Rep, Twice
<1> QED
    BY <1>2, <1>3, <1>4, <1>5

\* Nothing the guard has let go of would have made a difference.
LEMMA TrimmedIsEnough ==
    ASSUME NEW S, NEW c \in Seq(S), IdenticalThreshold <= 4
    PROVE  EndsInACircle(Trimmed(c)) <=> EndsInACircle(c)
<1> DEFINE t == Trimmed(c)
           W == 2 * MaxCyclePeriod
<1>1. /\ t \in Seq(S)
      /\ Len(t) = IF Len(c) > W THEN W ELSE Len(c)
      /\ \A i \in 0..Len(t) - 1 : t[Len(t) - i] = c[Len(c) - i]
    BY TrimmedFacts
<1>0. /\ Len(c) \in Nat /\ Len(t) \in Nat /\ MaxCyclePeriod \in Nat /\ W \in Nat /\ W >= 4
      /\ IdenticalThreshold \in Nat \ {0, 1}
    BY <1>1, StallGuardAssumption
<1> HIDE DEF t
<1>2. Len(t) >= IdenticalThreshold <=> Len(c) >= IdenticalThreshold
    BY <1>0, <1>1
<1>3. ASSUME Len(c) >= IdenticalThreshold
      PROVE  /\ Last(t) = Last(c)
             /\ \A i \in 1..IdenticalThreshold - 1 : t[Len(t) - i] = c[Len(c) - i]
    <2>1. 0 \in 0..Len(t) - 1 /\ Len(t) - 0 = Len(t) /\ Len(c) - 0 = Len(c)
        BY <1>0, <1>2, <1>3
    <2>2. \A i \in 1..IdenticalThreshold - 1 : i \in 0..Len(t) - 1
        BY <1>0, <1>2, <1>3
    <2> QED
        BY <1>1, <2>1, <2>2 DEF Last
<1>4. ASSUME NEW p \in 2..MaxCyclePeriod
      PROVE  /\ Len(t) >= 2 * p <=> Len(c) >= 2 * p
             /\ Len(c) >= 2 * p =>
                    \A i \in 0..p - 1 : /\ t[Len(t) - i] = c[Len(c) - i]
                                        /\ t[Len(t) - i - p] = c[Len(c) - i - p]
    <2>1. p \in Nat /\ 2 * p \in Nat /\ 2 * p <= W
        BY <1>0
    <2>2. Len(t) >= 2 * p <=> Len(c) >= 2 * p
        BY <1>0, <1>1, <2>1
    <2>3. ASSUME Len(c) >= 2 * p, NEW i \in 0..p - 1
          PROVE  /\ t[Len(t) - i] = c[Len(c) - i]
                 /\ t[Len(t) - i - p] = c[Len(c) - i - p]
        <3>1. i \in 0..Len(t) - 1 /\ i + p \in 0..Len(t) - 1
            BY <1>0, <2>1, <2>2, <2>3
        <3>2. Len(t) - (i + p) = Len(t) - i - p /\ Len(c) - (i + p) = Len(c) - i - p
            BY <1>0, <2>1
        <3> QED
            BY <1>1, <3>1, <3>2
    <2> QED
        BY <2>2, <2>3
<1>5. (/\ Len(t) >= IdenticalThreshold
       /\ \A i \in 1..IdenticalThreshold - 1 : t[Len(t) - i] = Last(t))
      <=> (/\ Len(c) >= IdenticalThreshold
           /\ \A i \in 1..IdenticalThreshold - 1 : c[Len(c) - i] = Last(c))
    BY <1>2, <1>3
<1>6. ASSUME NEW p \in 2..MaxCyclePeriod
      PROVE (/\ Len(t) >= 2 * p
             /\ \A i \in 0..p - 1 : t[Len(t) - i] = t[Len(t) - i - p])
            <=> (/\ Len(c) >= 2 * p
                 /\ \A i \in 0..p - 1 : c[Len(c) - i] = c[Len(c) - i - p])
    BY <1>4
<1> QED
    BY <1>5, <1>6 DEF EndsInACircle, t

-----------------------------------------------------------------------------
\* What the guard knows a call by.
Fingerprints == {<<c.tool, c.input, c.command, c.output.says>> : c \in Calls}

\* The guard keeps the end of what it has seen, and has said of it what it had to.
Watching ==
    /\ observed \in Seq(Fingerprints)
    /\ recent = Trimmed(observed)
    /\ StallsAreNoticed

\* How often the first n calls ended in a circle.
LEMMA OneMoreCall ==
    ASSUME NEW S, NEW c \in Seq(S), NEW f \in S
    PROVE  LET ends(s) == {n \in 1..Len(s) : EndsInACircle(SubSeq(s, 1, n))}
           IN  /\ Cardinality(ends(c)) \in Nat
               /\ Cardinality(ends(Append(c, f))) =
                      IF EndsInACircle(Append(c, f)) THEN Cardinality(ends(c)) + 1
                      ELSE Cardinality(ends(c))
<1> DEFINE ends(s) == {n \in 1..Len(s) : EndsInACircle(SubSeq(s, 1, n))}
           d == Append(c, f)
<1>0. Len(c) \in Nat /\ d \in Seq(S) /\ Len(d) = Len(c) + 1
    OBVIOUS
<1>1. SubSeq(d, 1, Len(c) + 1) = d
    BY <1>0
<1>2. \A n \in 1..Len(c) : SubSeq(d, 1, n) = SubSeq(c, 1, n)
    BY <1>0
<1> HIDE DEF d
<1>3. \A n : n \in 1..Len(d) <=> n \in 1..Len(c) \/ n = Len(c) + 1
    BY <1>0
<1>4. ends(d) = IF EndsInACircle(d) THEN ends(c) \cup {Len(c) + 1} ELSE ends(c)
    BY <1>0, <1>1, <1>2, <1>3
<1>5. IsFiniteSet(ends(c)) /\ Cardinality(ends(c)) \in Nat
    <2>1. IsFiniteSet(1..Len(c)) /\ ends(c) \in SUBSET (1..Len(c))
        BY <1>0, FS_Interval
    <2> QED
        BY <2>1, FS_Subset, FS_CardinalityType
<1>6. ~(Len(c) + 1 \in ends(c))
    BY <1>0
<1> HIDE DEF ends
<1>7. Cardinality(ends(c) \cup {Len(c) + 1}) = Cardinality(ends(c)) + 1
    BY <1>5, <1>6, FS_AddElement
<1> QED
    BY <1>4, <1>5, <1>7 DEF ends, d

LEMMA WatchingAtTheStart == ToolCallsInit => Watching
<1> SUFFICES ASSUME ToolCallsInit PROVE Watching
    OBVIOUS
<1>1. observed = <<>> /\ recent = <<>> /\ hits = 0
    BY DEF ToolCallsInit, GuardInit
<1>2. observed \in Seq(Fingerprints) /\ Len(observed) = 0
    BY <1>1
<1>3. Trimmed(observed) = <<>>
    BY <1>1, <1>2, StallGuardAssumption DEF Trimmed
<1>4. {n \in 1..Len(observed) : EndsInACircle(SubSeq(observed, 1, n))} = {}
    BY <1>2
<1> QED
    BY <1>1, <1>2, <1>3, <1>4, FS_EmptySet DEF Watching, StallsAreNoticed

LEMMA WatchingKept ==
    ASSUME IdenticalThreshold <= 4, TIInv, Watching, [ToolCallsNext]_toolVars
    PROVE  Watching'
<1>1. CASE Result
    <2> DEFINE f == <<call.tool, call.input, call.command, call.output.says>>
               seen == Append(observed, f)
    <2>1. f \in Fingerprints
        BY DEF TIInv, CallTypeOK, Fingerprints
    <2> HIDE DEF f
    <2>2. observed' = seen /\ recent' = Trimmed(Append(recent, f)) /\ verdict' = Classify(recent')
          /\ hits' = IF verdict' = "ok" THEN hits ELSE hits + 1
        BY <1>1 DEF Result, Observe, f
    <2>3. seen \in Seq(Fingerprints) /\ seen # <<>>
        BY <2>1 DEF Watching
    <2>4. recent' = Trimmed(seen)
        BY <2>1, <2>2, TrimmedTwice DEF Watching
    <2>5. Trimmed(seen) \in Seq(Fingerprints)
        BY <2>3, TrimmedFacts
    <2> HIDE DEF seen
    <2>6. verdict' # "ok" <=> EndsInACircle(seen)
        BY <2>2, <2>3, <2>4, <2>5, ClassifyMeans, TrimmedIsEnough
    <2>7. hits' = Cardinality({n \in 1..Len(seen) : EndsInACircle(SubSeq(seen, 1, n))})
        <3>1. hits = Cardinality({n \in 1..Len(observed) : EndsInACircle(SubSeq(observed, 1, n))})
            BY DEF Watching, StallsAreNoticed
        <3> QED
            BY <2>1, <2>2, <2>6, <3>1, OneMoreCall DEF Watching, seen
    <2> QED
        BY <2>2, <2>3, <2>4, <2>6, <2>7 DEF Watching, StallsAreNoticed
<1>2. CASE UNCHANGED guardVars
    BY <1>2 DEF guardVars, Watching, StallsAreNoticed
<1>3. ASSUME ~Result
      PROVE  UNCHANGED guardVars
    BY <1>3 DEF ToolCallsNext, Propose, Refuse, Admit, Before, Handle, Permission, After, Hook, HookSticks,
                HooksChange, Interrupt, NextRequest, TrimOne, Send, CallStep, toolVars
<1> QED
    BY <1>1, <1>2, <1>3

\* StallsAreNoticed, however long the turn is: the model is told exactly when the
\* turn ends in a circle.  Two periods of a cycle are at least four calls, and
\* equal ones among them are left to the rule of equal calls: that one must ask
\* for no more (IDENTICAL_THRESHOLD is 3).
THEOREM CirclesAreSeen ==
    ASSUME IdenticalThreshold <= 4
    PROVE  ToolCallsSpec => []StallsAreNoticed
<1>1. ToolCallsInit => TIInv /\ Watching
    BY ClearedAtTheStart, WatchingAtTheStart
<1>2. TIInv /\ Watching /\ [ToolCallsNext]_toolVars => (TIInv /\ Watching)'
    BY StepsAreClear, WatchingKept
<1>3. TIInv /\ Watching => StallsAreNoticed
    BY DEF Watching
<1> QED
    BY <1>1, <1>2, <1>3, PTL DEF ToolCallsSpec

-----------------------------------------------------------------------------
(* What lines cost                                                         *)

\* A set of numbers has a first one; a bounded one has a last.
LEMMA FirstOf ==
    ASSUME NEW T \in SUBSET Nat, T # {}
    PROVE  \E m \in T : \A k \in T : m <= k
<1> DEFINE below == {p \in Nat \X Nat : p[1] < p[2]}
<1>1. IsWellFoundedOn(below, Nat)
    <2>1. OpToRel(<, Nat) = below
        BY DEF OpToRel
    <2> QED
        BY <2>1, NatLessThanWellFounded
<1> HIDE DEF below
<1>2. PICK m \in T : \A k \in T : ~(<<k, m>> \in below)
    BY <1>1, WFMin
<1>3. \A k \in T : ~(k < m)
    BY <1>2 DEF below
<1> QED
    BY <1>3

LEMMA LastOne ==
    ASSUME NEW n \in Nat, NEW T \in SUBSET (0..n), T # {}
    PROVE  Max(T) \in T /\ \A k \in T : k <= Max(T)
<1> DEFINE mirror == {k \in 0..n : n - k \in T}
<1>1. mirror \in SUBSET Nat
    OBVIOUS
<1>2. mirror # {}
    <2>1. PICK k \in T : TRUE
        OBVIOUS
    <2>2. n - k \in 0..n /\ n - (n - k) = k
        BY <2>1
    <2> QED
        BY <2>1, <2>2
<1>3. PICK m \in mirror : \A k \in mirror : m <= k
    BY <1>1, <1>2, FirstOf
<1>4. n - m \in T
    BY <1>3
<1>5. \A k \in T : n - m >= k
    <2> TAKE k \in T
    <2>1. k \in 0..n /\ n - k \in 0..n /\ n - (n - k) = k
        OBVIOUS
    <2>2. n - k \in mirror
        BY <2>1
    <2>3. m <= n - k /\ m \in 0..n
        BY <1>3, <2>2
    <2> QED
        BY <2>1, <2>3
<1>6. \E x \in T : \A y \in T : x >= y
    BY <1>4, <1>5
<1>7. Max(T) \in T /\ \A y \in T : Max(T) >= y
    BY <1>6 DEF Max
<1> QED
    BY <1>7

\* f says what the first lines cost, for every number of them.
Sums(f, lines) ==
    /\ f \in [0..Len(lines) -> Nat]
    /\ f[0] = 0
    /\ \A k \in 1..Len(lines) : f[k] = f[k - 1] + lines[k] + 1

LEMMA SumsExist ==
    ASSUME NEW lines \in Seq(Nat)
    PROVE  \E f : Sums(f, lines)
<1> DEFINE Upto(n) == \E f \in [0..n -> Nat] :
                          f[0] = 0 /\ \A k \in 1..n : f[k] = f[k - 1] + lines[k] + 1
           without == {n \in 0..Len(lines) : ~Upto(n)}
<1>0. Len(lines) \in Nat
    OBVIOUS
<1>1. Upto(0)
    <2>1. [k \in 0..0 |-> 0] \in [0..0 -> Nat] /\ [k \in 0..0 |-> 0][0] = 0
        OBVIOUS
    <2>2. 1..0 = {}
        OBVIOUS
    <2> QED
        BY <2>1, <2>2
<1>2. ASSUME NEW n \in 1..Len(lines), Upto(n - 1)
      PROVE  Upto(n)
    <2>0. n \in Nat /\ n - 1 \in Nat /\ lines[n] \in Nat /\ n - 1 \in 0..n - 1
        OBVIOUS
    <2>1. PICK f \in [0..n - 1 -> Nat] :
              f[0] = 0 /\ \A k \in 1..n - 1 : f[k] = f[k - 1] + lines[k] + 1
        BY <1>2
    <2> DEFINE g == [k \in 0..n |-> IF k = n THEN f[n - 1] + lines[n] + 1 ELSE f[k]]
    <2>2. g \in [0..n -> Nat]
        BY <2>0
    <2>3. g[0] = 0
        BY <2>0, <2>1
    <2>4. ASSUME NEW k \in 1..n
          PROVE  g[k] = g[k - 1] + lines[k] + 1
        <3>1. k - 1 \in 0..n - 1 /\ k - 1 \in 0..n /\ k \in 0..n /\ k - 1 # n
            BY <2>0
        <3>2. g[k - 1] = f[k - 1]
            BY <3>1
        <3>3. CASE k = n
            BY <3>1, <3>2, <3>3
        <3>4. CASE k # n
            <4>1. k \in 1..n - 1 /\ g[k] = f[k]
                BY <2>0, <3>4
            <4> QED
                BY <2>1, <3>2, <4>1
        <3> QED
            BY <3>3, <3>4
    <2> HIDE DEF g
    <2> QED
        BY <2>2, <2>3, <2>4
<1> HIDE DEF Upto
<1>3. without = {}
    <2> SUFFICES ASSUME without # {} PROVE FALSE
        OBVIOUS
    <2>1. without \in SUBSET Nat
        OBVIOUS
    <2>2. PICK m \in without : \A k \in without : m <= k
        BY <2>1, FirstOf
    <2>3. m # 0
        BY <1>1, <2>2
    <2>4. m \in 1..Len(lines) /\ m - 1 \in 0..Len(lines) /\ ~(m <= m - 1)
        BY <1>0, <2>2, <2>3
    <2>5. Upto(m - 1)
        BY <2>2, <2>4
    <2> QED
        BY <1>2, <2>2, <2>4, <2>5
<1>4. Upto(Len(lines))
    BY <1>0, <1>3
<1> QED
    BY <1>4 DEF Upto, Sums

LEMMA SumsAreOne ==
    ASSUME NEW lines \in Seq(Nat), NEW f, NEW h, Sums(f, lines), Sums(h, lines)
    PROVE  f = h
<1> DEFINE apart == {k \in 0..Len(lines) : f[k] # h[k]}
<1>0. Len(lines) \in Nat
    OBVIOUS
<1>1. apart = {}
    <2> SUFFICES ASSUME apart # {} PROVE FALSE
        OBVIOUS
    <2>1. apart \in SUBSET Nat
        OBVIOUS
    <2>2. PICK m \in apart : \A k \in apart : m <= k
        BY <2>1, FirstOf
    <2>3. m # 0
        BY <2>2 DEF Sums
    <2>4. m \in 1..Len(lines) /\ m - 1 \in 0..Len(lines) /\ ~(m <= m - 1)
        BY <1>0, <2>2, <2>3
    <2>5. f[m - 1] = h[m - 1]
        BY <2>2, <2>4
    <2>6. f[m] = h[m]
        BY <2>4, <2>5 DEF Sums
    <2> QED
        BY <2>2, <2>6
<1> QED
    BY <1>1 DEF Sums

\* The books of take_head_lines are well defined.
LEMMA CostSums ==
    ASSUME NEW lines \in Seq(Nat), NEW f, Sums(f, lines)
    PROVE  Cost(lines) = f[Len(lines)] /\ Cost(lines) \in Nat
<1> DEFINE Is(u) == u = [n \in 0..Len(lines) |-> IF n = 0 THEN 0 ELSE u[n - 1] + lines[n] + 1]
<1>0. Len(lines) \in Nat
    OBVIOUS
<1>1. Is(f)
    <2>1. \A n \in 0..Len(lines) : f[n] = IF n = 0 THEN 0 ELSE f[n - 1] + lines[n] + 1
        BY <1>0 DEF Sums
    <2> QED
        BY <2>1 DEF Sums
<1>2. ASSUME NEW u, Is(u)
      PROVE  Sums(u, lines)
    <2> DEFINE apart == {k \in 0..Len(lines) : u[k] \notin Nat}
    <2>1. DOMAIN u = 0..Len(lines) /\ u = [n \in 0..Len(lines) |-> u[n]]
        BY <1>2
    <2>2. \A n \in 0..Len(lines) : u[n] = IF n = 0 THEN 0 ELSE u[n - 1] + lines[n] + 1
        BY <1>2
    <2>3. apart = {}
        <3> SUFFICES ASSUME apart # {} PROVE FALSE
            OBVIOUS
        <3>1. apart \in SUBSET Nat
            OBVIOUS
        <3>2. PICK m \in apart : \A k \in apart : m <= k
            BY <3>1, FirstOf
        <3>3. m # 0
            BY <1>0, <2>2, <3>2
        <3>4. m \in 1..Len(lines) /\ m - 1 \in 0..Len(lines) /\ ~(m <= m - 1)
            BY <1>0, <3>2, <3>3
        <3>5. u[m - 1] \in Nat /\ lines[m] \in Nat
            BY <3>2, <3>4
        <3>6. u[m] \in Nat
            BY <2>2, <3>3, <3>4, <3>5
        <3> QED
            BY <3>2, <3>6
    <2>4. u \in [0..Len(lines) -> Nat]
        BY <2>1, <2>3
    <2>5. u[0] = 0 /\ \A k \in 1..Len(lines) : u[k] = u[k - 1] + lines[k] + 1
        BY <1>0, <2>2
    <2> QED
        BY <2>4, <2>5 DEF Sums
<1>3. Is(CHOOSE u : Is(u))
    BY <1>1
<1>4. (CHOOSE u : Is(u)) = f
    <2> DEFINE c == CHOOSE u : Is(u)
    <2>1. Is(c)
        BY <1>3
    <2> HIDE DEF c, Is
    <2>2. Sums(c, lines)
        BY <1>2, <2>1
    <2>3. c = f
        BY <2>2, SumsAreOne
    <2> QED
        BY <2>3 DEF c
<1>5. Cost(lines) = (CHOOSE u : Is(u))[Len(lines)]
    BY DEF Cost
<1> HIDE DEF Is
<1> QED
    BY <1>0, <1>4, <1>5 DEF Sums

LEMMA CostOfOne ==
    /\ Cost(<<>>) = 0
    /\ \A n \in Nat : Cost(<<n>>) = n + 1
    /\ \A lines \in Seq(Nat) : Cost(lines) \in Nat
<1>1. Cost(<<>>) = 0
    <2>1. <<>> \in Seq(Nat) /\ Len(<<>>) = 0
        OBVIOUS
    <2>2. PICK f : Sums(f, <<>>)
        BY <2>1, SumsExist
    <2> QED
        BY <2>1, <2>2, CostSums DEF Sums
<1>2. ASSUME NEW n \in Nat
      PROVE  Cost(<<n>>) = n + 1
    <2>1. <<n>> \in Seq(Nat) /\ Len(<<n>>) = 1 /\ <<n>>[1] = n
        OBVIOUS
    <2>2. PICK f : Sums(f, <<n>>)
        BY <2>1, SumsExist
    <2>3. f[1] = f[0] + n + 1 /\ f[0] = 0
        <3>1. 1 \in 1..Len(<<n>>) /\ 1 - 1 = 0
            BY <2>1
        <3> QED
            BY <2>1, <2>2, <3>1 DEF Sums
    <2>4. Cost(<<n>>) = f[1]
        BY <2>1, <2>2, CostSums
    <2> QED
        BY <2>3, <2>4
<1>3. ASSUME NEW lines \in Seq(Nat)
      PROVE  Cost(lines) \in Nat
    BY SumsExist, CostSums
<1> QED
    BY <1>1, <1>2, <1>3

LEMMA CostAdds ==
    ASSUME NEW a \in Seq(Nat), NEW b \in Seq(Nat)
    PROVE  a \o b \in Seq(Nat) /\ Cost(a \o b) = Cost(a) + Cost(b)
<1>1. PICK f : Sums(f, a)
    BY SumsExist
<1>2. PICK h : Sums(h, b)
    BY SumsExist
<1> DEFINE m == Len(a)
           n == Len(b)
           c == a \o b
           g == [k \in 0..m + n |-> IF k <= m THEN f[k] ELSE f[m] + h[k - m]]
<1>0. m \in Nat /\ n \in Nat /\ m + n \in Nat
    OBVIOUS
<1>3. /\ c \in Seq(Nat) /\ Len(c) = m + n
      /\ \A k \in 1..m + n : c[k] = IF k <= m THEN a[k] ELSE b[k - m]
    OBVIOUS
<1>4. /\ f \in [0..m -> Nat] /\ f[0] = 0 /\ \A k \in 1..m : f[k] = f[k - 1] + a[k] + 1
      /\ h \in [0..n -> Nat] /\ h[0] = 0 /\ \A k \in 1..n : h[k] = h[k - 1] + b[k] + 1
    BY <1>1, <1>2 DEF Sums
<1>5. Cost(a) = f[m] /\ Cost(b) = h[n]
    BY <1>1, <1>2, CostSums
<1>t. \A j \in 1..n : b[j] \in Nat
    OBVIOUS
<1> HIDE DEF m, n, c
<1>6. g \in [0..m + n -> Nat]
    <2>1. ASSUME NEW k \in 0..m + n
          PROVE  (IF k <= m THEN f[k] ELSE f[m] + h[k - m]) \in Nat
        <3>1. CASE k <= m
            BY <1>0, <1>4, <3>1
        <3>2. CASE ~(k <= m)
            <4>1. k - m \in 0..n /\ m \in 0..m
                BY <1>0, <3>2
            <4>2. f[m] \in Nat /\ h[k - m] \in Nat
                BY <1>4, <4>1
            <4> QED
                BY <3>2, <4>2
        <3> QED
            BY <3>1, <3>2
    <2> QED
        BY <2>1
<1>7. g[0] = 0
    BY <1>0, <1>4
<1>8. ASSUME NEW k \in 1..m + n
      PROVE  g[k] = g[k - 1] + c[k] + 1
    <2>0. k \in 0..m + n /\ k - 1 \in 0..m + n
        BY <1>0
    <2>1. CASE k <= m
        <3>1. g[k] = f[k] /\ g[k - 1] = f[k - 1] /\ c[k] = a[k] /\ k \in 1..m
            BY <1>0, <1>3, <2>0, <2>1
        <3> QED
            BY <1>4, <3>1
    <2>2. CASE k = m + 1
        <3>1. /\ ~(k <= m) /\ k - m = 1 /\ k - 1 = m /\ m <= m /\ 1 \in 1..n /\ 1 - 1 = 0
              /\ m \in 0..m
            BY <1>0, <2>2
        <3>2. g[k] = f[m] + h[1] /\ g[k - 1] = f[m] /\ c[k] = b[1]
            BY <1>3, <2>0, <3>1
        <3>3. h[1] = 0 + b[1] + 1
            BY <1>4, <3>1
        <3>4. b[1] \in Nat /\ f[m] \in Nat
            BY <1>4, <1>t, <3>1
        <3> QED
            BY <3>2, <3>3, <3>4
    <2>3. CASE k > m + 1
        <3>1. /\ ~(k <= m) /\ ~(k - 1 <= m) /\ k - m \in 1..n /\ (k - 1) - m = (k - m) - 1
              /\ m \in 0..m /\ (k - m) - 1 \in 0..n
            BY <1>0, <2>3
        <3>2. g[k] = f[m] + h[k - m] /\ g[k - 1] = f[m] + h[(k - m) - 1] /\ c[k] = b[k - m]
            BY <1>3, <2>0, <3>1
        <3>3. h[k - m] = h[(k - m) - 1] + b[k - m] + 1
            BY <1>4, <3>1
        <3>4. b[k - m] \in Nat /\ f[m] \in Nat /\ h[(k - m) - 1] \in Nat
            BY <1>4, <1>t, <3>1
        <3> QED
            BY <3>2, <3>3, <3>4
    <2> QED
        BY <1>0, <2>1, <2>2, <2>3
<1>9. g[m + n] = f[m] + h[n]
    <2>1. CASE n = 0
        <3>1. g[m + n] = f[m] /\ f[m] \in Nat
            BY <1>0, <1>4, <2>1
        <3> QED
            BY <1>4, <2>1, <3>1
    <2>2. CASE n # 0
        BY <1>0, <2>2
    <2> QED
        BY <2>1, <2>2
<1> HIDE DEF g
<1>10. Sums(g, c)
    BY <1>3, <1>6, <1>7, <1>8 DEF Sums
<1>11. Cost(c) = g[m + n]
    BY <1>3, <1>10, CostSums
<1> QED
    BY <1>3, <1>5, <1>9, <1>11 DEF c

-----------------------------------------------------------------------------
(* What a stub takes up                                                    *)

LEMMA HeadFits ==
    ASSUME NEW lines \in Seq(Nat), NEW room \in Nat
    PROVE  HeadLines(lines, room) \in Seq(Nat) /\ Cost(HeadLines(lines, room)) <= room
<1> DEFINE T == {n \in 0..Len(lines) : Cost(SubSeq(lines, 1, n)) <= room}
<1>1. 0 \in T
    <2>1. SubSeq(lines, 1, 0) = <<>>
        OBVIOUS
    <2>2. Cost(SubSeq(lines, 1, 0)) = 0
        BY <2>1, CostOfOne, Zenon
    <2>3. 0 \in 0..Len(lines)
        OBVIOUS
    <2> QED
        BY <2>2, <2>3
<1>2. T \in SUBSET (0..Len(lines)) /\ Len(lines) \in Nat
    OBVIOUS
<1>3. HeadLines(lines, room) = SubSeq(lines, 1, Max(T))
    BY DEF HeadLines
<1>4. Max(T) \in T
    <2> HIDE DEF T
    <2> QED
        BY <1>1, <1>2, LastOne
<1>5. Max(T) \in 0..Len(lines) /\ Cost(SubSeq(lines, 1, Max(T))) <= room
    BY <1>4
<1> HIDE DEF T
<1>6. SubSeq(lines, 1, Max(T)) \in Seq(Nat)
    BY <1>5
<1> QED
    BY <1>3, <1>5, <1>6

\* The end keeps its last line where there is room for it.
LEMMA TailFits ==
    ASSUME NEW lines \in Seq(Nat), NEW room \in Nat
    PROVE  /\ TailLines(lines, room) \in Seq(Nat) /\ Cost(TailLines(lines, room)) <= room
           /\ lines # <<>> /\ Last(lines) < room => TailLines(lines, room) # <<>>
<1> DEFINE T == {n \in 0..Len(lines) : Cost(LastOf(lines, n)) <= room}
<1>0. Len(lines) \in Nat
    OBVIOUS
<1>1. 0 \in T
    <2>1. LastOf(lines, 0) = <<>> /\ 0 \in 0..Len(lines)
        BY <1>0 DEF LastOf
    <2> QED
        BY <2>1, CostOfOne
<1>2. T \in SUBSET (0..Len(lines))
    OBVIOUS
<1>3. TailLines(lines, room) = LastOf(lines, Max(T))
    BY DEF TailLines, LastOf
<1>4. Max(T) \in T /\ \A k \in T : k <= Max(T)
    <2> HIDE DEF T
    <2> QED
        BY <1>0, <1>1, <1>2, LastOne
<1>5. Max(T) \in 0..Len(lines) /\ Cost(LastOf(lines, Max(T))) <= room
    BY <1>4
<1>6. ASSUME lines # <<>>, Last(lines) < room
      PROVE  1 \in T
    <2>1. 1 \in 0..Len(lines) /\ Len(lines) \in 1..Len(lines)
        BY <1>0, <1>6
    <2>2. LastOf(lines, 1) = <<lines[Len(lines)]>>
        <3>1. LastOf(lines, 1) \in Seq(Nat) /\ Len(LastOf(lines, 1)) = 1 /\ LastOf(lines, 1)[1] = lines[Len(lines)]
            <4>1. 1 \in 1..1 /\ Len(lines) - 1 + 1 = Len(lines)
                BY <1>0
            <4>2. \A j \in 1..1 : LastOf(lines, 1)[j] = lines[Len(lines) - 1 + j]
                BY <2>1, LastOfFacts
            <4>3. LastOf(lines, 1) \in Seq(Nat) /\ Len(LastOf(lines, 1)) = 1
                BY <2>1, LastOfFacts
            <4> QED
                BY <4>1, <4>2, <4>3
        <3> QED
            BY <3>1
    <2>3. lines[Len(lines)] \in Nat /\ lines[Len(lines)] < room
        BY <1>6, <2>1 DEF Last
    <2>4. Cost(LastOf(lines, 1)) <= room
        BY <2>2, <2>3, CostOfOne
    <2> QED
        BY <2>1, <2>4
<1> HIDE DEF T
<1>7. LastOf(lines, Max(T)) \in Seq(Nat) /\ Len(LastOf(lines, Max(T))) = Max(T)
    BY <1>5, LastOfFacts
<1>8. 1 \in T => LastOf(lines, Max(T)) # <<>>
    BY <1>4, <1>5, <1>7
<1> QED
    BY <1>3, <1>5, <1>6, <1>7, <1>8

LEMMA PairFacts ==
    ASSUME NEW a \in Nat, NEW b \in Nat
    PROVE  /\ Max({a, b}) \in {a, b} /\ a <= Max({a, b}) /\ b <= Max({a, b})
           /\ Min({a, b}) \in {a, b} /\ Min({a, b}) <= a /\ Min({a, b}) <= b
<1>1. (\E x \in {a, b} : \A y \in {a, b} : x >= y) /\ (\E x \in {a, b} : \A y \in {a, b} : x =< y)
    <2>1. CASE a <= b
        BY <2>1
    <2>2. CASE ~(a <= b)
        BY <2>2
    <2> QED
        BY <2>1, <2>2
<1>2. Max({a, b}) \in {a, b} /\ \A y \in {a, b} : Max({a, b}) >= y
    BY <1>1 DEF Max
<1>3. Min({a, b}) \in {a, b} /\ \A y \in {a, b} : Min({a, b}) =< y
    BY <1>1 DEF Min
<1> QED
    BY <1>2, <1>3

LEMMA StubFits ==
    ASSUME NEW lines \in Seq(Nat), NEW room \in Nat, NEW saved \in BOOLEAN
    PROVE  LET stub == Stub(lines, room, saved)
               kept == stub.head \o <<stub.note>> \o stub.tail
           IN  kept \in Seq(Nat) /\ Size(kept) <= room
<1> DEFINE note == Notice(saved)
           left == room - note - 2
           half == Half(left)
<1>0. note \in Nat
    BY ResultBudgetAssumption DEF Notice
<1> HIDE DEF note
<1>1. CASE note + 2 >= room
    <2>1. Stub(lines, room, saved) = [head |-> <<>>, note |-> Min({note, room}), tail |-> <<>>]
        BY <1>1 DEF Stub, note
    <2>2. Min({note, room}) \in Nat /\ Min({note, room}) <= room
        BY <1>0, PairFacts
    <2>3. <<>> \o <<Min({note, room})>> \o <<>> = <<Min({note, room})>>
        BY <2>2
    <2>4. Cost(<<Min({note, room})>>) = Min({note, room}) + 1
        BY <2>2, CostOfOne
    <2> QED
        BY <2>1, <2>2, <2>3, <2>4 DEF Size
<1>2. CASE ~(note + 2 >= room)
    <2>1. Stub(lines, room, saved) = [head |-> HeadLines(lines, left - half), note |-> note,
                                      tail |-> TailLines(lines, half)]
        BY <1>2 DEF Stub, note
    <2>2. left \in Nat /\ half \in Nat /\ left - half \in Nat /\ left = room - note - 2
        BY <1>0, <1>2 DEF Half
    <2> HIDE DEF left, half
    <2> DEFINE head == HeadLines(lines, left - half)
               tail == TailLines(lines, half)
    <2>3. head \in Seq(Nat) /\ Cost(head) <= left - half
        BY <2>2, HeadFits
    <2>4. tail \in Seq(Nat) /\ Cost(tail) <= half
        BY <2>2, TailFits
    <2> HIDE DEF head, tail
    <2>5. <<note>> \in Seq(Nat) /\ Cost(<<note>>) = note + 1
        BY <1>0, CostOfOne
    <2>6. head \o <<note>> \in Seq(Nat) /\ Cost(head \o <<note>>) = Cost(head) + (note + 1)
        BY <2>3, <2>5, CostAdds
    <2>7. /\ head \o <<note>> \o tail \in Seq(Nat)
          /\ Cost(head \o <<note>> \o tail) = Cost(head) + (note + 1) + Cost(tail)
        BY <2>4, <2>6, CostAdds
    <2>8. Cost(head) \in Nat /\ Cost(tail) \in Nat
        BY <2>3, <2>4, CostOfOne
    <2>9. Size(head \o <<note>> \o tail) <= room
        BY <1>0, <2>2, <2>3, <2>4, <2>7, <2>8 DEF Size
    <2> QED
        BY <2>1, <2>7, <2>9 DEF head, tail
<1> QED
    BY <1>1, <1>2

\* Where a stub has room for it, its end keeps a last line of that length.
HasRoom == Half(StubBudget - Max({NoticeLen, NoticePathLen}) - 2) > NoteLen

LEMMA StubBudgetType == budget.per \in Nat => StubBudget \in Nat /\ StubBudget <= MostStub
<1> SUFFICES ASSUME budget.per \in Nat PROVE StubBudget \in Nat /\ StubBudget <= MostStub
    OBVIOUS
<1>1. LeastStub \in Nat /\ MostStub \in Nat
    BY ResultBudgetAssumption
<1>2. Max({budget.per, LeastStub}) \in Nat
    BY <1>1, PairFacts
<1> QED
    BY <1>1, <1>2, PairFacts DEF StubBudget

LEMMA StubWarns ==
    ASSUME NEW lines \in Seq(Nat), NEW saved \in BOOLEAN, budget.per \in Nat, HasRoom,
           lines # <<>>, Last(lines) = NoteLen
    PROVE  Stub(lines, StubBudget, saved).tail # <<>>
<1> DEFINE note == Notice(saved)
           most == Max({NoticeLen, NoticePathLen})
           room == StubBudget
<1>0. /\ NoticeLen \in Nat /\ NoticePathLen \in Nat /\ NoteLen \in Nat \ {0} /\ room \in Nat
    BY StubBudgetType, ResultBudgetAssumption, ToolCallsAssumption
<1>1. note \in Nat /\ most \in Nat /\ note <= most
    BY <1>0, PairFacts DEF Notice
<1>2. Half(room - most - 2) > NoteLen
    BY DEF HasRoom
<1> HIDE DEF note, most, room
<1>3. room - note - 2 \in Nat \ {0} /\ Half(room - note - 2) \in Nat /\ Half(room - note - 2) > NoteLen
    <2>1. \A x, y \in Int : x <= y => x \div 2 <= y \div 2
        OBVIOUS
    <2>2. room - most - 2 \in Int /\ room - note - 2 \in Int /\ room - most - 2 <= room - note - 2
        BY <1>0, <1>1
    <2>3. \A x \in Int : x \div 2 \in Int /\ (x \div 2 > 0 => x > 0)
        OBVIOUS
    <2> QED
        BY <1>0, <1>2, <2>1, <2>2, <2>3 DEF Half
<1>4. ~(note + 2 >= room)
    BY <1>0, <1>1, <1>3
<1>5. Stub(lines, room, saved).tail = TailLines(lines, Half(room - note - 2))
    BY <1>4 DEF Stub, note
<1> QED
    BY <1>3, <1>5, TailFits DEF room

-----------------------------------------------------------------------------
(* The requests of a turn                                                  *)

Rows == [tool : Subjects, lines : Seq(Nat), stub : BOOLEAN, cut : BOOLEAN, told : BOOLEAN,
         warned : BOOLEAN]

\* A cut result is short enough, and what the guard said under it is its last
\* line until it is cut.
Kept(row) ==
    /\ row.cut => Size(row.lines) <= StubBudget
    /\ row.told => IF row.cut THEN HasRoom => row.warned
                   ELSE row.warned /\ row.lines # <<>> /\ Last(row.lines) = NoteLen

Over == Enabled /\ ~(Total(results) <= budget.total)

\* While results are being cut, those that can be are still to come.
Reckoned ==
    /\ IsText(call.output)
    /\ budget.per \in Nat
    /\ results \in Seq(Rows) /\ todo \in Seq(DOMAIN results)
    /\ \A i \in DOMAIN results : Kept(results[i])
    /\ phase = "request" /\ Over =>
           \A i \in DOMAIN results : CanBeCut(results[i]) => i \in ToSet(todo)
    /\ phase = "sent" /\ Over => \A i \in DOMAIN results : ~CanBeCut(results[i])

\* The order of trimming leaves none out.
LEMMA OrderCovers ==
    ASSUME NEW S, IsFiniteSet(S), NEW q \in LargestFirst(S)
    PROVE  q \in Seq(S) /\ ToSet(q) = S
<1> DEFINE n == Cardinality(S)
<1>0. n \in Nat
    BY FS_CardinalityType
<1>1. q \in [1..n -> S] /\ \A i, j \in 1..n : i # j => q[i] # q[j]
    BY DEF LargestFirst, SetToSeqs
<1> HIDE DEF n
<1>2. q \in Seq(S) /\ DOMAIN q = 1..n
    BY <1>0, <1>1
<1>3. ASSUME NEW s \in S, s \notin ToSet(q)
      PROVE  FALSE
    <2>1. q \in [1..n -> S \ {s}]
        BY <1>1, <1>2, <1>3 DEF ToSet
    <2>2. IsFiniteSet(S \ {s}) /\ Cardinality(S \ {s}) = n - 1
        BY FS_RemoveElement DEF n
    <2>3. IsFiniteSet(1..n) /\ Cardinality(1..n) = n
        BY <1>0, FS_Interval
    <2>4. \E i, j \in 1..n : i # j /\ q[i] = q[j]
        BY <1>0, <2>1, <2>2, <2>3, FS_PigeonHole
    <2> QED
        BY <1>1, <2>4
<1>4. ToSet(q) \subseteq S
    BY <1>1, <1>2 DEF ToSet
<1> QED
    BY <1>2, <1>3, <1>4

\* What a tool gives back is a text, whatever hooks make of it.
LEMMA OutputsAreTexts ==
    /\ \A o \in Outputs : o # Unwritten => IsText(o)
    /\ IsText(Error) /\ IsText(NoCall.output)
<1>1. IsText(Error)
    BY DEF Error, IsText
<1>2. NoCall.output = Error
    BY DEF NoCall
<1> QED
    BY <1>1, <1>2, TextAssumption DEF Outputs

LEMMA TextKept == TIInv /\ IsText(call.output) /\ [ToolCallsNext]_toolVars => IsText(call.output)'
<1> SUFFICES ASSUME TIInv, IsText(call.output), [ToolCallsNext]_toolVars PROVE IsText(call'.output)
    BY DEF IsText
<1>0. call \in Calls /\ firing \in Firings /\ setup \in Settings
    BY DEF TIInv, CallTypeOK
<1>1. IsText(Error) /\ IsText(NoCall.output)
    BY OutputsAreTexts
<1>2. CASE UNCHANGED call
    BY <1>2
<1>3. CASE \E tool \in setup.tools, input \in setup.inputs : \E command \in setup.commands :
             Propose(tool, input, command)
    BY <1>1, <1>3 DEF Propose, NoCall
<1>4. CASE Refuse \/ Admit \/ Before
    BY <1>0, <1>1, <1>4 DEF Refuse, Admit, Before, Calls
<1>5. ASSUME NEW output, NEW ran, NEW yes, IsText(output), Returns(output, ran, yes)
      PROVE  IsText(call'.output)
    BY <1>0, <1>5 DEF Returns, Calls
<1>6. \A output \in setup.outputs \cup {Error} : IsText(output)
    BY <1>0, <1>1, TextAssumption
<1>7. CASE \E output \in setup.outputs \cup {Error} : Handle(output)
    BY <1>5, <1>6, <1>7 DEF Handle
<1>8. CASE \E answer \in BOOLEAN, output \in setup.outputs \cup {Error} : Permission(answer, output)
    BY <1>1, <1>5, <1>6, <1>8 DEF Permission
<1>9. CASE After
    <2>1. firing.outcome.output \in Outputs
        BY <1>0 DEF Firings, Outcomes
    <2>2. call'.output \in {Error, call.output}
              \/ (call'.output = firing.outcome.output /\ firing.outcome.output # Unwritten)
        BY <1>0, <1>9 DEF After, Calls
    <2> QED
        BY <1>1, <2>1, <2>2, OutputsAreTexts
<1>10. CASE Hook
    BY <1>0, <1>10 DEF Hook, Calls
<1>11. CASE Result
    BY <1>1, <1>11 DEF Result
<1>12. CASE HookSticks \/ HooksChange \/ Interrupt \/ NextRequest \/ TrimOne \/ Send
    BY <1>2, <1>12 DEF HookSticks, HooksChange, Interrupt, NextRequest, TrimOne, Send, callVars
<1> QED
    BY <1>2, <1>3, <1>4, <1>7, <1>8, <1>9, <1>10, <1>11, <1>12 DEF ToolCallsNext, toolVars, callVars

LEMMA ReckonedAtTheStart == ToolCallsInit => Reckoned
<1> SUFFICES ASSUME ToolCallsInit PROVE Reckoned
    OBVIOUS
<1>1. results = <<>> /\ todo = <<>> /\ call = NoCall /\ budget = setup.budget /\ setup \in Settings
    BY DEF ToolCallsInit, BudgetInit
<1>2. IsText(call.output)
    BY <1>1, OutputsAreTexts
<1>3. DOMAIN results = {} /\ results \in Seq(Rows) /\ todo \in Seq(DOMAIN results)
    BY <1>1
<1>4. budget.per \in Nat
    BY <1>1, TextAssumption
<1> QED
    BY <1>2, <1>3, <1>4 DEF Reckoned

\* A result of a call comes with room for it, and below it what the guard says.
LEMMA ReadsAreReckoned ==
    ASSUME TIInv, Reckoned, Result
    PROVE  Reckoned'
<1> DEFINE row == ForModel
<1>0. /\ budget' = budget /\ todo' = todo /\ phase' = "model" /\ call' = NoCall
      /\ results' = Append(results, row)
    BY DEF Result
<1>1. /\ row \in Rows /\ ~row.cut
      /\ row.told => row.warned /\ row.lines # <<>> /\ Last(row.lines) = NoteLen
    <2> DEFINE refer == verdict' = "repeated" /\ Size(call.output.lines) >= StubMinChars
               lines == IF refer THEN <<ReferenceLen>> ELSE call.output.lines
               told == verdict' # "ok"
    <2>1. lines \in Seq(Nat)
        <3>1. <<ReferenceLen>> \in Seq(Nat)
            BY ToolCallsAssumption
        <3> QED
            BY <3>1 DEF Reckoned, IsText
    <2>2. call.tool \in Subjects /\ call.output.stub \in BOOLEAN /\ NoteLen \in Nat
        BY ToolCallsAssumption DEF TIInv, CallTypeOK, Calls, Reckoned, IsText
    <2>3. row = [tool |-> call.tool, cut |-> FALSE, stub |-> call.output.stub /\ ~refer,
                 lines |-> IF told THEN Append(lines, NoteLen) ELSE lines,
                 told |-> told, warned |-> told]
        BY DEF ForModel
    <2> HIDE DEF lines, refer, told, row
    <2>4. /\ Append(lines, NoteLen) \in Seq(Nat) /\ Append(lines, NoteLen) # <<>>
          /\ Last(Append(lines, NoteLen)) = NoteLen
        BY <2>1, <2>2 DEF Last
    <2>5. refer \in BOOLEAN /\ told \in BOOLEAN
        BY DEF refer, told
    <2>6. row \in Rows
        BY <2>1, <2>2, <2>3, <2>4, <2>5 DEF Rows
    <2>7. row.told = told /\ row.warned = told /\ ~row.cut /\ (told => row.lines = Append(lines, NoteLen))
        BY <2>3
    <2> QED
        BY <2>4, <2>6, <2>7
<1> HIDE DEF row
<1>2. /\ results' \in Seq(Rows) /\ Len(results') = Len(results) + 1 /\ Len(results) \in Nat
      /\ results'[Len(results) + 1] = row /\ \A i \in 1..Len(results) : results'[i] = results[i]
    BY <1>0, <1>1 DEF Reckoned
<1>3. DOMAIN results = 1..Len(results) /\ DOMAIN results' = 1..Len(results) + 1
    BY <1>2 DEF Reckoned
<1>4. todo' \in Seq(DOMAIN results')
    <2>1. todo \in Seq(DOMAIN results) /\ DOMAIN results \subseteq DOMAIN results'
        BY <1>2, <1>3 DEF Reckoned
    <2> QED
        BY <1>0, <2>1
<1>5. Kept(row)
    BY <1>1 DEF Kept
<1>6. \A i \in DOMAIN results' : Kept(results'[i])
    BY <1>2, <1>3, <1>5 DEF Reckoned
<1>7. \A i \in DOMAIN results' : Kept(results[i])' = Kept(results'[i])
    BY <1>0 DEF Kept, HasRoom, StubBudget
<1>8. IsText(call.output)'
    BY <1>0, OutputsAreTexts DEF IsText
<1> QED
    BY <1>0, <1>2, <1>4, <1>6, <1>7, <1>8 DEF Reckoned

\* Whatever leaves the results alone and sends nothing.
LEMMA OthersAreReckoned ==
    ASSUME TIInv, Reckoned, [ToolCallsNext]_toolVars, UNCHANGED budgetVars,
           phase' = phase \/ phase' \in {"call", "over"}
    PROVE  Reckoned'
<1>0. budget' = budget /\ results' = results /\ todo' = todo
    BY DEF budgetVars
<1>1. IsText(call.output)'
    BY TextKept DEF Reckoned
<1>2. StubBudget' = StubBudget /\ Enabled' = Enabled /\ HasRoom' = HasRoom
    BY <1>0 DEF StubBudget, Enabled, HasRoom
<1>3. Over' = Over
    BY <1>0, <1>2 DEF Over
<1>4. \A i \in DOMAIN results : Kept(results[i])' = Kept(results[i])
                                 /\ CanBeCut(results[i])' = CanBeCut(results[i])
    BY <1>0, <1>2 DEF Kept, CanBeCut
<1> QED
    BY <1>0, <1>1, <1>3, <1>4 DEF Reckoned

LEMMA PlansAreReckoned ==
    ASSUME TIInv, Reckoned, NextRequest
    PROVE  Reckoned'
<1>0. /\ budget' = budget /\ results' = results /\ phase' = "request" /\ call' = call
      /\ ~Over => todo' = <<>>
      /\ Over => todo' \in LargestFirst(Candidates)
    BY DEF NextRequest, PlanTrim, Over
<1>1. IsFiniteSet(Candidates) /\ Candidates \subseteq DOMAIN results
    <2>1. DOMAIN results = 1..Len(results) /\ Len(results) \in Nat
        BY DEF Reckoned
    <2>2. IsFiniteSet(DOMAIN results) /\ Candidates \in SUBSET (DOMAIN results)
        BY <2>1, FS_Interval DEF Candidates
    <2> QED
        BY <2>2, FS_Subset
<1>2. Over => todo' \in Seq(Candidates) /\ ToSet(todo') = Candidates
    BY <1>0, <1>1, OrderCovers
<1>3. todo' \in Seq(DOMAIN results)
    <2>1. CASE Over
        BY <1>1, <1>2, <2>1
    <2>2. CASE ~Over
        BY <1>0, <2>2
    <2> QED
        BY <2>1, <2>2
<1>4. ASSUME NEW i \in DOMAIN results, CanBeCut(results[i])
      PROVE  i \in Candidates
    <2>1. results[i] \in Rows
        BY DEF Reckoned
    <2>2. StubBudget \in Nat /\ budget.per \in Nat
        BY StubBudgetType DEF Reckoned
    <2>3. Size(results[i].lines) \in Int
        <3>1. Cost(results[i].lines) \in Nat
            BY <2>1, CostOfOne DEF Rows
        <3> QED
            BY <3>1 DEF Size
    <2>4. budget.per <= Max({budget.per, StubBudget}) /\ Max({budget.per, StubBudget}) \in Nat
        BY <2>2, PairFacts
    <2> QED
        BY <1>4, <2>2, <2>3, <2>4 DEF CanBeCut, Candidates
<1>5. IsText(call.output)'
    BY <1>0 DEF IsText, Reckoned
<1>6. StubBudget' = StubBudget /\ Enabled' = Enabled /\ HasRoom' = HasRoom
    BY <1>0 DEF StubBudget, Enabled, HasRoom
<1>7. Over' = Over
    BY <1>0, <1>6 DEF Over
<1>8. \A i \in DOMAIN results : Kept(results[i])' = Kept(results[i])
                                 /\ CanBeCut(results[i])' = CanBeCut(results[i])
    BY <1>0, <1>6 DEF Kept, CanBeCut
<1>9. Over => \A i \in DOMAIN results : CanBeCut(results[i]) => i \in ToSet(todo')
    BY <1>2, <1>4
<1> QED
    BY <1>0, <1>3, <1>5, <1>7, <1>8, <1>9 DEF Reckoned

LEMMA TrimsAreReckoned ==
    ASSUME TIInv, Reckoned, TrimOne
    PROVE  Reckoned'
<1> DEFINE i == Head(todo)
           row == results[i]
<1>1. PICK saved \in BOOLEAN : Trim(saved)
    BY DEF TrimOne
<1> DEFINE cut == CutTo(row, Stub(row.lines, StubBudget, saved))
<1>0. /\ budget' = budget /\ phase = "request" /\ phase' = phase /\ call' = call
      /\ todo # <<>> /\ todo' = Tail(todo) /\ Enabled' = Enabled /\ StubBudget' = StubBudget
      /\ HasRoom' = HasRoom /\ ~(Total(results) <= budget.total)
      /\ results' = IF Size(row.lines) <= StubBudget THEN results ELSE [results EXCEPT ![i] = cut]
    BY <1>1 DEF TrimOne, Trim, TrimDone, callVars, Enabled, StubBudget, HasRoom
<1>2. /\ i \in DOMAIN results /\ row \in Rows /\ Kept(row) /\ row.lines \in Seq(Nat)
      /\ Tail(todo) \in Seq(DOMAIN results)
      /\ \A j \in ToSet(todo) : j = i \/ j \in ToSet(Tail(todo))
    <2>1. todo \in Seq(DOMAIN results) /\ todo # <<>>
        BY <1>0 DEF Reckoned
    <2>2. i \in DOMAIN results /\ Tail(todo) \in Seq(DOMAIN results)
        BY <2>1
    <2>3. row \in Rows /\ Kept(row)
        BY <2>2 DEF Reckoned
    <2>4. ASSUME NEW j \in ToSet(todo)
          PROVE  j = i \/ j \in ToSet(Tail(todo))
        <3>1. PICK k \in 1..Len(todo) : todo[k] = j
            BY <2>1 DEF ToSet
        <3>2. CASE k = 1
            BY <2>1, <3>1, <3>2
        <3>3. CASE k # 1
            <4>1. k - 1 \in 1..Len(Tail(todo)) /\ Tail(todo)[k - 1] = todo[k]
                BY <2>1, <3>1, <3>3
            <4>2. DOMAIN Tail(todo) = 1..Len(Tail(todo))
                BY <2>1
            <4> QED
                BY <3>1, <4>1, <4>2 DEF ToSet
        <3> QED
            BY <3>2, <3>3
    <2> QED
        BY <2>2, <2>3, <2>4 DEF Rows
<1> HIDE DEF i
<1>3. ASSUME ~(Size(row.lines) <= StubBudget)
      PROVE  cut \in Rows /\ Kept(cut) /\ cut.stub
    <2> DEFINE stub == Stub(row.lines, StubBudget, saved)
               kept == stub.head \o <<stub.note>> \o stub.tail
    <2>0. budget.per \in Nat /\ StubBudget \in Nat
        BY StubBudgetType DEF Reckoned
    <2>1. kept \in Seq(Nat) /\ Size(kept) <= StubBudget
        BY <1>2, <2>0, StubFits
    <2>2. HasRoom /\ row.lines # <<>> /\ Last(row.lines) = NoteLen => stub.tail # <<>>
        BY <1>2, <2>0, StubWarns
    <2> HIDE DEF stub
    <2>3. cut = [row EXCEPT !.lines = kept, !.stub = TRUE, !.cut = TRUE,
                            !.warned = row.warned /\ stub.tail # <<>>]
        BY DEF CutTo, stub
    <2> HIDE DEF cut, kept, row
    <2>4. /\ cut \in Rows /\ cut.stub /\ cut.cut /\ cut.lines = kept /\ cut.told = row.told
          /\ cut.warned = (row.warned /\ stub.tail # <<>>)
        BY <1>2, <2>1, <2>3 DEF Rows
    <2>5. ~row.cut
        BY <1>2, <1>3 DEF Kept
    <2>6. row.told => row.warned /\ row.lines # <<>> /\ Last(row.lines) = NoteLen
        BY <1>2, <2>5 DEF Kept
    <2> QED
        BY <2>1, <2>2, <2>4, <2>6 DEF Kept
<1>4. /\ results' \in Seq(Rows) /\ DOMAIN results' = DOMAIN results
      /\ \A j \in DOMAIN results : j # i => results'[j] = results[j]
      /\ Kept(results'[i]) /\ ~CanBeCut(results'[i])
    <2>1. CASE Size(row.lines) <= StubBudget
        <3>1. ~CanBeCut(row)
            <4>1. StubBudget \in Nat /\ budget.per \in Nat
                BY StubBudgetType DEF Reckoned
            <4>2. StubBudget <= Max({budget.per, StubBudget}) /\ Max({budget.per, StubBudget}) \in Nat
                BY <4>1, PairFacts
            <4>3. Size(row.lines) \in Int
                <5>1. Cost(row.lines) \in Nat
                    BY <1>2, CostOfOne
                <5> QED
                    BY <5>1 DEF Size
            <4> QED
                BY <2>1, <4>1, <4>2, <4>3 DEF CanBeCut
        <3>2. results' = results
            BY <1>0, <2>1
        <3> QED
            BY <1>2, <3>1, <3>2 DEF Reckoned
    <2>2. CASE ~(Size(row.lines) <= StubBudget)
        <3>1. cut \in Rows /\ Kept(cut) /\ ~CanBeCut(cut)
            BY <1>3, <2>2 DEF CanBeCut
        <3>2. results' = [results EXCEPT ![i] = cut]
            BY <1>0, <2>2
        <3> HIDE DEF cut
        <3> QED
            BY <1>2, <3>1, <3>2 DEF Reckoned
    <2> QED
        BY <2>1, <2>2
<1>5. \A j \in DOMAIN results' : Kept(results'[j])
    BY <1>4 DEF Reckoned
<1>6. ASSUME Enabled, NEW j \in DOMAIN results', CanBeCut(results'[j])
      PROVE  j \in ToSet(todo')
    <2>1. j # i /\ j \in DOMAIN results /\ CanBeCut(results[j])
        BY <1>4, <1>6
    <2>2. j \in ToSet(todo)
        BY <1>0, <1>6, <2>1 DEF Reckoned, Over
    <2> QED
        BY <1>0, <1>2, <2>1, <2>2
<1>7. \A j \in DOMAIN results' : /\ Kept(results[j])' = Kept(results'[j])
                                  /\ CanBeCut(results[j])' = CanBeCut(results'[j])
    BY <1>0 DEF Kept, CanBeCut
<1>8. IsText(call.output)'
    BY <1>0 DEF IsText, Reckoned
<1>9. Over' => Enabled
    BY <1>0 DEF Over
<1> QED
    BY <1>0, <1>2, <1>4, <1>5, <1>6, <1>7, <1>8, <1>9 DEF Reckoned

LEMMA SendsAreReckoned ==
    ASSUME TIInv, Reckoned, Send
    PROVE  Reckoned'
<1>0. /\ budget' = budget /\ results' = results /\ todo' = todo /\ call' = call
      /\ phase = "request" /\ phase' = "sent" /\ TrimDone
    BY DEF Send, budgetVars
<1>1. IsText(call.output)'
    BY <1>0 DEF IsText, Reckoned
<1>2. StubBudget' = StubBudget /\ Enabled' = Enabled /\ HasRoom' = HasRoom
    BY <1>0 DEF StubBudget, Enabled, HasRoom
<1>3. Over' = Over
    BY <1>0, <1>2 DEF Over
<1>4. \A i \in DOMAIN results : Kept(results[i])' = Kept(results[i])
                                 /\ CanBeCut(results[i])' = CanBeCut(results[i])
    BY <1>0, <1>2 DEF Kept, CanBeCut
<1>5. ASSUME Over, NEW i \in DOMAIN results
      PROVE  ~CanBeCut(results[i])
    <2>1. todo = <<>>
        BY <1>0, <1>5 DEF TrimDone, Over
    <2>2. ToSet(todo) = {}
        BY <2>1 DEF ToSet
    <2> QED
        BY <1>0, <1>5, <2>2 DEF Reckoned
<1> QED
    BY <1>0, <1>1, <1>3, <1>4, <1>5 DEF Reckoned

LEMMA ReckonedKept == TIInv /\ Reckoned /\ [ToolCallsNext]_toolVars => Reckoned'
<1> SUFFICES ASSUME TIInv, Reckoned, [ToolCallsNext]_toolVars PROVE Reckoned'
    OBVIOUS
<1>1. CASE Result
    BY <1>1, ReadsAreReckoned
<1>2. CASE NextRequest
    BY <1>2, PlansAreReckoned
<1>3. CASE TrimOne
    BY <1>3, TrimsAreReckoned
<1>4. CASE Send
    BY <1>4, SendsAreReckoned
<1>5. ASSUME ~Result, ~NextRequest, ~TrimOne, ~Send
      PROVE  UNCHANGED budgetVars /\ (phase' = phase \/ phase' \in {"call", "over"})
    BY <1>5 DEF ToolCallsNext, Propose, Refuse, Admit, Before, Handle, Permission, After, Hook, HookSticks,
                HooksChange, Interrupt, CallStep, toolVars, budgetVars, callVars
<1> QED
    BY <1>1, <1>2, <1>3, <1>4, <1>5, OthersAreReckoned

LEMMA AlwaysReckoned == ToolCallsSpec => [](TIInv /\ Reckoned)
<1>1. ToolCallsInit => TIInv /\ Reckoned
    BY ClearedAtTheStart, ReckonedAtTheStart
<1>2. TIInv /\ Reckoned /\ [ToolCallsNext]_toolVars => (TIInv /\ Reckoned)'
    BY StepsAreClear, ReckonedKept
<1> QED
    BY <1>1, <1>2, PTL DEF ToolCallsSpec

\* RequestsFit, for every budget and every shape of what tools and hooks give
\* back: what goes out keeps to the budget or nothing in it can be cut, and a
\* cut result is no longer than a stub may be.
THEOREM RequestsAreCut == ToolCallsSpec => []RequestsFit
<1>1. TIInv /\ Reckoned => RequestsFit
    <2> SUFFICES ASSUME Reckoned, phase = "sent" PROVE Fits
        BY DEF RequestsFit
    <2>1. \A i \in DOMAIN results : results[i].cut => Size(results[i].lines) <= StubBudget
        BY DEF Reckoned, Kept
    <2>2. Enabled => Total(results) <= budget.total \/ \A i \in DOMAIN results : ~CanBeCut(results[i])
        BY DEF Reckoned, Over
    <2> QED
        BY <2>1, <2>2 DEF Fits
<1> QED
    BY <1>1, AlwaysReckoned, PTL

\* WarningsAreRead, for every length of the note, of the warning and of a stub
\* that leaves it room: no cutting takes away what the guard has said.
THEOREM WarningsSurvive == ToolCallsSpec => []WarningsAreRead
<1>1. TIInv /\ Reckoned => WarningsAreRead
    BY DEF Reckoned, Kept, HasRoom, WarningsAreRead
<1> QED
    BY <1>1, AlwaysReckoned, PTL
=============================================================================
