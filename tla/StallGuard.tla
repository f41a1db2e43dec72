----------------------------- MODULE StallGuard -----------------------------
(***************************************************************************)
(* The loop guard (joyczl-loop/src/guard.rs): one per turn, it looks at    *)
(* every finished tool call and tells a model that goes round in circles.  *)
(* A call is known by its fingerprint: tool, arguments and result.         *)
(***************************************************************************)
EXTENDS Naturals, Sequences, FiniteSets, SequencesExt

CONSTANTS
    IdenticalThreshold,  \* so many equal calls in a row are a stall (3)
    MaxCyclePeriod       \* the longest cycle looked for (4)

ASSUME StallGuardAssumption ==
    /\ IdenticalThreshold \in Nat \ {0, 1}
    /\ MaxCyclePeriod \in Nat \ {0, 1}

VARIABLES
    recent,   \* the last calls, at most two of the longest periods
    verdict,  \* what observe said of the last one
    hits,     \* how often it was not "ok"
    observed  \* history: every call of the turn

guardVars == <<recent, verdict, hits, observed>>

LastOf(calls, n) == SubSeq(calls, Len(calls) - n + 1, Len(calls))

\* Mutant: one call short of two of the longest periods.
TrimmedShort(calls) ==
    IF Len(calls) >= 2 * MaxCyclePeriod THEN LastOf(calls, 2 * MaxCyclePeriod - 1) ELSE calls

Trimmed(calls) ==
    IF Len(calls) > 2 * MaxCyclePeriod THEN LastOf(calls, 2 * MaxCyclePeriod) ELSE calls

\* How many of the last calls are all the same.
Identical(calls) ==
    LET same == {n \in 1 .. Len(calls) : Cardinality(ToSet(LastOf(calls, n))) = 1}
    IN  Cardinality(same)

\* The last two periods agree.  A period of one and the same call is left to
\* the rule above.
Cycles(calls, period) ==
    /\ Len(calls) >= 2 * period
    /\ Cardinality(ToSet(LastOf(calls, period))) > 1
    /\ LastOf(calls, 2 * period) = LastOf(calls, period) \o LastOf(calls, period)

Classify(calls) ==
    IF Identical(calls) >= IdenticalThreshold THEN "repeated"
    ELSE IF \E period \in 2 .. MaxCyclePeriod : Cycles(calls, period) THEN "cyclic"
    ELSE "ok"

GuardInit ==
    /\ recent = <<>>
    /\ verdict = "ok"
    /\ hits = 0
    /\ observed = <<>>

Observe(fingerprint) ==
    /\ recent' = Trimmed(Append(recent, fingerprint))
    /\ verdict' = Classify(recent')
    /\ hits' = IF verdict' = "ok" THEN hits ELSE hits + 1
    /\ observed' = Append(observed, fingerprint)

-----------------------------------------------------------------------------
\* What the guard is for, said of the whole turn and not of what it keeps:
\* the turn ends in two equal periods, or in the same call three times.
EndsInACircle(calls) ==
    \/ /\ Len(calls) >= IdenticalThreshold
       /\ \A i \in 1 .. IdenticalThreshold - 1 : calls[Len(calls) - i] = Last(calls)
    \/ \E period \in 2 .. MaxCyclePeriod :
        /\ Len(calls) >= 2 * period
        /\ \A i \in 0 .. period - 1 : calls[Len(calls) - i] = calls[Len(calls) - i - period]

\* The model is told exactly when the turn as a whole ends in a circle, however
\* the rows of equal calls and the cycles overlap and however much of the turn
\* the guard has let go of; and the turn's report counts every time it was told
\* (StallGuard::observe, classify).
StallsAreNoticed ==
    /\ observed # <<>> => (verdict # "ok" <=> EndsInACircle(observed))
    /\ hits = Cardinality({n \in 1 .. Len(observed) : EndsInACircle(SubSeq(observed, 1, n))})
=============================================================================
