--------------------------- MODULE ExclusiveClaim ---------------------------
(***************************************************************************)
(* What "claiming a batch of log rows" promises, with the database and the *)
(* model call taken away: a row is open, or in the hands of exactly one    *)
(* worker, or kept for good.  A worker takes open rows, hands some of its  *)
(* rows back, or keeps all it has; a kept row never opens again.           *)
(* ChatLog implements this specification.                                  *)
(***************************************************************************)
CONSTANTS
    Items,    \* the rows
    Workers   \* the turns that distil them

VARIABLES
    open,     \* rows anyone may take
    work,     \* work[w]: the rows w has taken and not yet settled
    kept      \* rows settled for good

claimVars == <<open, work, kept>>

Init ==
    /\ open = {}
    /\ work = [w \in Workers |-> {}]
    /\ kept = {}

Insert(S) ==
    /\ S \cap (kept \cup UNION {work[w] : w \in Workers}) = {}
    /\ open' = open \cup S
    /\ UNCHANGED <<work, kept>>

Take(w, S) ==
    /\ S # {}
    /\ S \subseteq open
    /\ work[w] = {}
    /\ open' = open \ S
    /\ work' = [work EXCEPT ![w] = S]
    /\ UNCHANGED kept

GiveBack(w, S) ==
    /\ S \subseteq work[w]
    /\ open' = open \cup S
    /\ work' = [work EXCEPT ![w] = @ \ S]
    /\ UNCHANGED kept

Keep(w) ==
    /\ kept' = kept \cup work[w]
    /\ work' = [work EXCEPT ![w] = {}]
    /\ UNCHANGED open

Next ==
    \/ \E S \in SUBSET Items : Insert(S)
    \/ \E w \in Workers : 
        \/ \E S \in SUBSET Items : Take(w, S) \/ GiveBack(w, S)
        \/ Keep(w)

Spec == Init /\ [][Next]_claimVars
=============================================================================
