---------------------------- MODULE ResultBudget ----------------------------
(***************************************************************************)
(* The budget of tool results within a turn (joyczl-loop/src/budget.rs)    *)
(* and the stub a long text is cut to (joyczl-tools/src/spill.rs).  A text *)
(* is the lengths of its lines, ended by line feeds but for the last one.  *)
(***************************************************************************)
EXTENDS Naturals, Sequences, FiniteSets, SequencesExt, FiniteSetsExt

CONSTANTS
    LeastStub, MostStub,      \* a stub is cut to a size between these (64, 2000)
    NoticeLen, NoticePathLen, \* length of the note on what was left out, without and with a path
    SelfBudgeted              \* tools that cut their own output (run_command)

ASSUME ResultBudgetAssumption ==
    /\ LeastStub \in Nat \ {0} /\ MostStub \in Nat /\ LeastStub <= MostStub
    /\ NoticeLen \in Nat \ {0} /\ NoticePathLen \in Nat \ {0}

VARIABLES
    budget,   \* [total, per]: the two limits of this turn, 0 for none
    results,  \* the tool results in the messages: [tool, lines, stub, cut, told, warned]
    todo      \* results still to be cut before the request goes out

budgetVars == <<budget, results, todo>>

\* The lines with the line feed each takes up in the books of take_head_lines.
Cost(lines) ==
    LET upTo[n \in 0 .. Len(lines)] == IF n = 0 THEN 0 ELSE upTo[n - 1] + lines[n] + 1
    IN  upTo[Len(lines)]
Size(lines) == Cost(lines) - 1

HeadLines(lines, room) ==
    SubSeq(lines, 1, Max({n \in 0 .. Len(lines) : Cost(SubSeq(lines, 1, n)) <= room}))
TailLines(lines, room) ==
    LET rest(n) == SubSeq(lines, Len(lines) - n + 1, Len(lines))
    IN  rest(Max({n \in 0 .. Len(lines) : Cost(rest(n)) <= room}))

Notice(saved) == IF saved THEN NoticePathLen ELSE NoticeLen
Half(room) == room \div 2

\* Mutant: the note is not reckoned in.
StubUnreserved(lines, room, saved) ==
    [head |-> HeadLines(lines, room - Half(room)), note |-> Notice(saved),
     tail |-> TailLines(lines, Half(room))]

\* Mutant: all the room goes to the beginning.
StubHeadOnly(lines, room, saved) ==
    IF Notice(saved) + 2 >= room THEN [head |-> <<>>, note |-> Min({Notice(saved), room}), tail |-> <<>>]
    ELSE [head |-> HeadLines(lines, room - Notice(saved) - 2), note |-> Notice(saved), tail |-> <<>>]

\* Whole lines from both ends around a note, or the note alone.  The text is
\* written to a file first; if that fails the note names none.
Stub(lines, room, saved) ==
    LET left == room - Notice(saved) - 2
    IN  IF Notice(saved) + 2 >= room THEN [head |-> <<>>, note |-> Min({Notice(saved), room}), tail |-> <<>>]
        ELSE [head |-> HeadLines(lines, left - Half(left)),
              note |-> Notice(saved),
              tail |-> TailLines(lines, Half(left))]

StubBudget == Min({Max({budget.per, LeastStub}), MostStub})

Enabled == budget.total > 0 /\ budget.per > 0
Total(texts) == MapThenSumSet(LAMBDA i : Size(texts[i].lines), DOMAIN texts)

Candidates ==
    {i \in DOMAIN results :
        /\ Size(results[i].lines) > budget.per
        /\ ~results[i].stub
        /\ results[i].tool \notin SelfBudgeted}

\* The largest first, of equal ones the oldest: there is one such order.
Precedes(i, j) ==
    LET a == Size(results[i].lines)  b == Size(results[j].lines)
    IN  a > b \/ (a = b /\ i < j)
LargestFirst(S) ==
    {order \in SetToSeqs(S) :
        \A m, n \in DOMAIN order : m < n => Precedes(order[m], order[n])}

BudgetInit ==
    /\ results = <<>>
    /\ todo = <<>>

\* Before a request goes out.
PlanTrim ==
    /\ todo' \in IF ~Enabled \/ Total(results) <= budget.total THEN {<<>>} ELSE LargestFirst(Candidates)
    /\ UNCHANGED <<budget, results>>

\* A warning the guard put at the end is there as long as the last line is.
CutTo(result, stub) ==
    [result EXCEPT !.lines = stub.head \o <<stub.note>> \o stub.tail,
                   !.stub = TRUE,
                   !.cut = TRUE,
                   !.warned = @ /\ stub.tail # <<>>]

TrimDone == todo = <<>> \/ Total(results) <= budget.total

Trim(saved) ==
    /\ ~TrimDone
    /\ LET result == results[Head(todo)] IN
        results' = IF Size(result.lines) <= StubBudget THEN results
                   ELSE [results EXCEPT ![Head(todo)] =
                            CutTo(result, Stub(result.lines, StubBudget, saved))]
    /\ todo' = Tail(todo)
    /\ UNCHANGED budget

-----------------------------------------------------------------------------
\* A result that trimming can still do something about.
CanBeCut(result) ==
    /\ Size(result.lines) > Max({budget.per, StubBudget})
    /\ ~result.stub
    /\ result.tool \notin SelfBudgeted

\* What is sent keeps to the budget, or nothing in it is left that could be cut;
\* and a cut result is no longer than a stub may be, whatever its lines were and
\* whether or not its text could be saved (trim_tool_results, spill::stub).
Fits ==
    /\ Enabled => Total(results) <= budget.total \/ \A i \in DOMAIN results : ~CanBeCut(results[i])
    /\ \A i \in DOMAIN results : results[i].cut => Size(results[i].lines) <= StubBudget
=============================================================================
