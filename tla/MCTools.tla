------------------------------ MODULE MCTools -------------------------------
(***************************************************************************)
(* Small instances of ToolCalls: one turn rich in hooks, one in which a    *)
(* model repeats itself, one with results larger than the budget.          *)
(***************************************************************************)
EXTENDS ToolCalls

End(how) == [how |-> how, decision |-> "none", permission |-> "none",
             input |-> Unwritten, output |-> Unwritten, says |-> {}]
Decision == [End("decision") EXCEPT !.output = Unwritten]
Rewritten == [says |-> "rewritten", lines |-> <<3>>, stub |-> FALSE]

MCEnds ==
    {End("unspawnable"), End("late"), End("exit 2"), End("exit 1"), Decision,
     [Decision EXCEPT !.decision = "block", !.says = {"no"}],
     [Decision EXCEPT !.permission = "deny", !.says = {"no"}],
     [Decision EXCEPT !.permission = "allow", !.says = {"yes"}],
     [Decision EXCEPT !.permission = "allow", !.decision = "block", !.says = {"yes", "no"}],
     [Decision EXCEPT !.input = "rewritten"],
     [Decision EXCEPT !.input = "unfit"],
     [Decision EXCEPT !.output = Rewritten]}

Gate(matcher) == [matcher |-> matcher]
File(pre, permission, post, failure) ==
    [parses |-> TRUE, disableAllHooks |-> FALSE,
     hooks |-> [PreToolUse |-> pre, PermissionRequest |-> permission,
                PostToolUse |-> post, PostToolUseFailure |-> failure]]
Always == Gate({"*"})
Quietly == File(<<>>, <<>>, <<>>, <<>>)
Guarded == File(<<Always, Gate({"run"})>>, <<Always, Always>>, <<Gate({"note"})>>, <<Gate({"run"})>>)
Broken == [Guarded EXCEPT !.parses = FALSE]
Disabled == [Guarded EXCEPT !.disableAllHooks = TRUE]

Output(says, lines) == [says |-> says, lines |-> lines, stub |-> FALSE]
Setup == [texts |-> {Quietly}, budget |-> [total |-> 0, per |-> 0], tools |-> {"note"}, inputs |-> {"fit"},
          commands |-> {"none"}, outputs |-> {}, sandbox |-> TRUE, calls |-> 1]
Hooked ==
    [Setup EXCEPT !.texts = {Guarded, Broken, Disabled, Gone}, !.tools = {"run", "note", "remote", "nobody"}, !.inputs = {"fit", "unfit"},
                  !.commands = {"hard", "listed", "asked", "refused"}, !.outputs = {Output("a", <<3>>)}]
Unboxed == [Hooked EXCEPT !.tools = {"run"}, !.sandbox = FALSE]
Circling == [Setup EXCEPT !.outputs = {Output("a", <<30>>), Output("b", <<2>>)}, !.calls = 9]
Large ==
    [Setup EXCEPT !.budget = [total |-> 60, per |-> 30], !.tools = {"run", "note"}, !.commands = {"listed"},
                  !.outputs = {Output("a", <<40>>), Output("b", <<5, 5, 5, 5, 5, 5, 5>>),
                               Output("c", <<20, 20>>), [Output("d", <<33>>) EXCEPT !.stub = TRUE]},
                  !.calls = 4]
Tight == [Large EXCEPT !.budget = [total |-> 20, per |-> 6]]

MCSettings == {Hooked, Unboxed, Circling, Large, Tight}
=============================================================================
