----------------------------- MODULE ToolCalls ------------------------------
(***************************************************************************)
(* A turn's tool calls from the model's request to the text it reads:      *)
(* ToolRegistry::execute with its hooks (joyczl-tools/src/lib.rs), the     *)
(* gate of run_command (exec.rs), the loop guard and the budget of results *)
(* (joyczl-loop).  The bridge to the people who answer is Approvals'       *)
(* business, what else a turn does TurnEngine's.                           *)
(***************************************************************************)
EXTENDS Hooks, StallGuard, ResultBudget

CONSTANTS
    Tools,         \* names the registry knows
    Stranger,      \* a name it does not know
    RunCommand,    \* the tool that runs commands
    Unchecked,     \* tools whose schema does not compile: their arguments pass
    Settings,      \* bound: what a turn is run with, what a turn is given
    StubMinChars,  \* a repeated result this long is replaced by a reference (512)
    NoteLen,       \* length of the guard's warning
    ReferenceLen   \* length of the reference

ASSUME ToolCallsAssumption ==
    /\ RunCommand \in Tools /\ Stranger \notin Tools /\ Unchecked \subseteq Tools
    /\ StubMinChars \in Nat /\ NoteLen \in Nat \ {0} /\ ReferenceLen \in Nat

\* What tools and hooks give back is text, and the limits are numbers.
IsText(output) == output.lines \in Seq(Nat) /\ output.stub \in BOOLEAN
ASSUME TextAssumption ==
    /\ \A s \in Settings :
        /\ s.budget.total \in Nat /\ s.budget.per \in Nat
        /\ \A output \in s.outputs : IsText(output)
    /\ \A end \in Ends : end.output # Unwritten => IsText(end.output)

\* history: some gate said no to this call, or yes.
SaysNo(end) == end.how \in {"late", "exit 2"} \/ (end.how = "decision" /\ "no" \in end.says)
SaysYes(end) == end.how = "decision" /\ "yes" \in end.says

\* What a command says is the word it writes.
SaysAssumption ==
    \A end \in Ends : end.how = "decision" =>
        /\ "no" \in end.says <=> (end.decision = "block" \/ end.permission = "deny")
        /\ "yes" \in end.says <=> end.permission = "allow"

ASSUME SaysAssumption

VARIABLES
    setup,  \* the member of Settings this turn runs with
    call,   \* the call in progress, or NoCall
    phase   \* "model": it is the model's turn; "call"; "request": one is put together;
            \* "sent"; "over": the turn was interrupted

callVars == <<setup, call, phase>>
toolVars == <<hookVars, guardVars, budgetVars, callVars>>

Error == [says |-> "Error:", lines |-> <<5>>, stub |-> FALSE]
NoCall == [tool |-> Stranger, input |-> "none", args |-> "none", command |-> "none",
           stage |-> "none", output |-> Error, refused |-> FALSE, consented |-> FALSE, ran |-> FALSE]

Conforms(tool, args) == tool \in Unchecked \/ args # "unfit"

ToolCallsInit ==
    /\ setup \in Settings
    /\ HooksInit(setup.texts)
    /\ GuardInit
    /\ BudgetInit /\ budget = setup.budget
    /\ call = NoCall
    /\ phase = "sent"

-----------------------------------------------------------------------------
\* The model asks for a tool, known or not, with arguments that fit or do not.
Propose(tool, input, command) ==
    /\ phase \in {"model", "sent"}
    /\ Len(observed) < setup.calls
    /\ phase' = "call"
    /\ call' = [NoCall EXCEPT !.tool = tool, !.input = input, !.args = input,
                              !.command = command, !.stage = "called"]
    /\ UNCHANGED <<hookVars, guardVars, budgetVars, setup>>

At(stage) == phase = "call" /\ call.stage = stage
CallStep == UNCHANGED <<hooksFile, loadedFrom, guardVars, budgetVars, setup, phase>>

\* An unknown tool, or arguments its schema refuses, are answered at once.
Refuse ==
    /\ At("called")
    /\ call.tool \notin Tools \/ ~Conforms(call.tool, call.args)
    /\ call' = [call EXCEPT !.stage = "answered", !.output = Error]
    /\ UNCHANGED firing /\ CallStep

Admit ==
    /\ At("called")
    /\ call.tool \in Tools /\ Conforms(call.tool, call.args)
    /\ firing' = Fired("PreToolUse", call.tool)
    /\ call' = [call EXCEPT !.stage = "before"]
    /\ CallStep

\* PreToolUse stops the call or hands on other arguments, which are checked again.
\* The handler of run_command asks PermissionRequest before it asks anybody.
Before ==
    /\ At("before") /\ FireEnds
    /\ LET input == firing.outcome.input
           args  == IF input = Unwritten THEN call.args ELSE input
       IN \/ /\ firing.outcome.blocked \/ (input # Unwritten /\ ~Conforms(call.tool, args))
             /\ call' = [call EXCEPT !.stage = "answered", !.output = Error]
             /\ firing' = NotFiring
          \/ /\ ~firing.outcome.blocked /\ Conforms(call.tool, args)
             /\ call' = [call EXCEPT !.stage = IF call.tool = RunCommand THEN "permission" ELSE "handler",
                                     !.args = args]
             /\ firing' = IF call.tool = RunCommand THEN Fired("PermissionRequest", RunCommand)
                          ELSE NotFiring
    /\ CallStep

\* The handler has returned: one of two events is fired on its output.
Returns(output, ran, yes) ==
    /\ call' = [call EXCEPT !.stage = "after", !.output = output, !.ran = ran,
                            !.consented = @ \/ yes]
    /\ firing' = Fired(IF output = Error THEN "PostToolUseFailure" ELSE "PostToolUse", call.tool)

Handle(output) ==
    /\ At("handler")
    /\ Returns(output, TRUE, FALSE)
    /\ CallStep

\* vet: the hard list cannot be talked round; only what is asked about can be
\* granted, by a hook that allowed it or by the person who is asked.
Granted(answer) ==
    \/ call.command = "listed"
    \/ call.command = "asked" /\ (firing.outcome.allowed \/ answer)

\* Mutant: a hook that allows is heard before one that refuses.
PermissionAllowedFirst(answer, output) ==
    /\ At("permission") /\ FireEnds
    /\ IF (firing.outcome.allowed \/ ~firing.outcome.blocked) /\ Granted(answer) /\ setup.sandbox
       THEN Returns(output, TRUE, answer)
       ELSE Returns(Error, FALSE, answer)
    /\ CallStep

\* A command outside the sandbox is never run.
Permission(answer, output) ==
    /\ At("permission") /\ FireEnds
    /\ IF ~firing.outcome.blocked /\ Granted(answer) /\ setup.sandbox THEN Returns(output, TRUE, answer)
       ELSE Returns(Error, FALSE, answer)
    /\ CallStep

\* A refusal of the result replaces it; a rewritten one takes its place.
After ==
    /\ At("after") /\ FireEnds
    /\ call' = [call EXCEPT !.stage = "answered",
                            !.output = IF firing.outcome.blocked THEN Error
                                       ELSE IF firing.outcome.output # Unwritten THEN firing.outcome.output
                                       ELSE @]
    /\ firing' = NotFiring
    /\ CallStep

Hook ==
    /\ \/ PassOver /\ UNCHANGED call
       \/ \E end \in Ends :
            /\ RunEntry(end)
            /\ call' = [call EXCEPT
                 !.refused = @ \/ (firing.event \in Policy /\ SaysNo(end)),
                 !.consented = @ \/ (firing.event = "PermissionRequest" /\ SaysYes(end))]
    /\ CallStep

HookSticks == StuckInEntry /\ UNCHANGED call /\ CallStep

HooksChange ==
    /\ phase = "call" /\ FileChanges(setup.texts)
    /\ UNCHANGED <<guardVars, budgetVars, callVars>>

\* What the model reads: the result, or a reference to the same one before it,
\* and the warning on a line of its own.
ForModel ==
    LET told   == verdict' # "ok"
        refer  == verdict' = "repeated" /\ Size(call.output.lines) >= StubMinChars
        lines  == IF refer THEN <<ReferenceLen>> ELSE call.output.lines
    IN  [tool |-> call.tool, cut |-> FALSE, stub |-> call.output.stub /\ ~refer,
         lines |-> IF told THEN Append(lines, NoteLen) ELSE lines,
         told |-> told, warned |-> told]

\* The guard knows a call by what the model asked for, not by what a hook made of it.
Result ==
    /\ At("answered")
    /\ Observe(<<call.tool, call.input, call.command, call.output.says>>)
    /\ results' = Append(results, ForModel)
    /\ call' = NoCall
    /\ phase' = "model"
    /\ UNCHANGED <<hookVars, budget, todo, setup>>

\* The turn is interrupted: the call is dropped, and with it the command of a hook.
Interrupt ==
    /\ phase = "call"
    /\ phase' = "over"
    /\ firing' = NotFiring
    /\ UNCHANGED <<hooksFile, loadedFrom, guardVars, budgetVars, setup, call>>

-----------------------------------------------------------------------------
\* The next request: results are cut until they fit, then it is sent.
NextRequest ==
    /\ phase = "model"
    /\ PlanTrim
    /\ phase' = "request"
    /\ UNCHANGED <<hookVars, guardVars, setup, call>>

TrimOne ==
    /\ phase = "request"
    /\ \E saved \in BOOLEAN : Trim(saved)
    /\ UNCHANGED <<hookVars, guardVars, callVars>>

Send ==
    /\ phase = "request" /\ TrimDone
    /\ phase' = "sent"
    /\ UNCHANGED <<hookVars, guardVars, budgetVars, setup, call>>

ToolCallsNext ==
    \/ \E tool \in setup.tools, input \in setup.inputs : \E command \in setup.commands :
         Propose(tool, input, command)
    \/ Refuse \/ Admit \/ Before
    \/ \E output \in setup.outputs \cup {Error} : Handle(output)
    \/ \E answer \in BOOLEAN, output \in setup.outputs \cup {Error} : Permission(answer, output)
    \/ After
    \/ Hook \/ HookSticks \/ HooksChange
    \/ Result \/ Interrupt
    \/ NextRequest \/ TrimOne \/ Send

ToolCallsSpec == ToolCallsInit /\ [][ToolCallsNext]_toolVars

-----------------------------------------------------------------------------
\* A tool runs only on arguments its schema accepts and only if no gate refused
\* it, whatever other hooks of the same event answered before or after and even
\* if what refused was a command that did not answer in time; and a command that
\* is not on the list runs only if a hook or a person said yes
\* (ToolRegistry::execute, hooks.rs merge and run_one, exec.rs run_command).
RunsAreCleared ==
    call.ran =>
        /\ Conforms(call.tool, call.args)
        /\ ~call.refused
        /\ call.tool = RunCommand =>
             call.command = "listed" \/ (call.command = "asked" /\ call.consented)

\* Fits of ResultBudget, of every request that goes out.
RequestsFit == phase = "sent" => Fits

\* What the guard has to say is still there in the request, however much of the
\* result it was put under is cut away, where a stub has room for it at its end
\* (guard.rs for_model and spill.rs stub, which know nothing of each other).
WarningsAreRead ==
    (phase = "sent" /\ Half(StubBudget - Max({NoticeLen, NoticePathLen}) - 2) > NoteLen) =>
        \A i \in DOMAIN results : results[i].told => results[i].warned
=============================================================================
