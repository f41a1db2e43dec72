------------------------------- MODULE Hooks --------------------------------
(***************************************************************************)
(* Lifecycle hooks (joyczl-tools/src/hooks.rs): the user's own commands,   *)
(* run one after another when a tool call passes an event, each of which   *)
(* may stop the call, answer for the user or rewrite what goes in or out.  *)
(* What a command writes is nondeterministic: a member of Ends.            *)
(***************************************************************************)
EXTENDS Naturals, Sequences

CONSTANTS
    Gone,       \* hooks.json is not there
    Unwritten,  \* a hook rewrites nothing
    Ends        \* how the run of a command may end

Events == {"PreToolUse", "PermissionRequest", "PostToolUse", "PostToolUseFailure"}
\* The gates; Stop is the third one and TurnEngine's.
Policy == {"PreToolUse", "PermissionRequest"}

VARIABLES
    hooksFile,  \* what hooks.json holds now
    loadedFrom, \* what it held when it was read
    firing      \* the event being fired, or NotFiring

hookVars == <<hooksFile, loadedFrom, firing>>

Nothing == [blocked |-> FALSE, allowed |-> FALSE, input |-> Unwritten, output |-> Unwritten]
NotFiring == [event |-> "none", subject |-> "none", next |-> 0, deaf |-> FALSE, outcome |-> Nothing]

\* A missing, broken or disabled file runs nothing.
Entries(event) ==
    IF loadedFrom = Gone \/ ~loadedFrom.parses \/ loadedFrom.disableAllHooks THEN <<>>
    ELSE loadedFrom.hooks[event]

Matches(entry, subject) == entry.matcher \cap {"*", subject} # {}

\* A command that cannot be started, whose exit code is neither 0 nor 2, or that
\* does not answer in time at an event that is no gate, is passed over.
Outcome(event, end) ==
    CASE end.how = "late"     -> [Nothing EXCEPT !.blocked = event \in Policy]
      [] end.how = "exit 2"   -> [Nothing EXCEPT !.blocked = TRUE]
      [] end.how = "decision" ->
            [blocked |-> end.decision = "block" \/ end.permission = "deny",
             allowed |-> end.permission = "allow",
             input   |-> end.input,
             output  |-> end.output]
      [] OTHER -> Nothing

\* The first to say something is heard; a refusal cannot be taken back.
Merge(into, one) ==
    [blocked |-> into.blocked \/ one.blocked,
     allowed |-> into.allowed \/ one.allowed,
     input   |-> IF into.input # Unwritten THEN into.input ELSE one.input,
     output  |-> IF into.output # Unwritten THEN into.output ELSE one.output]

HooksInit(texts) ==
    /\ loadedFrom \in texts
    /\ hooksFile = loadedFrom
    /\ firing = NotFiring

Fired(event, subject) == [NotFiring EXCEPT !.event = event, !.subject = subject, !.next = 1]

\* A refusal ends the round: what comes after it is not run.
FireEnds == firing.outcome.blocked \/ firing.next > Len(Entries(firing.event))

Due == firing # NotFiring /\ ~firing.deaf /\ ~FireEnds
Entry == Entries(firing.event)[firing.next]

\* Once the file has changed nothing of it is run, gates included.
PassOver ==
    /\ Due
    /\ ~Matches(Entry, firing.subject) \/ hooksFile # loadedFrom
    /\ firing' = [firing EXCEPT !.next = @ + 1]

RunEntry(end) ==
    /\ Due
    /\ Matches(Entry, firing.subject) /\ hooksFile = loadedFrom
    /\ firing' = [firing EXCEPT !.next = @ + 1, !.outcome = Merge(@, Outcome(firing.event, end))]

\* The payload is written before the clock is started: a command that does not
\* read one larger than the pipe is waited for without limit.
StuckInEntry ==
    /\ Due
    /\ Matches(Entry, firing.subject) /\ hooksFile = loadedFrom
    /\ firing' = [firing EXCEPT !.deaf = TRUE]

\* Another process writes or removes the file.
FileChanges(texts) ==
    /\ hooksFile' \in (texts \cup {Gone}) \ {hooksFile}
    /\ UNCHANGED <<loadedFrom, firing>>
=============================================================================
