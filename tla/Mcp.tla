--------------------------------- MODULE Mcp ---------------------------------
(***************************************************************************)
(* McpClient::connect and what it hands out (joyczl-mcp/src/lib.rs,        *)
(* config.rs): an entry of mcp.json is resolved to a transport, an OAuth   *)
(* entry gets its token (McpAuth), the transport is opened, greeted and    *)
(* asked for its tools, and from then on turns call them (McpSession).     *)
(* Whatever fails on the way is a warning.                                 *)
(***************************************************************************)
EXTENDS McpSession, McpAuth

CONSTANTS
    Specs,   \* entries of mcp.json
    Stored,  \* what the token store may hold at the start
    JoyOnly  \* is the other end Joy's own server (`joy mcp serve`)?

\* What an entry says, by what is absent, empty or given in it.
ServerSpec == [name : BOOLEAN, url : BOOLEAN, command : BOOLEAN,
               authEnv : {"none", "set", "unset"}, oauth : BOOLEAN]

ASSUME McpAssumption ==
    /\ Specs \subseteq ServerSpec
    /\ Stored \subseteq StoredAuth
    /\ JoyOnly \in BOOLEAN
    /\ Cardinality(Apps) = 1

VARIABLES
    spec,    \* the entry
    target,  \* what it resolved to
    verdict  \* connected, warned about, or not yet

mcpVars == <<spec, target, verdict>>
vars == <<sessionVars, authVars, mcpVars>>

App == CHOOSE p \in Apps : TRUE

\* Two transports, two credentials, none of either or a variable without a
\* value: refused.
Resolved(s) ==
    CASE ~s.name \/ s.url = s.command -> "refused"
      [] s.command -> "stdio"
      [] s.authEnv # "none" /\ s.oauth -> "refused"
      [] s.authEnv = "unset" -> "refused"
      [] OTHER -> IF s.oauth THEN "oauth" ELSE "http"

Init ==
    /\ SessionInit
    /\ \E stored \in Stored : AuthInit(stored)
    /\ spec \in Specs
    /\ target = "none"
    /\ verdict = "none"

\* Stdio starts the child; an HTTP session is only an address so far.
Asks(method) ==
    /\ asks' = [asks EXCEPT ![Boot] = method]
    /\ id' = [id EXCEPT ![Boot] = nextId]
    /\ nextId' = nextId + 1
    /\ got' = [got EXCEPT ![Boot] = "nothing"]
    /\ pc' = [pc EXCEPT ![Boot] = "writing"]

Resolves ==
    /\ target = "none"
    /\ target' = Resolved(spec)
    /\ verdict' = IF Resolved(spec) = "refused" THEN "warned" ELSE verdict
    /\ UNCHANGED <<sessionVars, authVars, spec>>

\* The child may not start.
Opens ==
    /\ pc[Boot] = "idle" /\ verdict = "none"
    /\ \/ target \in {"stdio", "http"}
       \/ target = "oauth" /\ step[App] = "ready"
    /\ \/ /\ Asks("initialize")
          /\ UNCHANGED verdict
       \/ /\ target = "stdio"
          /\ verdict' = "warned"
          /\ UNCHANGED <<pc, asks, id, got, nextId>>
    /\ UNCHANGED <<queue, holder, torn, toServer, toClient, alive, own, gate>>
    /\ UNCHANGED <<authVars, spec, target>>

NotSignedIn ==
    /\ target = "oauth" /\ verdict = "none"
    /\ step[App] = "refused"
    /\ verdict' = "warned"
    /\ UNCHANGED <<sessionVars, authVars, spec, target>>

\* A result, be it an empty one.
Understood == got[Boot] \in Tasks \cup {"empty"}

\* After initialize the server is told, then asked for its tools.
Initialized ==
    /\ pc[Boot] = "opened" /\ verdict = "none"
    /\ asks[Boot] = "initialize"
    /\ Understood
    /\ pc' = [pc EXCEPT ![Boot] = "notifying"]
    /\ UNCHANGED <<asks, id, got, queue, holder, line, gate, authVars, mcpVars>>

Notifies ==
    /\ pc[Boot] = "notifying"
    /\ alive
    /\ Asks("tools/list")
    /\ IF target = "stdio" THEN Sent([kind |-> "notification", id |-> 0, to |-> Boot])
       ELSE UNCHANGED <<torn, toServer>>
    /\ UNCHANGED <<queue, holder, toClient, alive, own, gate, authVars, mcpVars>>

\* Failed, or it has no tools: a warning, and the transport is dropped (the
\* child with it).
GivesUp ==
    /\ pc[Boot] = "opened" /\ verdict = "none"
    /\ Understood => asks[Boot] = "tools/list"
    /\ verdict' = "warned"
    /\ pc' = [pc EXCEPT ![Boot] = "done"]
    /\ alive' = FALSE /\ toServer' = <<>> /\ toClient' = <<>>
    /\ UNCHANGED <<asks, id, got, queue, holder, nextId, torn, own, gate, authVars, spec, target>>

Connected ==
    /\ pc[Boot] = "opened" /\ verdict = "none"
    /\ asks[Boot] = "tools/list"
    /\ got[Boot] \in Tasks
    /\ verdict' = "connected"
    /\ pc' = [pc EXCEPT ![Boot] = "done"]
    /\ UNCHANGED <<asks, id, got, queue, holder, line, gate, authVars, spec, target>>

Boots ==
    \/ Resolves \/ NotSignedIn \/ Opens \/ Initialized \/ Notifies \/ Connected
    \/ GivesUp

-----------------------------------------------------------------------------
Piped(t) == Writes(t) \/ ServerIsGone(t) \/ Reads(t) \/ PassesOver(t) \/ Declines(t)
Posted(t) == Posts(t) \/ PostAnswered(t)

Transports(t) ==
    /\ \/ target = "stdio" /\ Piped(t)
       \/ target \in {"http", "oauth"} /\ Posted(t)
       \/ TimesOut(t)
    /\ UNCHANGED <<authVars, mcpVars>>

CallSteps(c) ==
    /\ verdict = "connected"
    /\ Skipped(c) \/ LetThrough(c) \/ Take(c) \/ Record(c)
    /\ UNCHANGED <<authVars, mcpVars>>

Interrupted(c) == Dropped(c) /\ UNCHANGED <<authVars, mcpVars>>
Cooling == Cools /\ UNCHANGED <<authVars, mcpVars>>

ServerSteps ==
    /\ target = "stdio"
    /\ ServesLine \/ (~JoyOnly /\ (ServesLater \/ Speaks \/ Dies))
    /\ UNCHANGED <<authVars, mcpVars>>

AuthSteps ==
    /\ target = "oauth"
    /\ AuthNext
    /\ UNCHANGED <<sessionVars, mcpVars>>

\* Nothing is left to do: the entry was warned about, or every call is done.
Settled ==
    /\ verdict # "none"
    /\ verdict = "connected" => \A c \in Callers : pc[c] = "done"
    /\ UNCHANGED vars

Next ==
    \/ Boots
    \/ \E t \in Tasks : Transports(t)
    \/ \E c \in Callers : CallSteps(c) \/ Interrupted(c)
    \/ Cooling
    \/ ServerSteps
    \/ AuthSteps
    \/ Settled

Spec == Init /\ [][Next]_vars

(***************************************************************************)
(* Joy's own tasks are scheduled and their timers fire; the server owes    *)
(* nothing.  The HTTP requests of OAuth have no timer of their own: that   *)
(* discovery and the token endpoint answer is assumed of them.             *)
(***************************************************************************)
AppRuns == AuthSteps /\ step[App]' # step[App]

Fairness ==
    /\ WF_vars(Boots)
    /\ WF_vars(AppRuns)
    /\ \A t \in Tasks : WF_vars(TimesOut(t) /\ UNCHANGED <<authVars, mcpVars>>)
    /\ \A c \in Callers : WF_vars(CallSteps(c))

FairSpec == Spec /\ Fairness

=============================================================================
