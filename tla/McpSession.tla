----------------------------- MODULE McpSession -----------------------------
(***************************************************************************)
(* One connection to an MCP server: the circuit breaker and the queue of   *)
(* Connection::call (joyczl-mcp/src/lib.rs), the newline-delimited session *)
(* with a child process and the POSTs of an HTTP session (transport.rs),   *)
(* and, at the other end of the pipe, either any server or Joy's own       *)
(* (server.rs).                                                            *)
(*                                                                         *)
(* A call is a future under a timeout: it may be dropped at every await,   *)
(* in mid-write (the pipe then holds half a line) or in mid-read (the rest *)
(* of the line stays behind).  Lines on the pipe are records; junk stands  *)
(* for whatever is not JSON.                                               *)
(***************************************************************************)
EXTENDS Naturals, Sequences, FiniteSets, SequencesExt

CONSTANTS
    Callers,     \* tool calls to come
    Boot,        \* the task that opens the connection
    Failures,    \* BreakerPolicy.failures
    ReverseIds,  \* ids the server gives to requests of its own
    MaxCooling,  \* bound: how often the breaker's cooldown passes
    MaxOwn       \* bound: lines the server sends on its own account

Tasks == Callers \cup {Boot}

\* What a request may come back with, other than the answer to a task.
Results == {"nothing", "skipped", "error", "timeout", "dropped", "empty"}

ASSUME SessionAssumption ==
    /\ Boot \notin Callers
    /\ Tasks \cap Results = {}
    /\ Failures \in Nat \ {0}
    /\ ReverseIds \subseteq Nat
    /\ MaxCooling \in Nat /\ MaxOwn \in Nat

VARIABLES
    pc,        \* where each task is
    asks,      \* asks[t]: the method t has asked for
    id,        \* id[t]: the id of its request
    got,       \* got[t]: what its request came back with
    queue,     \* the callers waiting for the transport lock, first come first
    holder,    \* who holds it: a set of at most one
    nextId,    \* next_id of the session
    torn,      \* half a line is in the pipe to the server
    toServer,  \* lines on their way to the server
    toClient,  \* lines on their way back
    alive,     \* does the server run?
    own,       \* how many lines it has sent on its own account
    breaker,   \* [fails, open]: open_until is None, ahead or past
    records,   \* history: what the breaker was told, in order
    cooled     \* how often the cooldown has passed

line == <<nextId, torn, toServer, toClient, alive, own>>
gate == <<breaker, records, cooled>>
sessionVars == <<pc, asks, id, got, queue, holder, line, gate>>

Junk == [kind |-> "junk", id |-> 0, to |-> Boot]

SessionInit ==
    /\ pc = [t \in Tasks |-> "idle"]
    /\ asks = [t \in Tasks |-> "none"]
    /\ id = [t \in Tasks |-> 0]
    /\ got = [t \in Tasks |-> "nothing"]
    /\ queue = <<>> /\ holder = {}
    /\ nextId = 1 /\ torn = FALSE /\ toServer = <<>> /\ toClient = <<>>
    /\ alive = TRUE /\ own = 0
    /\ breaker = [fails |-> 0, open |-> "none"]
    /\ records = <<>> /\ cooled = 0

Goto(t, from, to) ==
    /\ pc[t] = from
    /\ pc' = [pc EXCEPT ![t] = to]

-----------------------------------------------------------------------------
(* The breaker                                                             *)

\* blocked_for: while it is open a call is skipped.
Skipped(c) ==
    /\ breaker.open = "ahead"
    /\ Goto(c, "idle", "done")
    /\ got' = [got EXCEPT ![c] = "skipped"]
    /\ UNCHANGED <<asks, id, queue, holder, line, gate>>

\* The cooldown over, it is half open from the next call on.
LetThrough(c) ==
    /\ breaker.open # "ahead"
    /\ Goto(c, "idle", "queued")
    /\ breaker' = [breaker EXCEPT !.open = "none"]
    /\ queue' = Append(queue, c)
    /\ asks' = [asks EXCEPT ![c] = "tools/call"]
    /\ UNCHANGED <<id, got, holder, line, records, cooled>>

Cools ==
    /\ breaker.open = "ahead"
    /\ cooled < MaxCooling
    /\ breaker' = [breaker EXCEPT !.open = "past"]
    /\ cooled' = cooled + 1
    /\ UNCHANGED <<pc, asks, id, got, queue, holder, line, records>>

\* Mutant: the count is compared before it is raised to the threshold.
RecordedEarly(ok) ==
    IF ok
    THEN [fails |-> 0, open |-> "none"]
    ELSE [fails |-> breaker.fails + 1,
          open |-> IF breaker.fails + 2 >= Failures THEN "ahead" ELSE breaker.open]

Recorded(ok) ==
    IF ok
    THEN [fails |-> 0, open |-> "none"]
    ELSE [fails |-> breaker.fails + 1,
          open |-> IF breaker.fails + 1 >= Failures THEN "ahead" ELSE breaker.open]

Record(c) ==
    /\ Goto(c, "record", "done")
    /\ breaker' = Recorded(got[c] \notin {"error", "timeout"})
    /\ records' = Append(records, got[c])
    /\ UNCHANGED <<asks, id, got, queue, holder, line, cooled>>

-----------------------------------------------------------------------------
(* The session                                                             *)

\* The transport lock is fair; the request gets its id.
Take(c) ==
    /\ queue # <<>> /\ Head(queue) = c
    /\ holder = {}
    /\ Goto(c, "queued", "writing")
    /\ queue' = Tail(queue)
    /\ holder' = {c}
    /\ id' = [id EXCEPT ![c] = nextId]
    /\ nextId' = nextId + 1
    /\ UNCHANGED <<asks, got, torn, toServer, toClient, alive, own, gate>>

\* A line that follows half a line is junk to the server.
Sent(msg) ==
    /\ toServer' = Append(toServer, IF torn THEN Junk ELSE msg)
    /\ torn' = FALSE

Request(t) == [kind |-> asks[t], id |-> id[t], to |-> t]

Writes(t) ==
    /\ alive
    /\ Goto(t, "writing", "reading")
    /\ Sent(Request(t))
    /\ UNCHANGED <<asks, id, got, queue, holder, nextId, toClient, alive, own, gate>>

\* Mutant: who timed out does not give the transport back.
LeavesLocked(t, what) ==
    /\ got' = [got EXCEPT ![t] = what]
    /\ pc' = [pc EXCEPT ![t] = IF t = Boot THEN "opened" ELSE "record"]
    /\ holder' = IF what = "timeout" THEN holder ELSE {}
    /\ UNCHANGED <<asks, id, queue, gate>>

\* The task leaves the transport with what it has: a caller reports to the
\* breaker, the opening goes on.
Leaves(t, what) ==
    /\ got' = [got EXCEPT ![t] = what]
    /\ pc' = [pc EXCEPT ![t] = IF t = Boot THEN "opened" ELSE "record"]
    /\ holder' = {}
    /\ UNCHANGED <<asks, id, queue, gate>>

\* Broken pipe, or end of file after the last line.
ServerIsGone(t) ==
    /\ pc[t] \in {"writing", "notifying", "replying", "reading"}
    /\ ~alive
    /\ pc[t] = "reading" => toClient = <<>>
    /\ Leaves(t, "error")
    /\ UNCHANGED line

\* Mutant: whatever answers is taken.
MatchesAny(t, msg) == msg.kind \in {"answer", "refusal"}

\* request() looks at the id alone: a request of the server's own that has
\* the same id matches, too, and reads as an empty result.
Matches(t, msg) == msg.kind # "junk" /\ msg.id = id[t]

Received(msg) ==
    CASE msg.kind = "answer" -> msg.to
      [] msg.kind = "refusal" -> "error"
      [] OTHER -> "empty"

Reads(t) ==
    /\ pc[t] = "reading"
    /\ toClient # <<>>
    /\ Matches(t, Head(toClient))
    /\ Leaves(t, Received(Head(toClient)))
    /\ toClient' = Tail(toClient)
    /\ UNCHANGED <<nextId, torn, toServer, alive, own>>

\* Late answers, notifications and junk are passed over; a request of the
\* server's own is declined.
PassesOver(t) ==
    /\ pc[t] = "reading"
    /\ toClient # <<>>
    /\ ~Matches(t, Head(toClient))
    /\ toClient' = Tail(toClient)
    /\ pc' = [pc EXCEPT ![t] = IF Head(toClient).kind = "reverse" THEN "replying" ELSE "reading"]
    /\ UNCHANGED <<asks, id, got, queue, holder, nextId, torn, toServer, alive, own, gate>>

Declines(t) ==
    /\ alive
    /\ Goto(t, "replying", "reading")
    /\ Sent([kind |-> "declined", id |-> 0, to |-> t])
    /\ UNCHANGED <<asks, id, got, queue, holder, nextId, toClient, alive, own, gate>>

\* What a future dropped at its await leaves in the pipes: half of what it
\* was writing, or of what it was reading.
Severed(t) ==
    /\ torn' \in IF pc[t] \in {"writing", "notifying", "replying"} THEN {TRUE, torn} ELSE {torn}
    /\ toClient' \in
           IF pc[t] = "reading" /\ toClient # <<>>
           THEN {toClient, <<Junk>> \o Tail(toClient)} ELSE {toClient}
    /\ UNCHANGED <<nextId, toServer, alive, own>>

Transporting == {"writing", "notifying", "replying", "reading", "posting"}

TimesOut(t) ==
    /\ pc[t] \in Transporting
    /\ Severed(t)
    /\ Leaves(t, "timeout")

\* An interrupted turn drops the call wherever it is: nothing is recorded.
Dropped(c) ==
    /\ pc[c] \in Transporting \cup {"queued", "record"}
    /\ Severed(c)
    /\ pc' = [pc EXCEPT ![c] = "done"]
    /\ got' = [got EXCEPT ![c] = "dropped"]
    /\ queue' = SelectSeq(queue, LAMBDA q : q # c)
    /\ holder' = holder \ {c}
    /\ UNCHANGED <<asks, id, breaker, records, cooled>>

\* HttpSession: the answer to a POST is the answer to its request, whatever
\* status, stream or body it comes as.
Posts(t) ==
    /\ Goto(t, "writing", "posting")
    /\ UNCHANGED <<asks, id, got, queue, holder, line, gate>>

PostAnswered(t) ==
    /\ pc[t] = "posting"
    /\ \E what \in {t, "error"} : Leaves(t, what)
    /\ UNCHANGED line

-----------------------------------------------------------------------------
(* The other end                                                           *)

\* Joy's own server serves one line at a time: an answer or a refusal with
\* the same id, a null id for what it cannot parse, nothing for a
\* notification.
JoyAnswer(msg) ==
    CASE msg.kind = "junk" -> {<<Junk>>}
      [] msg.kind \in {"notification", "declined"} -> {<<>>}
      [] OTHER -> {<<[kind |-> k, id |-> msg.id, to |-> msg.to]>> : k \in {"answer", "refusal"}}

ServesLine ==
    /\ alive
    /\ toServer # <<>>
    /\ \E reply \in JoyAnswer(Head(toServer)) : toClient' = toClient \o reply
    /\ toServer' = Tail(toServer)
    /\ UNCHANGED <<pc, asks, id, got, queue, holder, nextId, torn, alive, own, gate>>

\* Any other may answer out of order, speak on its own account, or die.
ServesLater ==
    /\ alive
    /\ \E i \in 2..Len(toServer) :
           /\ \E reply \in JoyAnswer(toServer[i]) : toClient' = toClient \o reply
           /\ toServer' = RemoveAt(toServer, i)
    /\ UNCHANGED <<pc, asks, id, got, queue, holder, nextId, torn, alive, own, gate>>

Speaks ==
    /\ alive /\ own < MaxOwn
    /\ own' = own + 1
    /\ \E msg \in {Junk, [kind |-> "notice", id |-> 0, to |-> Boot]}
                     \cup [kind : {"reverse"}, id : ReverseIds, to : {Boot}] :
           toClient' = Append(toClient, msg)
    /\ UNCHANGED <<pc, asks, id, got, queue, holder, nextId, torn, toServer, alive, gate>>

Dies ==
    /\ alive
    /\ alive' = FALSE
    /\ toServer' = <<>>
    /\ UNCHANGED <<pc, asks, id, got, queue, holder, nextId, torn, toClient, own, gate>>

-----------------------------------------------------------------------------
SessionTypeOK ==
    /\ pc \in [Tasks -> {"idle", "queued", "opened", "record", "done"} \cup Transporting]
    /\ got \in [Tasks -> Tasks \cup Results]
    /\ holder \in SUBSET Tasks /\ Cardinality(holder) <= 1
    /\ breaker \in [fails : Nat, open : {"none", "ahead", "past"}]

(***************************************************************************)
(* A call reads until the answer to its own request (transport.rs): never  *)
(* that of a call that timed out or was dropped before it on the same      *)
(* session, never one of another caller.  The exception the code makes is  *)
(* named: a question of the server's own under the number waited for reads *)
(* as an empty answer.                                                     *)
(***************************************************************************)
AnswersReachTheirCall ==
    \A t \in Tasks :
        /\ got[t] \in Tasks => got[t] = t
        /\ got[t] = "empty" => id[t] \in ReverseIds

(***************************************************************************)
(* The breaker opens only on `failures` failures in a row, however calls   *)
(* overlap (Breaker::record).                                              *)
(***************************************************************************)
BreakerIsEarned ==
    breaker.open # "none" =>
        /\ Len(records) >= Failures
        /\ \A i \in Len(records) - Failures + 1..Len(records) : records[i] \in {"error", "timeout"}

(***************************************************************************)
(* A silent, dying or babbling server holds nobody up for ever: every call *)
(* comes back (Connection::call).                                          *)
(***************************************************************************)
CallsReturn == \A c \in Callers : pc[c] = "queued" ~> pc[c] = "done"
=============================================================================
