-------------------------------- MODULE Wire --------------------------------
(***************************************************************************)
(* The line protocol from end to end: the stdio server (joyczl-app-server: *)
(* stdio.rs, dispatch.rs), the client that runs it as a child process      *)
(* (joyczl-ops/src/client.rs), and the streams that bring a turn to a      *)
(* browser (joyczl-ops/src/api.rs).                                        *)
(*                                                                         *)
(* A turn is known by the call that started it.  What a turn does is       *)
(* TurnEngine's business; here it is the frames it sends.                  *)
(***************************************************************************)
EXTENDS Integers, Sequences, FiniteSets, SequencesExt

CONSTANTS
    TurnCalls,    \* calls of turn/start, each with a stream to a browser
    Writes,       \* calls that change the memory
    Reads,        \* calls that only read it
    WithGraph,    \* the turns that run a graph, whose notifications name no turn
    SessionOf,    \* SessionOf[t]: the session a turn is in
    Scenarios,    \* bound: the sets of calls made in one run
    MaxMishaps,   \* bound: how often the input ends, the server is killed, a read fails or
                  \* a tab is closed
    EventBuffer,  \* unread notifications a subscriber may have (256)
    TurnBuffer    \* frames the channel to a browser holds (1024)

Calls == TurnCalls \cup Writes \cup Reads

ASSUME WireAssumption ==
    /\ TurnCalls \cap Writes = {} /\ TurnCalls \cap Reads = {} /\ Writes \cap Reads = {}
    /\ DOMAIN SessionOf = TurnCalls
    /\ Scenarios \subseteq SUBSET Calls
    /\ MaxMishaps \in Nat
    /\ EventBuffer \in Nat \ {0} /\ TurnBuffer \in Nat \ {0}

VARIABLES
    alive,    \* does the server process run?
    stdin,    \* requests on their way to it
    hungup,   \* its input has ended
    memory,   \* the writes it has done
    progress, \* progress[t]: Unread, one more than the frames it has sent, or Done
    stdout,   \* frames on their way back: the channel, the writer and the pipe
    call,     \* call[c]: where the client is with it
    answer,   \* answer[c]: what it got, a set of writes for a read
    pending,  \* the table of callers who wait
    reading,  \* does the read loop run?
    stream,   \* stream[t]: [state, queue, known, lagged, answered]
    shown,    \* shown[t]: what was sent to its browser
    unread,   \* unread[t]: how much of it the browser has not read; one more than the
              \* channel holds if the last of it waits for room
    sent,     \* history: the calls that reached the server, in order
    killed,   \* history: the server was killed
    deaf,     \* history: the client could not read on
    mishaps   \* how often something went wrong

serverVars == <<alive, stdin, hungup, memory, progress, stdout>>
clientVars == <<call, answer, pending, reading>>
streamVars == <<stream, shown, unread>>
wireVars == <<serverVars, clientVars, streamVars, sent, killed, deaf, mishaps>>

\* A notification names its turn, but for those of the graph.
TurnFrames(t) ==
    <<[kind |-> "turnStarted", turn |-> t]>>
        \o (IF t \in WithGraph THEN <<[kind |-> "graph"]>> ELSE <<>>)
        \o <<[kind |-> "turnCompleted", turn |-> t]>>

Unread == 0
Done == 5
Running(t) == progress[t] \notin {Unread, Done}

Response(c, what) == [kind |-> "response", call |-> c, what |-> what]
Refusal(c) == [kind |-> "error", call |-> c]

WireInit ==
    /\ alive = TRUE /\ stdin = <<>> /\ hungup = FALSE
    /\ memory = {}
    /\ progress = [t \in TurnCalls |-> Unread]
    /\ stdout = <<>>
    /\ \E made \in Scenarios : call = [c \in Calls |-> IF c \in made THEN "idle" ELSE "unmade"]
    /\ answer = [c \in Calls |-> {}]
    /\ pending = {} /\ reading = TRUE
    /\ stream = [t \in TurnCalls |-> [state |-> "unopened", queue |-> <<>>, known |-> FALSE,
                                  turn |-> t, lagged |-> FALSE, answered |-> FALSE]]
    /\ shown = [t \in TurnCalls |-> <<>>] /\ unread = [t \in TurnCalls |-> 0]
    /\ sent = <<>> /\ killed = FALSE /\ deaf = FALSE /\ mishaps = 0

-----------------------------------------------------------------------------
(* AppServer::call                                                         *)

\* A stream subscribes before its request is written.
Opened(c) ==
    IF c \in TurnCalls THEN [stream EXCEPT ![c].state = "open"] ELSE stream

Calling(c) ==
    /\ call[c] = "idle"
    /\ call' = [call EXCEPT ![c] = "writing"]
    /\ pending' = pending \cup {c}
    /\ stream' = Opened(c)
    /\ UNCHANGED <<serverVars, answer, reading, shown, unread, sent, killed, deaf, mishaps>>

\* Who was told meanwhile that the read loop is gone does not wait.
Written(c) ==
    /\ call[c] = "writing"
    /\ alive /\ ~hungup
    /\ call' = [call EXCEPT ![c] = IF c \in pending THEN "waiting" ELSE "failed"]
    /\ stdin' = Append(stdin, c)
    /\ sent' = Append(sent, c)
    /\ UNCHANGED <<alive, hungup, memory, progress, stdout, answer, pending, reading,
                   streamVars, killed, deaf, mishaps>>

\* A broken pipe: the row is taken back.
WriteFails(c) ==
    /\ call[c] = "writing"
    /\ ~alive \/ hungup
    /\ call' = [call EXCEPT ![c] = "failed"]
    /\ pending' = pending \ {c}
    /\ UNCHANGED <<serverVars, answer, reading, streamVars, sent, killed, deaf, mishaps>>

-----------------------------------------------------------------------------
(* The server                                                              *)

\* Mutant: a write runs beside the loop, too, and a later line overtakes it.
ReadsRequestBeside ==
    /\ alive
    /\ \E i \in 1..Len(stdin) :
        /\ stdin' = RemoveAt(stdin, i)
        /\ LET c == stdin[i] IN
           IF c \in TurnCalls
           THEN /\ progress' = [progress EXCEPT ![c] = Unread + 1]
                /\ UNCHANGED <<memory, stdout>>
           ELSE /\ memory' = memory \cup ({c} \cap Writes)
                /\ stdout' = Append(stdout, Response(c, memory))
                /\ UNCHANGED progress
    /\ UNCHANGED <<alive, hungup, clientVars, streamVars, sent, killed, deaf, mishaps>>

\* Every request but turn/start is served before the next line is read.
ReadsRequest ==
    /\ alive
    /\ stdin # <<>>
    /\ stdin' = Tail(stdin)
    /\ LET c == Head(stdin) IN
       IF c \in TurnCalls
       THEN /\ progress' = [progress EXCEPT ![c] = Unread + 1]
            /\ UNCHANGED <<memory, stdout>>
       ELSE /\ \/ /\ stdout' = Append(stdout, Refusal(c))
                  /\ UNCHANGED memory
               \/ /\ memory' = memory \cup ({c} \cap Writes)
                  /\ stdout' = Append(stdout, Response(c, memory))
            /\ UNCHANGED progress
    /\ UNCHANGED <<alive, hungup, clientVars, streamVars, sent, killed, deaf, mishaps>>

\* A turn sends its notifications, then its answer.
TurnSends(t) ==
    /\ alive
    /\ Running(t)
    /\ IF progress[t] <= Len(TurnFrames(t))
       THEN /\ stdout' = Append(stdout, TurnFrames(t)[progress[t]])
            /\ progress' = [progress EXCEPT ![t] = @ + 1]
       ELSE /\ stdout' = Append(stdout, Response(t, {}))
            /\ progress' = [progress EXCEPT ![t] = Done]
    /\ UNCHANGED <<alive, stdin, hungup, memory, clientVars, streamVars, sent, killed, deaf, mishaps>>

\* No model, bad parameters, a provider that gave up: an error is the answer.
TurnRefused(t) ==
    /\ alive
    /\ Running(t) /\ progress[t] <= Len(TurnFrames(t))
    /\ stdout' = Append(stdout, Refusal(t))
    /\ progress' = [progress EXCEPT ![t] = Done]
    /\ UNCHANGED <<alive, stdin, hungup, memory, clientVars, streamVars, sent, killed, deaf, mishaps>>

\* Mutant: at the end of its input the process exits.
ExitsAtOnce ==
    /\ alive /\ hungup /\ stdin = <<>>
    /\ alive' = FALSE
    /\ progress' = [t \in TurnCalls |-> IF progress[t] = Unread THEN Unread ELSE Done]
    /\ UNCHANGED <<stdin, hungup, memory, stdout, clientVars, streamVars, sent, killed, deaf, mishaps>>

\* At the end of its input the loop lets go of the channel; the writer goes
\* on until the last running turn has let go of it, too.
Exits ==
    /\ alive /\ hungup /\ stdin = <<>>
    /\ \A t \in TurnCalls : ~Running(t)
    /\ alive' = FALSE
    /\ UNCHANGED <<stdin, hungup, memory, progress, stdout, clientVars, streamVars, sent, killed, deaf, mishaps>>

HangsUp ==
    /\ mishaps < MaxMishaps /\ mishaps' = mishaps + 1
    /\ ~hungup
    /\ \A c \in Calls : call[c] \notin {"idle", "writing"}
    /\ hungup' = TRUE
    /\ UNCHANGED <<alive, stdin, memory, progress, stdout, clientVars, streamVars, sent, killed, deaf>>

\* Killed, it takes along what it had not read and not yet written.
Dies ==
    /\ mishaps < MaxMishaps /\ mishaps' = mishaps + 1
    /\ alive
    /\ alive' = FALSE /\ killed' = TRUE
    /\ stdin' = <<>>
    /\ \E n \in 0..Len(stdout) : stdout' = SubSeq(stdout, 1, n)
    /\ progress' = [t \in TurnCalls |-> IF progress[t] = Unread THEN Unread ELSE Done]
    /\ UNCHANGED <<hungup, memory, clientVars, streamVars, sent, deaf>>

-----------------------------------------------------------------------------
(* read_loop and accept                                                    *)

\* A subscriber who has too much unread loses the oldest.
Broadcast(note) ==
    [t \in TurnCalls |->
        IF stream[t].state # "open" THEN stream[t]
        ELSE IF Len(stream[t].queue) < EventBuffer
        THEN [stream[t] EXCEPT !.queue = Append(@, note)]
        ELSE [stream[t] EXCEPT !.queue = Append(Tail(@), note), !.lagged = TRUE]]

Answered(frame) ==
    IF frame.kind = "error" THEN "refused" ELSE "answered"

Accept ==
    /\ reading /\ stdout # <<>>
    /\ stdout' = Tail(stdout)
    /\ LET frame == Head(stdout) IN
       IF frame.kind \in {"response", "error"}
       THEN /\ IF frame.call \in pending
               THEN /\ pending' = pending \ {frame.call}
                    /\ call' = [call EXCEPT ![frame.call] = Answered(frame)]
                    /\ answer' = [answer EXCEPT ![frame.call] =
                                     IF frame.kind = "error" THEN @ ELSE frame.what]
               ELSE UNCHANGED <<pending, call, answer>>
            /\ UNCHANGED stream
       ELSE /\ stream' = Broadcast(frame)
            /\ UNCHANGED <<pending, call, answer>>
    /\ UNCHANGED <<alive, stdin, hungup, memory, progress, reading, shown, unread, sent, killed, deaf,
                   mishaps>>

\* Mutant: the loop ends and leaves the table as it is.
ReadLoopForgets ==
    /\ reading /\ ~alive /\ stdout = <<>>
    /\ reading' = FALSE
    /\ UNCHANGED <<serverVars, call, answer, pending, streamVars, sent, killed, deaf, mishaps>>

\* Everyone in the table is told; who is still writing finds out afterwards.
AllTold ==
    /\ reading' = FALSE
    /\ call' = [c \in Calls |-> IF call[c] = "waiting" THEN "failed" ELSE call[c]]
    /\ pending' = {}

\* The server is gone.
ReadLoopEnds ==
    /\ reading /\ ~alive /\ stdout = <<>>
    /\ AllTold
    /\ UNCHANGED <<serverVars, answer, streamVars, sent, killed, deaf, mishaps>>

\* So the loop ends when it cannot read on, whether or not the server lives;
\* nothing restarts it, and calls are taken as before.
ReadFails ==
    /\ mishaps < MaxMishaps /\ mishaps' = mishaps + 1
    /\ reading
    /\ AllTold
    /\ deaf' = TRUE
    /\ UNCHANGED <<serverVars, answer, streamVars, sent, killed>>

-----------------------------------------------------------------------------
(* forward                                                                 *)

\* Mutant: any turn that starts is taken for this one.
BelongsToAny(note, t) ==
    \/ note.kind = "turnStarted"
    \/ stream[t].known /\ (note.kind = "graph" \/ note.turn = stream[t].turn)

\* The first frame is known by its session, the others by their turn; those
\* without a turn come along once the turn is known.
Belongs(note, t) ==
    \/ note.kind = "turnStarted" /\ SessionOf[note.turn] = SessionOf[t]
    \/ stream[t].known /\ (note.kind = "graph" \/ note.turn = stream[t].turn)

\* The channel to the browser is full, and the task that forwards awaits room
\* in it, and nothing else.
Blocked(t) == unread[t] > TurnBuffer

Sends(t, frame) ==
    /\ shown' = [shown EXCEPT ![t] = Append(@, frame)]
    /\ unread' = [unread EXCEPT ![t] = @ + 1]

ForwardsEvent(t) ==
    /\ stream[t].state = "open" /\ ~Blocked(t) /\ stream[t].queue # <<>>
    /\ LET note == Head(stream[t].queue) IN
       IF Belongs(note, t)
       THEN /\ Sends(t, note)
            /\ stream' = [stream EXCEPT
                   ![t].queue = Tail(@), ![t].known = TRUE,
                   ![t].turn = IF note.kind = "graph" THEN @ ELSE note.turn,
                   ![t].state = IF note.kind = "turnCompleted" THEN "ended" ELSE @]
       ELSE /\ stream' = [stream EXCEPT ![t].queue = Tail(@)]
            /\ UNCHANGED <<shown, unread>>
    /\ UNCHANGED <<serverVars, clientVars, sent, killed, deaf, mishaps>>

\* The answer to turn/start matters only when it is an error.
ForwardsAnswer(t) ==
    /\ stream[t].state = "open" /\ ~Blocked(t) /\ ~stream[t].answered
    /\ \/ /\ call[t] = "answered"
          /\ stream' = [stream EXCEPT ![t].answered = TRUE]
          /\ UNCHANGED <<shown, unread>>
       \/ /\ call[t] \in {"refused", "failed"}
          /\ stream' = [stream EXCEPT ![t].state = "ended"]
          /\ Sends(t, [kind |-> "failure"])
    /\ UNCHANGED <<serverVars, clientVars, sent, killed, deaf, mishaps>>

BrowserReads(t) ==
    /\ unread[t] > 0
    /\ unread' = [unread EXCEPT ![t] = @ - 1]
    /\ UNCHANGED <<serverVars, clientVars, stream, shown, sent, killed, deaf, mishaps>>

\* The tab is closed; the turn runs on.
BrowserLeaves(t) ==
    /\ mishaps < MaxMishaps /\ mishaps' = mishaps + 1
    /\ stream[t].state = "open" \/ (stream[t].state = "ended" /\ Blocked(t))
    /\ stream' = [stream EXCEPT ![t].state = "left", ![t].queue = <<>>]
    /\ unread' = [unread EXCEPT ![t] = 0]
    /\ UNCHANGED <<serverVars, clientVars, shown, sent, killed, deaf>>

-----------------------------------------------------------------------------
ServerNext ==
    ReadsRequest \/ Exits \/ \E t \in TurnCalls : TurnSends(t) \/ TurnRefused(t)

ClientNext ==
    \/ \E c \in Calls : Written(c) \/ WriteFails(c)
    \/ Accept \/ ReadLoopEnds
    \/ \E t \in TurnCalls : ForwardsEvent(t) \/ ForwardsAnswer(t)

World ==
    \/ HangsUp \/ Dies \/ ReadFails
    \/ \E c \in Calls : Calling(c)
    \/ \E t \in TurnCalls : BrowserReads(t) \/ BrowserLeaves(t)

WireNext == ServerNext \/ ClientNext \/ World

WireSpec == WireInit /\ [][WireNext]_wireVars

\* Both processes run, and so does every task whose await is over.  Nobody has
\* to call, hang up or leave, no browser to read, and no turn to go on: what
\* may hold a turn up is TurnEngine's business.
WireFairness ==
    /\ WF_wireVars(ReadsRequest) /\ WF_wireVars(Exits)
    /\ WF_wireVars(Accept) /\ WF_wireVars(ReadLoopEnds)
    /\ \A c \in Calls : WF_wireVars(Written(c) \/ WriteFails(c))
    /\ \A t \in TurnCalls : WF_wireVars(ForwardsEvent(t)) /\ WF_wireVars(ForwardsAnswer(t))

-----------------------------------------------------------------------------
(***************************************************************************)
(* Requests take effect in the order they were sent: what is written       *)
(* before is found by what is asked after, while turns run beside them     *)
(* (run_stdio).                                                            *)
(***************************************************************************)
Before(c) == {sent[i] : i \in {j \in 1..Len(sent) : \E k \in j + 1..Len(sent) : sent[k] = c}}

ReadsSeeEarlierWrites ==
    \A c \in Reads : call[c] = "answered" =>
        /\ answer[c] \subseteq Before(c)
        /\ \A w \in Writes \cap Before(c) : call[w] = "answered" => w \in answer[c]

(***************************************************************************)
(* A stream shows its own turn and no other, from the start, in order and  *)
(* nothing twice, unless it lagged (forward, belongs).                     *)
(***************************************************************************)
OfATurn(frame) == frame.kind \in {"turnStarted", "turnCompleted"}

StreamsTellTheirTurn ==
    \A t \in TurnCalls : ~stream[t].lagged =>
        \A j \in 1..Len(shown[t]) : OfATurn(shown[t][j]) =>
            /\ shown[t][j].turn = t
            /\ IF shown[t][j].kind = "turnStarted"
               THEN \A i \in 1..j - 1 : ~OfATurn(shown[t][i])
               ELSE /\ \E i \in 1..j - 1 : shown[t][i].kind = "turnStarted"
                    /\ \A i \in 1..j - 1 : shown[t][i].kind # "turnCompleted"

(***************************************************************************)
(* Every request that reached the server is answered, also after its input *)
(* has ended, unless it was killed or nobody could read what it wrote      *)
(* (run_stdio, handle, read_loop).                                         *)
(***************************************************************************)
AnsweredUnlessKilled ==
    \A c \in Calls : call[c] = "failed" /\ ~killed /\ ~deaf => c \notin Range(sent)

(***************************************************************************)
(* Whoever calls is in the end answered or told that there is no answer,   *)
(* whenever the server goes and whoever else is held up (AppServer::call,  *)
(* read_loop), unless its own turn goes on for ever or it called after the *)
(* client had stopped reading.  And a stream comes to its end (forward),   *)
(* unless that is so, it lagged, or its browser no longer reads.           *)
(***************************************************************************)
Unheard(c) == deaf /\ c \in pending
GoesOn(c) == c \in TurnCalls /\ Running(c)

NobodyWaitsForever ==
    /\ \A c \in Calls : <>[](call[c] # "waiting" \/ Unheard(c) \/ GoesOn(c))
    /\ \A t \in TurnCalls :
           <>[](\/ stream[t].state # "open"
               \/ Unheard(t) \/ GoesOn(t) \/ stream[t].lagged \/ Blocked(t))
=============================================================================
