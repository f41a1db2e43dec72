------------------------------ MODULE McpProofs ------------------------------
(***************************************************************************)
(* What callers of one MCP session can rely on, for any number of callers, *)
(* any threshold of the breaker, any server and any entry of mcp.json.     *)
(***************************************************************************)
EXTENDS Mcp, SequenceTheorems, FiniteSetTheorems, TLAPS

Stages == {"idle", "queued", "writing", "notifying", "replying", "reading", "posting",
           "opened", "record", "done"}
Methods == {"none", "initialize", "tools/list", "tools/call"}
Kinds == Methods \cup {"junk", "notification", "declined", "answer", "refusal", "notice", "reverse"}

\* An id belongs to the task that sends it, or to none that is still waiting.
Owned(msg) ==
    /\ msg.id < nextId
    /\ \A t \in Tasks : id[t] = msg.id => msg.to = t

Message == [kind : Kinds, id : Nat, to : Tasks]
Outbound == {msg \in Message : msg.kind \in {"junk", "notification", "declined"} \/ Owned(msg)}
Inbound ==
    {msg \in Message :
        /\ msg.kind \in {"junk", "answer", "refusal", "notice", "reverse"}
        /\ msg.kind = "answer" => Owned(msg)
        /\ msg.kind = "notice" => msg.id = 0
        /\ msg.kind = "reverse" => msg.id \in ReverseIds}

Numbered ==
    /\ pc \in [Tasks -> Stages]
    /\ asks \in [Tasks -> Methods]
    /\ id \in [Tasks -> Nat]
    /\ nextId \in Nat \ {0}
    /\ \A t \in Tasks : id[t] < nextId
    /\ \A t, u \in Tasks : id[t] = id[u] /\ id[t] # 0 => t = u
    /\ \A t \in Tasks : pc[t] \in {"writing", "reading", "replying"} => id[t] # 0


\* Nobody has a result before asking, and a result is one's own.
Addressed ==
    /\ got \in [Tasks -> Tasks \cup Results]
    /\ \A c \in Callers : pc[c] \in {"idle", "queued"} => got[c] = "nothing"
    /\ AnswersReachTheirCall

Lines == toServer \in Seq(Outbound) /\ toClient \in Seq(Inbound)

AInv == Numbered /\ Addressed /\ Lines

\* As long as ids stay, so does what may be in the pipes.
LEMMA SameIds ==
    ASSUME UNCHANGED <<id, nextId>>
    PROVE  Outbound' = Outbound /\ Inbound' = Inbound
BY DEF Outbound, Inbound, Owned

LEMMA JunkIsHarmless == Junk \in Message /\ Junk \in Outbound /\ Junk \in Inbound
<1>1. Junk \in Message
    BY DEF Junk, Message, Kinds, Tasks
<1>2. Junk.kind = "junk"
    BY DEF Junk
<1> QED
    BY <1>1, <1>2 DEF Outbound, Inbound

LEMMA ResultsAreNoTasks ==
    \A r \in Results : r \notin Tasks
BY SessionAssumption

\* A new request: no line in the pipes has its number, no task either.
LEMMA NewIdIsFresh ==
    ASSUME Numbered, NEW t \in Tasks,
           id' = [id EXCEPT ![t] = nextId], nextId' = nextId + 1
    PROVE  /\ Outbound \subseteq Outbound' /\ Inbound \subseteq Inbound'
           /\ id' \in [Tasks -> Nat] /\ nextId' \in Nat \ {0}
           /\ \A u \in Tasks : id'[u] < nextId'
           /\ \A u, v \in Tasks : id'[u] = id'[v] /\ id'[u] # 0 => u = v
           /\ id'[t] # 0
<1>1. ASSUME NEW msg \in Message, Owned(msg) PROVE Owned(msg)'
    <2>1. msg.id \in Nat /\ msg.id < nextId /\ nextId \in Nat
        BY <1>1 DEF Message, Owned, Numbered, Stages, Methods
    <2>2. \A u \in Tasks : id'[u] = IF u = t THEN nextId ELSE id[u]
        BY DEF Numbered, Stages, Methods
    <2> QED
        BY <1>1, <2>1, <2>2 DEF Owned
<1>2. Outbound \subseteq Outbound' /\ Inbound \subseteq Inbound'
    BY <1>1 DEF Outbound, Inbound
<1>3. \A u \in Tasks : id'[u] = IF u = t THEN nextId ELSE id[u]
    BY DEF Numbered, Stages, Methods
<1> QED
    BY <1>2, <1>3 DEF Numbered, Stages, Methods

\* Steps that leave ids, results and pipes alone and move some task.
LEMMA MovesKeepAnswers ==
    ASSUME AInv, UNCHANGED <<asks, id, got, nextId, toServer, toClient>>,
           pc' \in [Tasks -> Stages],
           \A t \in Tasks : pc'[t] \in {"writing", "reading", "replying"} => id[t] # 0,
           \A c \in Callers : pc'[c] \in {"idle", "queued"} => pc[c] \in {"idle", "queued"}
    PROVE  AInv'
<1>1. Numbered'
    BY DEF AInv, Numbered, Stages, Methods
<1>2. Addressed'
    BY DEF AInv, Addressed, AnswersReachTheirCall
<1>3. Lines'
    BY SameIds DEF AInv, Lines
<1> QED
    BY <1>1, <1>2, <1>3 DEF AInv

\* Steps at the pipes that leave every task where it is.
LEMMA LinesKeepAnswers ==
    ASSUME AInv, UNCHANGED <<pc, asks, id, got, nextId>>,
           toServer' \in Seq(Outbound), toClient' \in Seq(Inbound)
    PROVE  AInv'
<1>1. Numbered' /\ Addressed'
    BY DEF AInv, Numbered, Addressed, AnswersReachTheirCall, Stages, Methods
<1>2. Lines'
    BY SameIds DEF Lines
<1> QED
    BY <1>1, <1>2 DEF AInv

\* A task comes out with what may be its own.
LEMMA LeavingKeepsAnswers ==
    ASSUME AInv, NEW t \in Tasks, NEW what \in {t, "error", "timeout", "dropped", "skipped", "empty"},
           what = "empty" => id[t] \in ReverseIds,
           NEW to \in {"opened", "record", "done"},
           UNCHANGED <<asks, id, nextId>>,
           got' = [got EXCEPT ![t] = what], pc' = [pc EXCEPT ![t] = to],
           toServer' \in Seq(Outbound), toClient' \in Seq(Inbound)
    PROVE  AInv'
<1>0. pc' \in [Tasks -> Stages] /\ \A u \in Tasks : pc'[u] = IF u = t THEN to ELSE pc[u]
    BY DEF AInv, Numbered, Stages
<1>1. Numbered'
    BY <1>0 DEF AInv, Numbered, Stages, Methods
<1>2. what \in Tasks \cup Results /\ (what \in Tasks => what = t)
    BY ResultsAreNoTasks DEF Results
<1>3. got' \in [Tasks -> Tasks \cup Results]
    BY <1>2 DEF AInv, Addressed
<1>4. Addressed'
    BY <1>2, <1>3 DEF AInv, Addressed, AnswersReachTheirCall, Numbered, Tasks, Stages, Methods
<1>5. Lines'
    BY SameIds DEF Lines
<1> QED
    BY <1>1, <1>4, <1>5 DEF AInv

LEMMA AnswersAtTheStart == Init => AInv
<1> SUFFICES ASSUME Init PROVE AInv
    OBVIOUS
<1>1. Numbered
    BY DEF Init, SessionInit, Numbered, Stages, Methods
<1>2. Addressed
    <2>1. \A t \in Tasks : got[t] = "nothing"
        BY DEF Init, SessionInit
    <2>2. got \in [Tasks -> Tasks \cup Results]
        BY DEF Init, SessionInit, Results
    <2> QED
        BY <2>1, <2>2, ResultsAreNoTasks DEF Addressed, AnswersReachTheirCall, Results, Tasks
<1>3. Lines
    BY DEF Init, SessionInit, Lines
<1> QED
    BY <1>1, <1>2, <1>3 DEF AInv

LEMMA SentIsOutbound ==
    ASSUME toServer \in Seq(Outbound), NEW msg \in Outbound, Sent(msg)
    PROVE  toServer' \in Seq(Outbound)
BY JunkIsHarmless, AppendProperties DEF Sent

LEMMA LeavesKeepsAnswers ==
    ASSUME AInv, NEW t \in Tasks, NEW what \in {t, "error", "timeout", "empty"},
           what = "empty" => id[t] \in ReverseIds,
           Leaves(t, what), nextId' = nextId,
           toServer' \in Seq(Outbound), toClient' \in Seq(Inbound)
    PROVE  AInv'
<1> DEFINE to == IF t = Boot THEN "opened" ELSE "record"
<1>1. pc' = [pc EXCEPT ![t] = to] /\ to \in {"opened", "record", "done"}
    BY DEF Leaves
<1>2. UNCHANGED <<asks, id, nextId>> /\ got' = [got EXCEPT ![t] = what]
    BY DEF Leaves
<1> HIDE DEF to
<1> QED
    BY <1>1, <1>2, LeavingKeepsAnswers

\* Half a line on either pipe is junk.
LEMMA SeveredKeepsLines ==
    ASSUME toServer \in Seq(Outbound), toClient \in Seq(Inbound), NEW t \in Tasks, Severed(t)
    PROVE  toServer' \in Seq(Outbound) /\ toClient' \in Seq(Inbound) /\ nextId' = nextId
<1>1. CASE toClient' = toClient
    BY <1>1 DEF Severed
<1>2. CASE toClient # <<>> /\ toClient' = <<Junk>> \o Tail(toClient)
    <2>1. <<Junk>> \in Seq(Inbound) /\ Tail(toClient) \in Seq(Inbound)
        BY <1>2, JunkIsHarmless, HeadTailProperties
    <2> QED
        BY <1>2, <2>1, ConcatProperties DEF Severed
<1> QED
    BY <1>1, <1>2 DEF Severed

-----------------------------------------------------------------------------
(* The session, action by action                                           *)

LEMMA TransportKeepsAnswers ==
    ASSUME AInv, NEW t \in Tasks, Transports(t)
    PROVE  AInv'
<1>0. /\ toServer \in Seq(Outbound) /\ toClient \in Seq(Inbound)
      /\ pc \in [Tasks -> Stages] /\ id \in [Tasks -> Nat] /\ asks \in [Tasks -> Methods]
    BY DEF AInv, Lines, Numbered, Stages, Methods
<1>1. CASE Writes(t)
    <2>1. pc[t] = "writing" /\ pc' = [pc EXCEPT ![t] = "reading"] /\ Sent(Request(t))
          /\ UNCHANGED <<asks, id, got, nextId, toClient>>
        BY <1>1 DEF Writes, Goto
    <2>2. Request(t) \in Outbound
        <3>1. Request(t) \in Message /\ Request(t).id = id[t] /\ Request(t).to = t
            BY <1>0 DEF Request, Message, Kinds
        <3>2. id[t] # 0
            BY <2>1 DEF AInv, Numbered, Stages, Methods
        <3> QED
            BY <3>1, <3>2 DEF Outbound, Owned, AInv, Numbered, Stages, Methods
    <2>3. toServer' \in Seq(Outbound)
        BY <1>0, <2>1, <2>2, SentIsOutbound
    <2>4. Numbered'
        BY <2>1 DEF AInv, Numbered, Stages, Methods
    <2>5. Addressed'
        BY <1>0, <2>1 DEF AInv, Addressed, AnswersReachTheirCall, Tasks
    <2>6. Lines'
        BY <1>0, <2>1, <2>3, SameIds DEF Lines
    <2> QED
        BY <2>4, <2>5, <2>6 DEF AInv
<1>2. CASE ServerIsGone(t)
    BY <1>0, <1>2, LeavesKeepsAnswers DEF ServerIsGone, line
<1>3. CASE Reads(t)
    <2> DEFINE msg == Head(toClient)
    <2>1. /\ pc[t] = "reading" /\ toClient # <<>>
          /\ Matches(t, msg) /\ Leaves(t, Received(msg))
          /\ toClient' = Tail(toClient) /\ UNCHANGED <<nextId, toServer>>
        BY <1>3 DEF Reads
    <2>2. msg \in Inbound /\ toClient' \in Seq(Inbound)
        BY <1>0, <2>1, HeadTailProperties
    <2> HIDE DEF msg
    <2>3. msg.id = id[t] /\ id[t] # 0 /\ msg.kind \in {"answer", "refusal", "notice", "reverse"}
        BY <2>1, <2>2 DEF Matches, Inbound, AInv, Numbered, Stages, Methods
    <2>4. CASE msg.kind = "answer"
        <3>1. Received(msg) = t
            BY <2>2, <2>3, <2>4 DEF Received, Inbound, Owned
        <3>2. t = "empty" => id[t] \in ReverseIds
            BY ResultsAreNoTasks DEF Results
        <3> QED
            BY <1>0, <2>1, <2>2, <3>1, <3>2, LeavesKeepsAnswers
    <2>5. CASE msg.kind = "refusal"
        <3>1. Received(msg) = "error"
            BY <2>5 DEF Received
        <3> QED
            BY <1>0, <2>1, <2>2, <3>1, LeavesKeepsAnswers
    <2>6. CASE msg.kind \in {"notice", "reverse"}
        <3>1. Received(msg) = "empty" /\ id[t] \in ReverseIds
            BY <2>2, <2>3, <2>6 DEF Received, Inbound
        <3> QED
            BY <1>0, <2>1, <2>2, <3>1, LeavesKeepsAnswers
    <2> QED
        BY <2>3, <2>4, <2>5, <2>6
<1>4. CASE PassesOver(t)
    <2>1. /\ pc[t] = "reading"
          /\ UNCHANGED <<asks, id, got, nextId, toServer>>
          /\ \E to \in {"replying", "reading"} : pc' = [pc EXCEPT ![t] = to]
          /\ toClient' \in Seq(Inbound)
        BY <1>0, <1>4, HeadTailProperties DEF PassesOver
    <2>2. PICK to \in {"replying", "reading"} : pc' = [pc EXCEPT ![t] = to]
        BY <2>1
    <2>3. pc' \in [Tasks -> Stages] /\ \A u \in Tasks : pc'[u] = IF u = t THEN to ELSE pc[u]
        BY <1>0, <2>2 DEF Stages
    <2>4. Numbered'
        BY <2>1, <2>3 DEF AInv, Numbered, Stages, Methods
    <2>5. Addressed'
        BY <2>1, <2>3 DEF AInv, Addressed, AnswersReachTheirCall, Tasks
    <2>6. Lines'
        BY <1>0, <2>1, SameIds DEF Lines
    <2> QED
        BY <2>4, <2>5, <2>6 DEF AInv
<1>5. CASE Declines(t)
    <2> DEFINE msg == [kind |-> "declined", id |-> 0, to |-> t]
    <2>1. pc[t] = "replying" /\ pc' = [pc EXCEPT ![t] = "reading"] /\ Sent(msg)
          /\ UNCHANGED <<asks, id, got, nextId, toClient>>
        BY <1>5 DEF Declines, Goto
    <2>2. msg \in Outbound
        BY DEF Outbound, Message, Kinds
    <2> HIDE DEF msg
    <2>3. toServer' \in Seq(Outbound)
        BY <1>0, <2>1, <2>2, SentIsOutbound
    <2>4. Numbered'
        BY <2>1 DEF AInv, Numbered, Stages, Methods
    <2>5. Addressed'
        BY <1>0, <2>1 DEF AInv, Addressed, AnswersReachTheirCall, Tasks
    <2>6. Lines'
        BY <1>0, <2>1, <2>3, SameIds DEF Lines
    <2> QED
        BY <2>4, <2>5, <2>6 DEF AInv
<1>6. CASE Posts(t)
    <2>1. /\ pc[t] = "writing" /\ pc' = [pc EXCEPT ![t] = "posting"]
          /\ UNCHANGED <<asks, id, got, nextId, toServer, toClient>>
        BY <1>6 DEF Posts, Goto, line
    <2> QED
        BY <1>0, <2>1, MovesKeepAnswers DEF AInv, Numbered, Tasks, Stages, Methods
<1>7. CASE PostAnswered(t)
    <2>1. PICK what \in {t, "error"} : Leaves(t, what)
        BY <1>7 DEF PostAnswered
    <2>2. UNCHANGED <<nextId, toServer, toClient>>
        BY <1>7 DEF PostAnswered, line
    <2>3. what # "empty"
        BY ResultsAreNoTasks DEF Results
    <2> QED
        BY <1>0, <2>1, <2>2, <2>3, LeavesKeepsAnswers
<1>8. CASE TimesOut(t)
    BY <1>0, <1>8, SeveredKeepsLines, LeavesKeepsAnswers DEF TimesOut, Severed
<1> QED
    BY <1>1, <1>2, <1>3, <1>4, <1>5, <1>6, <1>7, <1>8 DEF Transports, Piped, Posted

\* Callers and the transport lock.
LEMMA CallKeepsAnswers ==
    ASSUME AInv, NEW c \in Callers, CallSteps(c)
    PROVE  AInv'
<1>0. /\ toServer \in Seq(Outbound) /\ toClient \in Seq(Inbound) /\ c \in Tasks
      /\ pc \in [Tasks -> Stages] /\ got \in [Tasks -> Tasks \cup Results]
      /\ asks \in [Tasks -> Methods]
    BY DEF AInv, Lines, Numbered, Addressed, Tasks, Stages, Methods
<1>1. CASE Skipped(c)
    <2>1. /\ pc' = [pc EXCEPT ![c] = "done"] /\ got' = [got EXCEPT ![c] = "skipped"]
          /\ UNCHANGED <<asks, id, nextId, toServer, toClient>>
        BY <1>1 DEF Skipped, Goto, line
    <2> QED
        BY <1>0, <2>1, LeavingKeepsAnswers
<1>2. CASE LetThrough(c)
    <2>1. /\ pc[c] = "idle" /\ pc' = [pc EXCEPT ![c] = "queued"]
          /\ asks' = [asks EXCEPT ![c] = "tools/call"]
          /\ UNCHANGED <<id, got, nextId, toServer, toClient>>
        BY <1>2 DEF LetThrough, Goto, line
    <2>2. Numbered'
        BY <1>0, <2>1 DEF AInv, Numbered, Stages, Methods
    <2>3. Addressed'
        BY <1>0, <2>1 DEF AInv, Addressed, AnswersReachTheirCall, Tasks
    <2>4. Lines'
        BY <1>0, <2>1, SameIds DEF Lines
    <2> QED
        BY <2>2, <2>3, <2>4 DEF AInv
<1>3. CASE Take(c)
    <2>1. /\ pc[c] = "queued" /\ pc' = [pc EXCEPT ![c] = "writing"]
          /\ id' = [id EXCEPT ![c] = nextId] /\ nextId' = nextId + 1
          /\ UNCHANGED <<asks, got, toServer, toClient>>
        BY <1>3 DEF Take, Goto
    <2>2. Numbered'
        BY <1>0, <2>1, NewIdIsFresh DEF AInv, Numbered, Stages, Methods
    <2>3. \A t \in Tasks : t # c => id'[t] = id[t]
        BY <2>1 DEF AInv, Numbered, Stages, Methods
    <2>4. got[c] = "nothing"
        BY <2>1 DEF AInv, Addressed
    <2>5. Addressed'
        BY <1>0, <2>1, <2>3, <2>4 DEF AInv, Addressed, AnswersReachTheirCall, Tasks
    <2>6. Lines'
        BY <1>0, <2>1, NewIdIsFresh, SeqMonotonic DEF AInv, Lines
    <2> QED
        BY <2>2, <2>5, <2>6 DEF AInv
<1>4. CASE Record(c)
    <2>1. /\ pc' = [pc EXCEPT ![c] = "done"]
          /\ UNCHANGED <<asks, id, got, nextId, toServer, toClient>>
        BY <1>4 DEF Record, Goto, line
    <2> QED
        BY <1>0, <2>1, MovesKeepAnswers DEF AInv, Numbered, Tasks, Stages, Methods
<1> QED
    BY <1>1, <1>2, <1>3, <1>4 DEF CallSteps

LEMMA DroppingKeepsAnswers ==
    ASSUME AInv, NEW c \in Callers, Interrupted(c)
    PROVE  AInv'
<1>1. /\ pc' = [pc EXCEPT ![c] = "done"] /\ got' = [got EXCEPT ![c] = "dropped"]
      /\ UNCHANGED <<asks, id>> /\ Severed(c) /\ c \in Tasks
    BY DEF Interrupted, Dropped, Tasks
<1>2. /\ toServer' \in Seq(Outbound) /\ toClient' \in Seq(Inbound) /\ nextId' = nextId
    BY <1>1, SeveredKeepsLines DEF AInv, Lines
<1> QED
    BY <1>1, <1>2, LeavingKeepsAnswers

\* The other end answers what it was asked, in any order, or speaks up.
LEMMA ReplyIsInbound ==
    ASSUME NEW msg \in Outbound, NEW reply \in JoyAnswer(msg)
    PROVE  reply \in Seq(Inbound)
<1>1. CASE msg.kind = "junk"
    <2>1. reply = <<Junk>>
        BY <1>1 DEF JoyAnswer
    <2> QED
        BY <2>1, JunkIsHarmless
<1>2. CASE msg.kind \in {"notification", "declined"}
    BY <1>2 DEF JoyAnswer
<1>3. CASE msg.kind \notin {"junk", "notification", "declined"}
    <2>1. PICK k \in {"answer", "refusal"} : reply = <<[kind |-> k, id |-> msg.id, to |-> msg.to]>>
        BY <1>3 DEF JoyAnswer
    <2>2. [kind |-> k, id |-> msg.id, to |-> msg.to] \in Inbound
        BY <1>3 DEF Outbound, Inbound, Message, Kinds, Owned
    <2> QED
        BY <2>1, <2>2
<1> QED
    BY <1>1, <1>2, <1>3

LEMMA ServerKeepsAnswers ==
    ASSUME AInv, ServerSteps
    PROVE  AInv'
<1>0. toServer \in Seq(Outbound) /\ toClient \in Seq(Inbound)
    BY DEF AInv, Lines
<1>1. CASE ServesLine
    <2>1. Head(toServer) \in Outbound /\ Tail(toServer) \in Seq(Outbound)
        BY <1>0, <1>1, HeadTailProperties DEF ServesLine
    <2>2. PICK reply \in JoyAnswer(Head(toServer)) : toClient' = toClient \o reply
        BY <1>1 DEF ServesLine
    <2>3. reply \in Seq(Inbound)
        BY <2>1, ReplyIsInbound
    <2>4. toClient' \in Seq(Inbound) /\ toServer' \in Seq(Outbound)
        BY <1>0, <1>1, <2>1, <2>2, <2>3, ConcatProperties DEF ServesLine
    <2> QED
        BY <1>1, <2>4, LinesKeepAnswers DEF ServesLine
<1>2. CASE ServesLater
    <2>1. PICK i \in 2..Len(toServer) :
              /\ \E reply \in JoyAnswer(toServer[i]) : toClient' = toClient \o reply
              /\ toServer' = RemoveAt(toServer, i)
        BY <1>2 DEF ServesLater
    <2>2. PICK reply \in JoyAnswer(toServer[i]) : toClient' = toClient \o reply
        BY <2>1
    <2>3. toServer[i] \in Outbound
        BY <1>0, <2>1, ElementOfSeq
    <2>4. reply \in Seq(Inbound)
        BY <2>3, ReplyIsInbound
    <2>5. toClient' \in Seq(Inbound)
        BY <1>0, <2>2, <2>4, ConcatProperties
    <2>6. SubSeq(toServer, 1, i - 1) \in Seq(Outbound)
          /\ SubSeq(toServer, i + 1, Len(toServer)) \in Seq(Outbound)
        BY <1>0
    <2>7. toServer' \in Seq(Outbound)
        BY <2>1, <2>6, ConcatProperties DEF RemoveAt
    <2> QED
        BY <1>2, <2>5, <2>7, LinesKeepAnswers DEF ServesLater
<1>3. CASE Speaks
    <2>1. PICK msg \in {Junk, [kind |-> "notice", id |-> 0, to |-> Boot]}
                           \cup [kind : {"reverse"}, id : ReverseIds, to : {Boot}] :
              toClient' = Append(toClient, msg)
        BY <1>3 DEF Speaks
    <2>2. msg \in Inbound
        <3>1. CASE msg = Junk
            BY <3>1, JunkIsHarmless
        <3>2. CASE msg = [kind |-> "notice", id |-> 0, to |-> Boot]
            BY <3>2 DEF Inbound, Message, Kinds, Tasks
        <3>3. CASE msg \in [kind : {"reverse"}, id : ReverseIds, to : {Boot}]
            BY <3>3, SessionAssumption DEF Inbound, Message, Kinds, Tasks
        <3> QED
            BY <2>1, <3>1, <3>2, <3>3
    <2>3. toClient' \in Seq(Inbound)
        BY <1>0, <2>1, <2>2, AppendProperties
    <2> QED
        BY <1>0, <1>3, <2>3, LinesKeepAnswers DEF Speaks
<1>4. CASE Dies
    BY <1>0, <1>4, LinesKeepAnswers DEF Dies
<1> QED
    BY <1>1, <1>2, <1>3, <1>4 DEF ServerSteps

\* Opening the connection: two requests of the same task.
LEMMA AskingKeepsAnswers ==
    ASSUME AInv, NEW method \in Methods, Asks(method),
           toServer' \in Seq(Outbound), UNCHANGED toClient
    PROVE  AInv'
<1>1. /\ asks' = [asks EXCEPT ![Boot] = method]
      /\ id' = [id EXCEPT ![Boot] = nextId] /\ nextId' = nextId + 1
      /\ got' = [got EXCEPT ![Boot] = "nothing"]
      /\ pc' = [pc EXCEPT ![Boot] = "writing"] /\ Boot \in Tasks
    BY DEF Asks, Tasks
<1>2. Numbered'
    BY <1>1, NewIdIsFresh DEF AInv, Numbered, Stages, Methods
<1>3. \A t \in Tasks : t # Boot => id'[t] = id[t]
    BY <1>1 DEF AInv, Numbered, Stages, Methods
<1>4. got' \in [Tasks -> Tasks \cup Results]
    BY <1>1 DEF AInv, Addressed, Results
<1>5. Addressed'
    BY <1>1, <1>3, <1>4, SessionAssumption, ResultsAreNoTasks
       DEF AInv, Addressed, AnswersReachTheirCall, Results, Tasks, Numbered, Stages, Methods
<1>6. Lines'
    BY <1>1, NewIdIsFresh, SeqMonotonic DEF AInv, Lines
<1> QED
    BY <1>2, <1>5, <1>6 DEF AInv

LEMMA BootsKeepAnswers ==
    ASSUME AInv, Boots
    PROVE  AInv'
<1>0. /\ toServer \in Seq(Outbound) /\ toClient \in Seq(Inbound) /\ Boot \in Tasks
      /\ pc \in [Tasks -> Stages]
    BY DEF AInv, Lines, Numbered, Tasks, Stages, Methods
<1>1. CASE Resolves \/ NotSignedIn
    <2>1. UNCHANGED <<pc, asks, id, got, nextId, toServer, toClient>>
        BY <1>1 DEF Resolves, NotSignedIn, sessionVars, line
    <2> QED
        BY <1>0, <2>1, LinesKeepAnswers
<1>2. CASE Opens
    <2>1. CASE Asks("initialize")
        BY <1>0, <1>2, <2>1, AskingKeepsAnswers DEF Opens, Methods
    <2>2. CASE UNCHANGED <<pc, asks, id, got, nextId>>
        BY <1>0, <1>2, <2>2, LinesKeepAnswers DEF Opens
    <2> QED
        BY <1>2, <2>1, <2>2 DEF Opens
<1>3. CASE Initialized
    <2>1. pc' = [pc EXCEPT ![Boot] = "notifying"]
          /\ UNCHANGED <<asks, id, got, nextId, toServer, toClient>>
        BY <1>3 DEF Initialized, line
    <2> QED
        BY <1>0, <2>1, MovesKeepAnswers DEF AInv, Numbered, Tasks, Stages, Methods
<1>4. CASE Notifies
    <2> DEFINE msg == [kind |-> "notification", id |-> 0, to |-> Boot]
    <2>1. Asks("tools/list") /\ (Sent(msg) \/ UNCHANGED toServer) /\ UNCHANGED toClient
        BY <1>4 DEF Notifies
    <2>2. msg \in Outbound
        BY <1>0 DEF Outbound, Message, Kinds
    <2> HIDE DEF msg
    <2>3. toServer' \in Seq(Outbound)
        BY <1>0, <2>1, <2>2, SentIsOutbound
    <2> QED
        BY <2>1, <2>3, AskingKeepsAnswers DEF Methods
<1>5. CASE Connected
    <2>1. pc' = [pc EXCEPT ![Boot] = "done"]
          /\ UNCHANGED <<asks, id, got, nextId, toServer, toClient>>
        BY <1>5 DEF Connected, line
    <2> QED
        BY <1>0, <2>1, MovesKeepAnswers DEF AInv, Numbered, Tasks, Stages, Methods
<1>6. CASE GivesUp
    <2>1. /\ pc' = [pc EXCEPT ![Boot] = "done"] /\ toServer' = <<>> /\ toClient' = <<>>
          /\ UNCHANGED <<asks, id, got, nextId>>
        BY <1>6 DEF GivesUp
    <2>2. Numbered'
        BY <1>0, <2>1 DEF AInv, Numbered, Stages, Methods
    <2>3. Addressed'
        BY <1>0, <2>1 DEF AInv, Addressed, AnswersReachTheirCall, Tasks
    <2>4. Lines'
        BY <2>1 DEF Lines
    <2> QED
        BY <2>2, <2>3, <2>4 DEF AInv
<1> QED
    BY <1>1, <1>2, <1>3, <1>4, <1>5, <1>6 DEF Boots

LEMMA StepKeepsAnswers == AInv /\ [Next]_vars => AInv'
<1> SUFFICES ASSUME AInv, [Next]_vars PROVE AInv'
    OBVIOUS
<1>1. ASSUME UNCHANGED <<pc, asks, id, got, nextId, toServer, toClient>> PROVE AInv'
    BY <1>1, LinesKeepAnswers DEF AInv, Lines
<1>2. CASE Cooling \/ AuthSteps \/ Settled \/ UNCHANGED vars
    BY <1>1, <1>2 DEF Cooling, Cools, AuthSteps, Settled, vars, sessionVars, line
<1> QED
    BY <1>2, BootsKeepAnswers, TransportKeepsAnswers, CallKeepsAnswers, DroppingKeepsAnswers,
       ServerKeepsAnswers DEF Next

(***************************************************************************)
(* Whoever times out, is interrupted or dies, and whatever order a server  *)
(* answers in: a call comes back with its own answer, a failure, or -- if  *)
(* the server asked something under its number -- an empty result          *)
(* (StdioSession::request, Connection::call).                              *)
(***************************************************************************)
THEOREM NoAnswerGoesAstray == Spec => []AnswersReachTheirCall
<1>1. AInv => AnswersReachTheirCall
    BY DEF AInv, Addressed
<1> QED
    BY <1>1, AnswersAtTheStart, StepKeepsAnswers, PTL DEF Spec
-----------------------------------------------------------------------------
(* The breaker                                                             *)

\* The count of failures is a count of what was recorded last.
BInv ==
    /\ breaker \in [fails : Nat, open : {"none", "ahead", "past"}]
    /\ records \in Seq(Tasks \cup Results)
    /\ breaker.fails <= Len(records)
    /\ \A i \in Len(records) - breaker.fails + 1..Len(records) : records[i] \in {"error", "timeout"}
    /\ breaker.open # "none" => breaker.fails >= Failures

LEMMA BreakerAtTheStart == Init => BInv
BY DEF Init, SessionInit, BInv

LEMMA RecordKeepsBreaker ==
    ASSUME BInv, NEW c \in Callers, Record(c), got[c] \in Tasks \cup Results
    PROVE  BInv'
<1> DEFINE r == got[c]
<1>1. breaker' = Recorded(r \notin {"error", "timeout"}) /\ records' = Append(records, r)
    BY DEF Record
<1>2. /\ records' \in Seq(Tasks \cup Results) /\ Len(records) \in Nat
      /\ Len(records') = Len(records) + 1
      /\ records'[Len(records) + 1] = r
      /\ \A i \in 1..Len(records) : records'[i] = records[i]
    BY <1>1, AppendProperties, LenProperties DEF BInv
<1> HIDE DEF r
<1>3. CASE r \notin {"error", "timeout"}
    <2>1. breaker' = [fails |-> 0, open |-> "none"]
        BY <1>1, <1>3 DEF Recorded
    <2> QED
        BY <1>2, <2>1 DEF BInv
<1>4. CASE r \in {"error", "timeout"}
    <2>1. breaker' = [fails |-> breaker.fails + 1,
                      open |-> IF breaker.fails + 1 >= Failures THEN "ahead" ELSE breaker.open]
        BY <1>1, <1>4 DEF Recorded
    <2>2. breaker' \in [fails : Nat, open : {"none", "ahead", "past"}]
          /\ breaker'.fails = breaker.fails + 1 /\ breaker.fails \in Nat
        BY <2>1 DEF BInv
    <2>3. breaker'.open # "none" => breaker'.fails >= Failures
        BY <2>1, <2>2, SessionAssumption DEF BInv
    <2>4. ASSUME NEW i \in Len(records') - breaker'.fails + 1..Len(records')
          PROVE  records'[i] \in {"error", "timeout"}
        <3>1. /\ i = Len(records) + 1
                 \/ i \in Len(records) - breaker.fails + 1..Len(records)
              /\ Len(records) - breaker.fails + 1 >= 1
            BY <1>2, <2>2 DEF BInv
        <3> QED
            BY <1>2, <1>4, <2>2, <3>1 DEF BInv
    <2> QED
        BY <1>2, <2>2, <2>3, <2>4 DEF BInv
<1> QED
    BY <1>3, <1>4

LEMMA StepKeepsBreaker == AInv /\ BInv /\ [Next]_vars => BInv'
<1> SUFFICES ASSUME AInv, BInv, [Next]_vars PROVE BInv'
    OBVIOUS
<1>1. ASSUME UNCHANGED gate PROVE BInv'
    BY <1>1 DEF gate, BInv
<1>2. CASE Boots
    BY <1>1, <1>2 DEF Boots, Resolves, NotSignedIn, Opens, Initialized, Notifies, Connected, GivesUp,
                      sessionVars
<1>3. ASSUME NEW t \in Tasks, Transports(t) PROVE BInv'
    <2>1. \A what : Leaves(t, what) => UNCHANGED gate
        BY DEF Leaves
    <2>2. CASE TimesOut(t)
        BY <1>1, <2>1, <2>2 DEF TimesOut
    <2>3. CASE Piped(t)
        BY <1>1, <2>1, <2>3 DEF Piped, Writes, ServerIsGone, Reads, PassesOver, Declines
    <2>4. CASE Posted(t)
        BY <1>1, <2>1, <2>4 DEF Posted, Posts, PostAnswered
    <2> QED
        BY <1>3, <2>2, <2>3, <2>4 DEF Transports
<1>4. ASSUME NEW c \in Callers, CallSteps(c) PROVE BInv'
    <2>1. CASE Skipped(c) \/ Take(c)
        BY <1>1, <2>1 DEF Skipped, Take
    <2>2. CASE LetThrough(c)
        <3>1. breaker' = [breaker EXCEPT !.open = "none"] /\ records' = records
            BY <2>2 DEF LetThrough
        <3> QED
            BY <3>1 DEF BInv
    <2>3. CASE Record(c)
        <3>1. got[c] \in Tasks \cup Results
            BY DEF AInv, Addressed, Tasks
        <3> QED
            BY <2>3, <3>1, RecordKeepsBreaker
    <2> QED
        BY <1>4, <2>1, <2>2, <2>3 DEF CallSteps
<1>5. ASSUME NEW c \in Callers, Interrupted(c) PROVE BInv'
    BY <1>1, <1>5 DEF Interrupted, Dropped, gate
<1>6. CASE Cooling
    <2>1. breaker.open = "ahead" /\ breaker' = [breaker EXCEPT !.open = "past"] /\ records' = records
        BY <1>6 DEF Cooling, Cools
    <2> QED
        BY <2>1 DEF BInv
<1>7. CASE ServerSteps
    BY <1>1, <1>7 DEF ServerSteps, ServesLine, ServesLater, Speaks, Dies
<1>8. CASE AuthSteps \/ Settled \/ UNCHANGED vars
    BY <1>1, <1>8 DEF AuthSteps, Settled, vars, sessionVars
<1> QED
    BY <1>2, <1>3, <1>4, <1>5, <1>6, <1>7, <1>8 DEF Next

(***************************************************************************)
(* However many calls overlap, and however often the breaker is half open: *)
(* it is open only after `failures` recorded failures in a row             *)
(* (Breaker::record, Connection::call).                                    *)
(***************************************************************************)
THEOREM BreakerOpensInTurn == Spec => []BreakerIsEarned
<1>1. BInv => BreakerIsEarned
    <2> SUFFICES ASSUME BInv, breaker.open # "none" PROVE BreakerIsEarned
        BY DEF BreakerIsEarned
    <2>1. /\ breaker.fails \in Nat /\ breaker.fails >= Failures /\ Len(records) \in Nat
          /\ Failures \in Nat
        BY LenProperties, SessionAssumption DEF BInv
    <2> QED
        BY <2>1 DEF BInv, BreakerIsEarned
<1>2. AInv /\ BInv /\ [Next]_vars => (AInv /\ BInv)'
    BY StepKeepsAnswers, StepKeepsBreaker
<1> QED
    BY <1>1, <1>2, AnswersAtTheStart, BreakerAtTheStart, PTL DEF Spec

-----------------------------------------------------------------------------
(* The token store                                                         *)

Steps == {"start", "discover", "exchange", "load", "create", "write", "rename", "register",
          "bind", "browser", "accepted", "ready", "refused"}

StoreTypes ==
    /\ step \in [AuthProcesses -> Steps]
    /\ saving \in [AuthProcesses -> {"client", "tokens"}]
    /\ held \in [AuthProcesses -> StoredAuth]
    /\ fd \in [AuthProcesses -> Inodes \cup {0}]
    /\ disk \in [Inodes -> StoredAuth]
    /\ fileAt \in Inodes /\ tmpAt \in Inodes \cup {0}

\* The temporary file is never the file itself.
Apart == tmpAt # fileAt

\* One save at a time.
OneSave == \A p, q \in AuthProcesses : step[p] \in MidSave /\ step[q] \in MidSave => p = q

\* What a save has at hand is what it was given over all that is stored, and what it wrote
\* so far is under the temporary name.
SaveKnows(p) ==
    /\ step[p] \in MidSave =>
        /\ owned.client => held[p].client
        /\ owned.renew => held[p].renew \/ (p \in Logins /\ saving[p] = "tokens")
    /\ step[p] = "write" => tmpAt # 0 /\ fd[p] = tmpAt /\ disk[tmpAt] = Empty
    /\ step[p] = "rename" => tmpAt # 0 /\ disk[tmpAt] = held[p]

StoreIInv ==
    /\ StoreTypes
    /\ Apart
    /\ ~overlapped => OneSave /\ StoreSurvives /\ \A p \in AuthProcesses : SaveKnows(p)

LEMMA InodesAreNumbers == Inodes \subseteq Nat \ {0} /\ 1 \in Inodes
BY AuthAssumption, FS_CardinalityType DEF Inodes

LEMMA StoreAtTheStart == Init => StoreIInv
<1> SUFFICES ASSUME Init PROVE StoreIInv
  OBVIOUS
<1> PICK stored \in Stored : AuthInit(stored)
  BY DEF Init
<1>1. stored \in StoredAuth /\ Empty \in StoredAuth
  BY McpAssumption DEF StoredAuth, Empty
<1>2. StoreTypes /\ Apart
  BY <1>1, InodesAreNumbers DEF AuthInit, StoreTypes, Apart, Steps
<1>3. StoreSurvives
  BY <1>1, InodesAreNumbers DEF AuthInit, StoreSurvives, Load
<1>4. OneSave /\ \A p \in AuthProcesses : SaveKnows(p)
  BY DEF AuthInit, OneSave, SaveKnows, MidSave
<1> QED
  BY <1>2, <1>3, <1>4 DEF StoreIInv

\* A step outside of a save leaves the files and the loaded text alone.
LEMMA OutsideKeepsStore ==
    ASSUME StoreIInv, NEW p \in AuthProcesses, NEW to \in Steps \ MidSave,
           step' = [step EXCEPT ![p] = to],
           saving' \in [AuthProcesses -> {"client", "tokens"}],
           \A q \in AuthProcesses \ {p} : saving'[q] = saving[q],
           fd' \in [AuthProcesses -> Inodes \cup {0}],
           \A q \in AuthProcesses \ {p} : fd'[q] = fd[q],
           UNCHANGED <<held, files, history>>
    PROVE  StoreIInv'
<1>1. StoreTypes' /\ Apart'
  BY DEF StoreIInv, StoreTypes, Apart, files
<1>2. ASSUME ~overlapped' PROVE OneSave' /\ StoreSurvives' /\ \A q \in AuthProcesses : SaveKnows(q)'
  <2>0. /\ ~overlapped /\ OneSave /\ StoreSurvives /\ \A q \in AuthProcesses : SaveKnows(q)
        /\ step \in [AuthProcesses -> Steps]
    BY <1>2 DEF StoreIInv, StoreTypes, history
  <2>1. \A q \in AuthProcesses : step'[q] = IF q = p THEN to ELSE step[q]
    BY <2>0
  <2>2. OneSave'
    BY <2>0, <2>1 DEF OneSave
  <2>3. StoreSurvives'
    BY <2>0 DEF StoreSurvives, Load, files, history
  <2>4. ASSUME NEW q \in AuthProcesses PROVE SaveKnows(q)'
    <3>1. CASE q = p
      BY <2>1, <3>1 DEF SaveKnows, MidSave
    <3>2. CASE q # p
      BY <2>0, <2>1, <3>2 DEF SaveKnows, files, history
    <3> QED
      BY <3>1, <3>2
  <2> QED
    BY <2>2, <2>3, <2>4
<1> QED
  BY <1>1, <1>2 DEF StoreIInv

LEMMA MovesKeepStore ==
    ASSUME StoreIInv, NEW p \in AuthProcesses, NEW from, NEW to, to \subseteq Steps \ MidSave,
           Moves(p, from, to)
    PROVE  StoreIInv'
<1> PICK s \in to : step' = [step EXCEPT ![p] = s]
  BY DEF Moves
<1>1. UNCHANGED <<saving, held, fd, files, history>>
  BY DEF Moves
<1> QED
  BY <1>1, OutsideKeepsStore DEF StoreIInv, StoreTypes

\* The text to be saved rests on what the file says, and no other save is under way.
LEMMA LoadingKeepsStore ==
    ASSUME StoreIInv, NEW p \in AuthProcesses, LoadsToSave(p)
    PROVE  StoreIInv'
<1>0. /\ StoreTypes /\ Load \in StoredAuth /\ fileAt # 0
  BY InodesAreNumbers DEF StoreIInv, StoreTypes, Load
<1> PICK given \in BOOLEAN :
        held' = [held EXCEPT ![p] =
            IF saving[p] = "client" THEN [Load EXCEPT !.client = TRUE]
            ELSE [Load EXCEPT !.tokens = "good", !.renew = Renewal(p, given)]]
  BY DEF LoadsToSave
<1> DEFINE text == IF saving[p] = "client" THEN [Load EXCEPT !.client = TRUE]
                   ELSE [Load EXCEPT !.tokens = "good", !.renew = Renewal(p, given)]
<1>1. Renewal(p, given) \in BOOLEAN /\ (p \in Apps => Renewal(p, given))
  BY DEF Renewal
<1>2. /\ text \in StoredAuth
      /\ Load.client => text.client
      /\ Load.renew => text.renew \/ (saving[p] = "tokens" /\ p \in Logins)
  <2>1. CASE saving[p] = "client"
    BY <1>0, <2>1 DEF StoredAuth
  <2>2. CASE saving[p] = "tokens"
    BY <1>0, <1>1, <2>2 DEF StoredAuth, AuthProcesses
  <2> QED
    BY <1>0, <2>1, <2>2 DEF StoreTypes
<1> HIDE DEF text
<1>3. /\ held' = [held EXCEPT ![p] = text] /\ step' = [step EXCEPT ![p] = "create"]
      /\ overlapped' = (overlapped \/ \E q \in AuthProcesses \ {p} : step[q] \in MidSave)
      /\ UNCHANGED <<saving, fd, disk, fileAt, tmpAt, owned>>
  BY DEF LoadsToSave, files, text
<1>4. StoreTypes' /\ Apart'
  BY <1>0, <1>2, <1>3 DEF StoreIInv, StoreTypes, Apart, Steps
<1>5. ASSUME ~overlapped' PROVE OneSave' /\ StoreSurvives' /\ \A q \in AuthProcesses : SaveKnows(q)'
  <2>1. /\ ~overlapped /\ \A q \in AuthProcesses \ {p} : step[q] \notin MidSave
        /\ StoreSurvives
    BY <1>3, <1>5 DEF StoreIInv
  <2>2. \A q \in AuthProcesses \ {p} : step'[q] = step[q]
    BY <1>0, <1>3 DEF StoreTypes
  <2>3. OneSave'
    BY <2>1, <2>2 DEF OneSave
  <2>4. StoreSurvives'
    BY <1>3, <2>1 DEF StoreSurvives, Load
  <2>5. SaveKnows(p)'
    BY <1>0, <1>2, <1>3, <2>1 DEF SaveKnows, StoreSurvives, StoreTypes
  <2>6. \A q \in AuthProcesses \ {p} : SaveKnows(q)'
    BY <2>1, <2>2 DEF SaveKnows, MidSave
  <2> QED
    BY <2>3, <2>4, <2>5, <2>6
<1> QED
  BY <1>4, <1>5 DEF StoreIInv

\* The temporary file is emptied or made, and is not the file.
LEMMA CreatingKeepsStore ==
    ASSUME StoreIInv, NEW p \in AuthProcesses, CreatesTemporary(p)
    PROVE  StoreIInv'
<1>0. StoreTypes /\ Apart /\ Empty \in StoredAuth
  BY DEF StoreIInv, StoredAuth, Empty
<1> PICK i \in IF tmpAt # 0 THEN {tmpAt}
               ELSE Inodes \ ({fileAt} \cup {fd[q] : q \in AuthProcesses \ {p}}) :
        fd' = [fd EXCEPT ![p] = i] /\ disk' = [disk EXCEPT ![i] = Empty] /\ tmpAt' = i
  BY DEF CreatesTemporary, OpensTemporary
<1>1. i \in Inodes /\ i # fileAt /\ i # 0
  BY <1>0, InodesAreNumbers DEF StoreTypes, Apart
<1>2. step[p] = "create" /\ step' = [step EXCEPT ![p] = "write"]
      /\ UNCHANGED <<saving, held, fileAt, overlapped, owned>>
  BY DEF CreatesTemporary, history
<1>3. StoreTypes' /\ Apart'
  BY <1>0, <1>1, <1>2 DEF StoreTypes, Apart, Steps
<1>4. ASSUME ~overlapped' PROVE OneSave' /\ StoreSurvives' /\ \A q \in AuthProcesses : SaveKnows(q)'
  <2>1. OneSave /\ StoreSurvives /\ \A q \in AuthProcesses : SaveKnows(q)
    BY <1>2, <1>4 DEF StoreIInv
  <2>2. \A q \in AuthProcesses \ {p} : step'[q] = step[q] /\ step[q] \notin MidSave
    BY <1>0, <1>2, <2>1 DEF StoreTypes, OneSave, MidSave
  <2>3. OneSave'
    BY <2>2 DEF OneSave
  <2>4. StoreSurvives'
    BY <1>0, <1>1, <1>2, <2>1 DEF StoreSurvives, Load, StoreTypes
  <2>5. SaveKnows(p)'
    BY <1>0, <1>1, <1>2, <2>1 DEF SaveKnows, StoreTypes, MidSave
  <2>6. \A q \in AuthProcesses \ {p} : SaveKnows(q)'
    BY <2>2 DEF SaveKnows, MidSave
  <2> QED
    BY <2>3, <2>4, <2>5, <2>6
<1> QED
  BY <1>3, <1>4 DEF StoreIInv

LEMMA WritingKeepsStore ==
    ASSUME StoreIInv, NEW p \in AuthProcesses, WritesTemporary(p)
    PROVE  StoreIInv'
<1>0. StoreTypes /\ Apart /\ Empty \in StoredAuth
  BY DEF StoreIInv, StoredAuth, Empty
<1> PICK text \in IF disk[fd[p]] = Empty THEN {held[p]} ELSE {held[p], Empty} :
        disk' = [disk EXCEPT ![fd[p]] = text]
  BY DEF WritesTemporary
<1>1. text \in StoredAuth
  BY <1>0 DEF StoreTypes
<1>2. step[p] = "write" /\ step' = [step EXCEPT ![p] = "rename"]
      /\ UNCHANGED <<saving, held, fd, fileAt, tmpAt, overlapped, owned>>
  BY DEF WritesTemporary, history
<1>3. StoreTypes' /\ Apart'
  BY <1>0, <1>1, <1>2 DEF StoreTypes, Apart, Steps
<1>4. ASSUME ~overlapped' PROVE OneSave' /\ StoreSurvives' /\ \A q \in AuthProcesses : SaveKnows(q)'
  <2>1. OneSave /\ StoreSurvives /\ \A q \in AuthProcesses : SaveKnows(q)
    BY <1>2, <1>4 DEF StoreIInv
  <2>2. \A q \in AuthProcesses \ {p} : step'[q] = step[q] /\ step[q] \notin MidSave
    BY <1>0, <1>2, <2>1 DEF StoreTypes, OneSave, MidSave
  <2>3. OneSave'
    BY <2>2 DEF OneSave
  <2>4. tmpAt # 0 /\ fd[p] = tmpAt /\ text = held[p]
    BY <1>2, <2>1 DEF SaveKnows
  <2>5. StoreSurvives'
    BY <1>0, <1>2, <2>1, <2>4 DEF StoreSurvives, Load, StoreTypes, Apart
  <2>6. SaveKnows(p)'
    BY <1>0, <1>2, <2>1, <2>4 DEF SaveKnows, StoreTypes, MidSave
  <2>7. \A q \in AuthProcesses \ {p} : SaveKnows(q)'
    BY <2>2 DEF SaveKnows, MidSave
  <2> QED
    BY <2>3, <2>5, <2>6, <2>7
<1> QED
  BY <1>3, <1>4 DEF StoreIInv

\* The rename makes the whole text the file at once.
LEMMA RenamingKeepsStore ==
    ASSUME StoreIInv, NEW p \in AuthProcesses, Renames(p)
    PROVE  StoreIInv'
<1>0. StoreTypes /\ Apart /\ step[p] = "rename"
  BY DEF StoreIInv, Renames
<1>1. StoreTypes' /\ Apart'
  <2>1. CASE tmpAt = 0
    BY <1>0, <2>1 DEF Renames, StoreTypes, Apart, Steps
  <2>2. CASE tmpAt # 0
    BY <1>0, <2>2, InodesAreNumbers DEF Renames, StoreTypes, Apart, Steps
  <2> QED
    BY <2>1, <2>2
<1>2. ASSUME ~overlapped' PROVE OneSave' /\ StoreSurvives' /\ \A q \in AuthProcesses : SaveKnows(q)'
  <2>1. OneSave /\ StoreSurvives /\ \A q \in AuthProcesses : SaveKnows(q)
    BY <1>2 DEF StoreIInv, Renames
  <2>2. \A q \in AuthProcesses \ {p} : step'[q] = step[q] /\ step[q] \notin MidSave
    BY <1>0, <2>1 DEF StoreTypes, OneSave, MidSave, Renames
  <2>3. /\ tmpAt # 0 /\ disk[tmpAt] = held[p]
        /\ owned.client => held[p].client
        /\ owned.renew => held[p].renew \/ (p \in Logins /\ saving[p] = "tokens")
    BY <1>0, <2>1 DEF SaveKnows, MidSave
  <2>4. /\ step' = [step EXCEPT ![p] = IF saving[p] = "client" THEN "bind" ELSE "ready"]
        /\ fileAt' = tmpAt /\ tmpAt' = 0 /\ disk' = disk
        /\ owned' = [client |-> owned.client \/ held[p].client,
                     renew |-> IF p \in Logins /\ saving[p] = "tokens"
                               THEN held[p].renew ELSE owned.renew]
    BY <2>3 DEF Renames
  <2>5. step'[p] \notin MidSave
    BY <1>0, <2>4 DEF StoreTypes, MidSave
  <2>6. OneSave' /\ \A q \in AuthProcesses : SaveKnows(q)'
    BY <2>2, <2>5 DEF OneSave, SaveKnows, MidSave
  <2>7. Load' = held[p]
    BY <2>3, <2>4 DEF Load
  <2>8. (owned'.client => held[p].client) /\ (owned'.renew => held[p].renew)
    BY <2>3, <2>4
  <2> QED
    BY <2>6, <2>7, <2>8 DEF StoreSurvives
<1> QED
  BY <1>1, <1>2 DEF StoreIInv

LEMMA AuthKeepsStore ==
    ASSUME StoreIInv, AuthNext
    PROVE  StoreIInv'
<1>0. step \in [AuthProcesses -> Steps] /\ saving \in [AuthProcesses -> {"client", "tokens"}]
      /\ fd \in [AuthProcesses -> Inodes \cup {0}] /\ Apps \subseteq AuthProcesses
      /\ Logins \subseteq AuthProcesses
  BY DEF StoreIInv, StoreTypes, AuthProcesses
<1>1. ASSUME NEW p \in AuthProcesses, Local(p) PROVE StoreIInv'
  BY <1>1, LoadingKeepsStore, CreatingKeepsStore, WritingKeepsStore, RenamingKeepsStore DEF Local
<1>2. ASSUME NEW p \in AuthProcesses, Exchanges(p) PROVE StoreIInv'
  <2>1. PICK to \in {"refused", "load"} :
            /\ step' = [step EXCEPT ![p] = to]
            /\ saving' \in {saving, [saving EXCEPT ![p] = "tokens"]}
            /\ UNCHANGED <<held, fd, files, history>>
    BY <1>2 DEF Exchanges
  <2>2. saving' \in [AuthProcesses -> {"client", "tokens"}]
        /\ \A q \in AuthProcesses \ {p} : saving'[q] = saving[q]
    BY <1>0, <2>1
  <2>3. to \in Steps \ MidSave
    BY DEF Steps, MidSave
  <2> QED
    BY <1>0, <2>1, <2>2, <2>3, OutsideKeepsStore
<1>3. ASSUME NEW p \in Apps, AppStep(p) PROVE StoreIInv'
  BY <1>0, <1>3, MovesKeepStore DEF AppStep, Ensures, DiscoversForRefresh, Steps, MidSave
<1>4. ASSUME NEW p \in Logins, Registers(p) PROVE StoreIInv'
  <2>1. PICK to \in {"refused", "load"} :
            /\ step' = [step EXCEPT ![p] = to]
            /\ saving' \in {saving, [saving EXCEPT ![p] = "client"]}
            /\ UNCHANGED <<held, fd, files, history>>
    BY <1>4 DEF Registers
  <2> QED
    BY <1>0, <2>1, OutsideKeepsStore DEF Steps, MidSave
<1>5. ASSUME NEW p \in Logins,
             Discovers(p) \/ Binds(p) \/ SignInTimesOut(p) \/ Accepts(p) \/ CallbackRead(p)
      PROVE  StoreIInv'
  BY <1>0, <1>5, MovesKeepStore
     DEF Discovers, Binds, SignInTimesOut, Accepts, CallbackRead, Steps, MidSave
<1>6. ASSUME NEW p \in Logins, Killed(p) PROVE StoreIInv'
  <2>1. /\ step' = [step EXCEPT ![p] = "refused"] /\ fd' = [fd EXCEPT ![p] = 0]
        /\ UNCHANGED <<saving, held, files, history>>
    BY <1>6 DEF Killed
  <2> QED
    BY <1>0, <2>1, OutsideKeepsStore DEF Steps, MidSave
<1> QED
  BY <1>1, <1>2, <1>3, <1>4, <1>5, <1>6 DEF AuthNext, LoginStep

LEMMA StepKeepsStore == StoreIInv /\ [Next]_vars => StoreIInv'
<1> SUFFICES ASSUME StoreIInv, [Next]_vars PROVE StoreIInv'
  OBVIOUS
<1>1. CASE AuthSteps
  BY <1>1, AuthKeepsStore DEF AuthSteps
<1>2. CASE UNCHANGED authVars
  BY <1>2 DEF authVars, files, history, StoreIInv, StoreTypes, Apart, OneSave, StoreSurvives, Load, SaveKnows
<1>3. CASE Boots
  BY <1>2, <1>3 DEF Boots, Resolves, NotSignedIn, Opens, Initialized, Notifies, Connected, GivesUp
<1> QED
  BY <1>1, <1>2, <1>3 DEF Next, Transports, CallSteps, Interrupted, Cooling, ServerSteps, Settled, vars

(***************************************************************************)
(* For any number of processes that share the store: as long as no save    *)
(* begins while another is under way, a registration and the means to      *)
(* renew, once stored, load again, wherever a process is killed            *)
(* (TokenStore::save).                                                     *)
(***************************************************************************)
THEOREM StoredSignInSurvives == Spec => []StoreSurvives
<1>1. StoreIInv => StoreSurvives
  BY DEF StoreIInv, StoreSurvives
<1> QED
  BY <1>1, StoreAtTheStart, StepKeepsStore, PTL DEF Spec

=============================================================================
