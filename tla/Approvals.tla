----------------------------- MODULE Approvals ------------------------------
(***************************************************************************)
(* Asking a human: the bridge that holds a tool call until someone answers *)
(* (joyczl-app-server/src/approval.rs; answer_approval, register_turn and  *)
(* finish_turn of joyczl-app-server/src/lib.rs; pass_gate of               *)
(* joyczl-tools/src/exec.rs).                                              *)
(*                                                                         *)
(* A turn asks at most one question at a time: its tools run in sequence.  *)
(* Answers arrive on the request loop, which serves one message at a time  *)
(* and runs beside the turns.  The waiting table is behind a mutex; the    *)
(* answer itself travels over a oneshot channel.                           *)
(***************************************************************************)
EXTENDS Naturals, FiniteSets

CONSTANTS
    Turns,        \* the turns of this process
    MaxRequests   \* bound: questions asked, all turns together

ASSUME MaxRequestsAssumption == MaxRequests \in Nat

Requests == 1..MaxRequests

VARIABLES
    live,       \* the turns in the `turns` table
    counter,    \* the process-wide request counter
    current,    \* current[t]: the latest request of t, 0 if it never asked
    waiting,    \* the waiting table: <<turn, request>>
    channel,    \* channel[r]: what the oneshot of r holds
    bridge,     \* bridge[t]: the pending `request` future of t
    answering,  \* the answer the request loop has taken and not yet sent, if any
    accepted,   \* requests whose answerer was told `accepted: true`
    audit,      \* approval_log: <<request, outcome>>
    granted     \* requests the bridge returned true for

bridgeVars == <<live, counter, current, waiting, channel, bridge, answering, accepted, audit, granted>>

Outcomes == {"approved", "denied", "voided", "timeout"}

BridgeInit ==
    /\ live = {}
    /\ counter = 0
    /\ current = [t \in Turns |-> 0]
    /\ waiting = {}
    /\ channel = [r \in Requests |-> "unused"]
    /\ bridge = [t \in Turns |-> "idle"]
    /\ answering = {}
    /\ accepted = {}
    /\ audit = {}
    /\ granted = {}

-----------------------------------------------------------------------------
Register(t) ==
    /\ live' = live \cup {t}
    /\ UNCHANGED <<counter, current, waiting, channel, bridge, answering, accepted, audit, granted>>

\* finish_turn: the turn leaves both tables; a sender still in there is dropped.
Finish(t) ==
    /\ bridge[t] = "idle"
    /\ live' = live \ {t}
    /\ waiting' = {w \in waiting : w[1] # t}
    /\ channel' = [r \in Requests |->
                    IF <<t, r>> \in waiting /\ channel[r] = "open" THEN "closed" ELSE channel[r]]
    /\ UNCHANGED <<counter, current, bridge, answering, accepted, audit, granted>>

Request(t) ==
    /\ t \in live
    /\ bridge[t] = "idle"
    /\ counter < MaxRequests
    /\ counter' = counter + 1
    /\ current' = [current EXCEPT ![t] = counter']
    /\ waiting' = waiting \cup {<<t, counter'>>}
    /\ channel' = [channel EXCEPT ![counter'] = "open"]
    /\ bridge' = [bridge EXCEPT ![t] = "waiting"]
    /\ UNCHANGED <<live, answering, accepted, audit, granted>>

-----------------------------------------------------------------------------
(* answer_approval: take the entry out under the lock, perhaps write the   *)
(* settings file (remember), send, answer `accepted: true`.  An entry that *)
(* is not there is answered `false` and changes nothing.                   *)

TakeAnswer(t, r, yes) ==
    /\ answering = {}
    /\ <<t, r>> \in waiting
    /\ waiting' = waiting \ {<<t, r>>}
    /\ answering' = {[request |-> r, approved |-> yes]}
    /\ UNCHANGED <<live, counter, current, channel, bridge, accepted, audit, granted>>

\* `let _ = tx.send(..)`: a receiver that is gone is no failure.
SendAnswer ==
    \E a \in answering :
        /\ channel' = [channel EXCEPT
            ![a.request] = IF @ = "open" THEN (IF a.approved THEN "yes" ELSE "no") ELSE @]
        /\ accepted' = accepted \cup {a.request}
        /\ answering' = {}
        /\ UNCHANGED <<live, counter, current, waiting, bridge, audit, granted>>

-----------------------------------------------------------------------------
(* The bridge's future.                                                    *)

Hear(t) ==
    /\ bridge[t] = "waiting"
    /\ channel[current[t]] \in {"yes", "no", "closed"}
    /\ bridge' = [bridge EXCEPT ![t] =
            CASE channel[current[t]] = "yes" -> "approved"
              [] channel[current[t]] = "no" -> "denied"
              [] channel[current[t]] = "closed" -> "voided"]
    /\ UNCHANGED <<live, counter, current, waiting, channel, answering, accepted, audit, granted>>

\* Mutant: nobody answered in time, so the tool goes ahead.
TimeOutOpen(t) ==
    /\ bridge[t] = "waiting"
    /\ channel[current[t]] = "open"
    /\ channel' = [channel EXCEPT ![current[t]] = "gone"]
    /\ bridge' = [bridge EXCEPT ![t] = "approved"]
    /\ UNCHANGED <<live, counter, current, waiting, answering, accepted, audit, granted>>

\* Mutant: waiting without a limit.
TimeOutNever(t) == FALSE

\* timeout(.., rx) looks at rx first; when it gives up it drops rx.
TimeOut(t) ==
    /\ bridge[t] = "waiting"
    /\ channel[current[t]] = "open"
    /\ channel' = [channel EXCEPT ![current[t]] = "gone"]
    /\ bridge' = [bridge EXCEPT ![t] = "timeout"]
    /\ UNCHANGED <<live, counter, current, waiting, answering, accepted, audit, granted>>

\* The audit row is in (or could not be written: the ledger is a shadow);
\* the entry is cleared and the answer handed to the tool.
Settle(t, written) ==
    /\ bridge[t] \in Outcomes
    /\ audit' = IF written THEN audit \cup {<<current[t], bridge[t]>>} ELSE audit
    /\ granted' = IF bridge[t] = "approved" THEN granted \cup {current[t]} ELSE granted
    /\ waiting' = waiting \ {<<t, current[t]>>}
    /\ bridge' = [bridge EXCEPT ![t] = "idle"]
    /\ UNCHANGED <<live, counter, current, channel, answering, accepted>>

\* The tool's future is dropped, the bridge's with it.  An audit row on its
\* way may or may not be written.
Drop(t) ==
    /\ bridge[t] # "idle"
    /\ channel' = [channel EXCEPT ![current[t]] = IF @ = "open" THEN "gone" ELSE @]
    /\ \/ audit' = audit
       \/ bridge[t] \in Outcomes /\ audit' = audit \cup {<<current[t], bridge[t]>>}
    /\ bridge' = [bridge EXCEPT ![t] = "idle"]
    /\ UNCHANGED <<live, counter, current, waiting, answering, accepted, granted>>

-----------------------------------------------------------------------------
BridgeStep(t) ==
    \/ Hear(t)
    \/ TimeOut(t)
    \/ \E written \in BOOLEAN : Settle(t, written)

Answer ==
    \/ \E t \in Turns, r \in Requests, yes \in BOOLEAN : TakeAnswer(t, r, yes)
    \/ SendAnswer

BridgeNext ==
    \/ Answer
    \/ \E t \in Turns : Register(t) \/ Finish(t) \/ Request(t) \/ BridgeStep(t) \/ Drop(t)

BridgeSpec == BridgeInit /\ [][BridgeNext]_bridgeVars

-----------------------------------------------------------------------------
BridgeTypeOK ==
    /\ live \subseteq Turns
    /\ counter \in 0..MaxRequests
    /\ current \in [Turns -> 0..MaxRequests]
    /\ waiting \subseteq Turns \X Requests
    /\ channel \in [Requests -> {"unused", "open", "yes", "no", "closed", "gone"}]
    /\ bridge \in [Turns -> {"idle", "waiting"} \cup Outcomes]
    /\ answering \subseteq [request : Requests, approved : BOOLEAN]
    /\ accepted \subseteq Requests
    /\ audit \subseteq Requests \X Outcomes
    /\ granted \subseteq Requests

(***************************************************************************)
(* approval.rs: silence is a no.  A tool goes ahead only on an explicit    *)
(* "yes" that a human gave to that very question.                          *)
(***************************************************************************)
GrantedWasAnsweredYes ==
    \A r \in granted : channel[r] = "yes" /\ r \in accepted

(***************************************************************************)
(* approval.rs: the table is bucketed by turn and the bucket goes with the *)
(* turn, so no question outlives it, however it ended.                     *)
(***************************************************************************)
NoQuestionOutlivesItsTurn ==
    \A w \in waiting : w[1] \in live

\* What the channel of a question holds when the bridge reports each outcome.
Heard == [approved |-> "yes", denied |-> "no", voided |-> "closed", timeout |-> "gone"]

(***************************************************************************)
(* The audit tells one story about each question, and the true one: what   *)
(* the human said, or that nobody did in time.                             *)
(***************************************************************************)
AuditIsTrue ==
    \A r \in Requests, o \in Outcomes : <<r, o>> \in audit => channel[r] = Heard[o]

(***************************************************************************)
(* answer_approval: it returns false when the answer comes too late, "lest *)
(* the client believe the approval took effect".                           *)
(***************************************************************************)
AcceptedWasHeard ==
    \A r \in accepted : channel[r] # "gone"
=============================================================================
