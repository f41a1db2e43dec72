------------------------------ MODULE MCGraph ------------------------------
(* The engine on the two workflows and on graphs that fan out, loop, fail  *)
(* over and collide; nodes named "e..." may fail, "k..." write one key.    *)
EXTENDS Workflows

ProbeNodes == <<"start", "eleft", "right", "join", "work", "fallback">>

\* start fans out to eleft and right, which join; eleft falls over to
\* fallback; join goes on to work, which asks to be run again.
Probe(loop, key) ==
    [name |-> "probe", nodes |-> ProbeNodes, key |-> key,
     edges |-> {<<START, "start">>, <<"start", "eleft">>, <<"start", "right">>, <<"eleft", "join">>,
                <<"right", "join">>, <<"join", "work">>, <<"fallback", END>>},
     visits |-> [Once(ProbeNodes) EXCEPT !["work"] = loop],
     onError |-> [NoRedirect(ProbeNodes) EXCEPT !["eleft"] = "fallback"],
     routers |-> [n \in {"work"} |-> [again |-> "work", done |-> END]],
     board |-> <<>>, carried |-> {"fallback"}]

ProbeOutcomes(h, n) ==
    CASE n = "eleft" -> {Failed, [left |-> 1], [same |-> 1]}
      [] n = "right" -> {[_note |-> 1], [x \in {h.key} |-> 2]}
      [] n = "work" -> {Failed, [verdict |-> "again"], [verdict |-> "done"], [verdict |-> "?"]}
      [] OTHER -> {<<>>}

GraphsHere == {Triage, Gather} \cup {Probe(loop, key) : loop \in 1..3, key \in {"same", "mine"}}
PrivateHere == {"_note"}

OutcomesHere(h, n, b) ==
    IF h.name = "probe" THEN ProbeOutcomes(h, n) ELSE WorkflowOutcomes(h, n, b)

MayHangHere(h, n) == h.name # "probe" /\ WorkflowMayHang(n)

LabelHere(h, n, b) ==
    IF h.name = "probe" THEN b["verdict"] ELSE WorkflowLabel(h, n, b)
=============================================================================
