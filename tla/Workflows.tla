----------------------------- MODULE Workflows -----------------------------
(***************************************************************************)
(* The graphs Joy runs on the engine of Graph: `triage`, the front door of *)
(* a turn (workflows/triage.rs, graph_route of turn.rs), and `gather`, the *)
(* morning briefing (workflows/gather.rs, bound to the machine in          *)
(* joyczl-cli/src/gather.rs).  Texts are reduced to what a router, a later *)
(* node or a property tells apart.                                         *)
(***************************************************************************)
EXTENDS Graph, SequencesExt

Unavailable == "unavailable"

-----------------------------------------------------------------------------
(* triage                                                                  *)

\* What the small model may answer; "lost" is a call that failed.
TriageAnswers == {"lost", "no JSON", "bad JSON", "other route", "quick", "full"}

\* classify_message fails open.
Classified(answer) == IF answer = "quick" THEN "quick" ELSE "full"

\* An event is a title, possibly one that begins with "(".
Calendars == {"no file", "nothing today", "events", "(event)"}

\* todays_events: titles, or a note in parentheses.
TodaysEvents(calendar) ==
    CASE calendar = "no file" -> "(no calendar)"
      [] calendar = "nothing today" -> "(nothing today)"
      [] OTHER -> calendar

\* What graph_route binds to the nodes.
TriageOutcomes(n, b) ==
    CASE n = "classify" -> {[route |-> Classified(a), triage_reason |-> a] : a \in TriageAnswers}
      [] n = "check_calendar" -> {[calendar |-> TodaysEvents(c)] : c \in Calendars}
      [] n = "gather" -> {<<>>}
      [] n = "quick_reply" -> {Failed, [reply |-> "text"], [reply |-> ""]}
      [] n = "full_agent" -> {Failed, <<>>}

\* key_router("route", "full")
TriageLabel(b) == IF "route" \in DOMAIN b THEN b["route"] ELSE "full"

Once(nodes) == [n \in ToSet(nodes) |-> 1]
NoRedirect(nodes) == [n \in ToSet(nodes) |-> NoNode]

TriageNodes == <<"classify", "check_calendar", "quick_reply", "full_agent", "gather">>

Triage ==
    [name |-> "triage", nodes |-> TriageNodes,
     edges |-> {<<START, "classify">>, <<START, "check_calendar">>,
                <<"classify", "gather">>, <<"check_calendar", "gather">>,
                <<"quick_reply", END>>, <<"full_agent", END>>},
     visits |-> Once(TriageNodes), onError |-> NoRedirect(TriageNodes),
     routers |-> [n \in {"gather"} |-> [quick |-> "quick_reply", full |-> "full_agent"]],
     board |-> [message |-> "text"], carried |-> {}]

\* What graph_route makes of a finished run: the loop's own outcome if
\* full_agent ran, else the quick reply if it says anything, else no answer
\* -- the turn then takes the ordinary path.
Ran(n) == \E i \in 1..Len(path) : path[i] = n

GraphRoute ==
    CASE pc = "collision" -> "ordinary"
      [] Ran("full_agent") -> IF "full_agent" \in finished THEN "full" ELSE "error"
      [] "reply" \in DOMAIN board -> IF board["reply"] # "" THEN "quick" ELSE "ordinary"
      [] OTHER -> "ordinary"

-----------------------------------------------------------------------------
(* gather                                                                  *)

Scans == <<"scan_github", "scan_web", "scan_calendar", "scan_memory">>

\* scan_fn and text_scan_fn: a scan that fails writes so, it does not fail.
\* Mutant: a failing scan fails its node.
ScanFails(n) == Failed

ScanUnavailable(n) ==
    CASE n = "scan_github" -> [gh_text |-> Unavailable, gh_open_prs |-> 0, gh_open_issues |-> 0]
      [] n = "scan_web" -> [web_text |-> Unavailable]
      [] n = "scan_calendar" -> [cal_text |-> Unavailable, cal_event_count |-> 0]
      [] n = "scan_memory" -> [mem_text |-> Unavailable]

\* bind_github: unset repository, failing gh, or the lists; counts up to one.
GithubScan ==
    {ScanUnavailable("scan_github")}
        \cup [gh_text : {"lists"}, gh_open_prs : 0..1, gh_open_issues : 0..1]

WebScan == {ScanUnavailable("scan_web"), [web_text |-> "hits"]}

\* A text that begins with "(" is taken for one without events.
EventCount(text) == IF text = "events" THEN 1 ELSE 0

CalendarScan ==
    {LET text == TodaysEvents(c) IN [cal_text |-> text, cal_event_count |-> EventCount(text)]
        : c \in Calendars}

\* A failing search counts as an empty one.
MemoryScan == {[mem_text |-> "(nothing relevant)"], [mem_text |-> "facts"]}

\* The one model call (no model: it fails), and the one write.
Synthesis == {Failed, [digest |-> "text"], [digest |-> ""]}
Draft == {Failed, [draft_path |-> "outbox"]}

GatherOutcomes(n) ==
    CASE n = "scan_github" -> GithubScan
      [] n = "scan_web" -> WebScan
      [] n = "scan_calendar" -> CalendarScan
      [] n = "scan_memory" -> MemoryScan
      [] n = "synthesize" -> Synthesis
      [] n = "draft_digest" -> Draft

NeedsAction(b) ==
    IF \E k \in {"gh_open_prs", "gh_open_issues", "cal_event_count"} : k \in DOMAIN b /\ b[k] > 0
    THEN "propose" ELSE "quiet"

GatherNodes == Scans \o <<"synthesize", "draft_digest">>

Gather ==
    [name |-> "gather", nodes |-> GatherNodes,
     edges |-> {<<START, s>> : s \in ToSet(Scans)} \cup {<<s, "synthesize">> : s \in ToSet(Scans)}
                   \cup {<<"draft_digest", END>>},
     visits |-> Once(GatherNodes), onError |-> NoRedirect(GatherNodes),
     routers |-> [n \in {"synthesize"} |-> [propose |-> "draft_digest", quiet |-> END]],
     board |-> <<>>, carried |-> {}]

-----------------------------------------------------------------------------
WorkflowOutcomes(h, n, b) == IF h.name = "triage" THEN TriageOutcomes(n, b) ELSE GatherOutcomes(n)

\* `gh` is awaited without a timeout (gh_list), and a whole turn may be held
\* by a hook.
WorkflowMayHang(n) == n \in {"scan_github", "full_agent"}

WorkflowLabel(h, n, b) == IF h.name = "triage" THEN TriageLabel(b) ELSE NeedsAction(b)

(***************************************************************************)
(* Silence is the worst failure of a briefing (gather.rs, rule 2): however *)
(* the four scans fail, the summary is asked for, and when nothing comes   *)
(* of it the run says so.  A draft is written exactly when a repository    *)
(* or a calendar has something pending.                                    *)
(***************************************************************************)
BriefingSpeaks ==
    g.name = "gather" /\ pc = "ended" =>
        /\ "digest" \in DOMAIN board \/ "synthesize" \in errors
        /\ "digest" \in DOMAIN board =>
               (Ran("draft_digest") <=>
                   board["gh_open_prs"] + board["gh_open_issues"] + board["cal_event_count"] > 0)

=============================================================================
