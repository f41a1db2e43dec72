# Joy: specifications and proofs

TLA+ modules that model the concurrent core of Joy (a local assistant: a Rust
app-server and its crates under `src/joy-rs`, TypeScript gateways under
`src/joy-ts`, a Python SDK under `src/sdk`), the TLC configurations that check
them, and proofs that TLAPS checks.

    tlc -workers 2 -config ChatLog.cfg MCChatLog      # any of the runs below
    tlapm ChatLogProofs.tla                           # any of the *Proofs modules

`PROJECT.json` lists the parts of the system, the runs, the source lines every
definition stands for, a mutant of the code for every property, the hazards of
the code and the theorems.

## The system

| Part | State it keeps | Operations | Talks to |
|---|---|---|---|
| stdio server, dispatch (`joyczl-app-server`) | frames queued for the writer | one reader, one writer; `turn/start` runs beside the reader, all else in order | every part below |
| turn engine (`turn.rs`, `joyczl-loop`) | table of live turns, interrupts, goals | route, compact, loop of model and tool calls, Stop hook, goal rounds, store, distil | provider, tools, chat log, approvals |
| approvals (`approval.rs`, `exec.rs`) | waiting table, oneshot channels, audit rows | ask, answer, time out, sweep | turn engine, request loop |
| tools and hooks (`joyczl-tools`) | `hooks.json` and the trusted copy of it | check, gate, ask, run, rewrite | user's commands, approvals |
| loop guard, result budget (`joyczl-loop`, `spill.rs`) | last calls, tool results of a turn | observe, warn, cut to a stub | turn engine |
| chat log, consolidation (`joyczl-state`, `joyczl-memory`) | `chat_log`, facts, episodes | append, claim, distil, persist, give back | SQLite, provider |
| rolling summary (`compaction.rs`) | `context_rollups` | window, refresh, roll forward, save | chat log, provider |
| scheduler (`schedule.rs`) | `schedule_state`, `fired` in memory | recover, back-fill, look, claim, fire, confirm | turn engine |
| background jobs (`jobs.rs`) | table in memory, `jobs` ledger | spawn, output, kill, reconcile | tools, SQLite |
| daemon lock (`lock.rs`) | a file with a pid | acquire, drop | the processes of a home |
| graph engine (`joyczl-graph`) | board, fired edges, visits, path | waves, routers, error edges | turn engine (`triage`), `joy gather` |
| MCP client and server (`joyczl-mcp`) | breaker, session, token store | connect, list, call with timeout, refresh, sign in | tools, other processes |
| configuration and models (`joyczl-config`, `models.rs`, `route.rs`) | `models.json`, keys, `settings.json`, cache of resolved profiles | save, remove, configure, choose for a turn | request loop, turns, keychain |
| hub and dashboard (`joyczl-ops`) | pool of app-servers, waiting calls, subscribers | spawn, evict, call, stream | app-server, browsers |
| gateways (`joy-ts`) | queue per conversation, turns in flight | ask, notify, poll | app-server |

The hard parts: turns of one session are not serialized; every turn awaits a
model, tools and people between reading and writing shared tables; a future may
be dropped at any await; one statement is the only unit of atomicity SQLite is
asked for, and one system call the only one of the file system; processes die
anywhere and restart on the same files; several processes share one home.

What makes each part correct, in a line: consolidation distils every row at
most once and forgets none; a window and its summary together cover the
history; nothing that needs consent runs without it, whatever hooks say
besides; every turn ends; a scheduled minute runs once, or again only after a
crash and only if asked to; the ledger says how each job ended; one app-server
per home; a graph run is bounded and loses no write; an answer reaches the call
it belongs to; what was answered as saved is there after a restart; nobody
waits for an answer that will not come.

## Modules

| Module | Models | Correspondence |
|---|---|---|
| `ExclusiveClaim` | abstract: workers take disjoint lots of items, keep them or hand them back | what `consolidation.rs` promises |
| `ChatLog` | `chat.rs`, `consolidation.rs` | `pc[t]` is where a turn is in `consolidate_if_due`; a row is its position; `held` is the batch a claim returned; an answer of the model holds facts, an episode, both or neither; one action per SQL statement or model call |
| `Rollup` | `compaction.rs`, `load_history` and `append_exchange` of one session | the log is kept as what `session_history` makes of its rows (the exchanges found, a user's row still pending), a summary as the sequence of exchanges it speaks of; the two reads of `refresh`, the model call and the save are steps of their own, and each query may fail |
| `Approvals` | `approval.rs`, `answer_approval`, `finish_turn`, `pass_gate` | one record per request: waiting table, oneshot, pending future, audit |
| `TurnEngine` | `run_turn`, `full_turn`, the agent loop, `goal.rs`; composes `Approvals` | `pc[t]` is the await the turn is at; looking at the interrupt flag and what it clears the way for, a call or a tool, are separate steps; counters are those of the code |
| `Scheduler` | `schedule.rs`, `schedules.rs` | time is a minute counter, a job is the set of minutes its cron fires at; one action per statement on the table, which may fail and is then passed over as in the code |
| `DaemonLock` | `lock.rs` and the lives of processes | one action per system call; pids are given out again, to app-servers and to other programs; asking after a pid may itself fail |
| `JobLedger` | `jobs.rs` on both sides; extends `DaemonLock` | ids, phases and ledger rows per process |
| `Graph` | `joyczl-graph/src/lib.rs` | a graph is a record as `add_node`, `add_edge`, `add_router` build it; planning and merging go name by name as `next_wave` and `run_graph` do, nodes of a wave return in any order; `MayHang` says which have no limit |
| `Workflows` | `triage.rs`, `gather.rs`, `nodes.rs`, `cli/gather.rs`, `graph_route`; extends `Graph` | the two graphs Joy runs, and what each node may return on a board |
| `McpSession` | breaker, queue and timeout of `joyczl-mcp/src/lib.rs`; the pipe and the POSTs of `transport.rs`; the loop of `server.rs` | the pipe is a sequence of lines; a call may be dropped in mid-write and mid-read |
| `McpAuth` | `oauth.rs` | a file is an inode and a name; write, truncate and rename are steps; the app refreshes while a sign-in runs in another process |
| `Mcp` | `McpClient::connect`, `config.rs`; composes the two | an entry of `mcp.json` is what is present in it |
| `Wire` | `stdio.rs`, `dispatch.rs`, `client.rs`, the streams of `api.rs` | two pipes, the client's waiting table, and per stream two bounded queues: the subscription's, which drops, and the channel to the browser, on which the forwarder waits |
| `Hub` | `hub.rs`, `lib.rs` and `freshness.rs` of `joyczl-ops` | the pool is a set of users and `older`, which of two entries was used before the other; a handle is the process it is on |
| `Knobs` | `Settings::from_env`, `SettingsPatch`, `save_patch` | a number with bounds and the table of commands stand for the ten fields |
| `Models` | `config/src/models.rs`, `routes.rs`, `app-server/src/models.rs`, `route.rs`, the REPL's model commands; extends `Knobs` | one action per file write, lock and keychain call, and for the one await of a choice (the classifier); a write in place may be cut short |
| `Hooks` | `hooks.rs` | a hook is its matcher; what its command does is a member of `Ends` |
| `StallGuard` | `guard.rs` | a call is its fingerprint |
| `ResultBudget` | `budget.rs`, `spill.rs` | a text is the lengths of its lines |
| `ToolCalls` | `ToolRegistry::execute`, `run_command`, and the loop's handling of results; composes the three | `call` is one tool call from the model's request to the text it reads |
| `ChatLogProofs`, `SchedulerProofs` | theorems about the modules they are named for | |
| `TurnEngineProofs`, `JobLedgerProofs`, `GraphProofs`, `McpProofs` | the same | with `Approvals`, `DaemonLock`, `Workflows`, and `McpSession` and `McpAuth` |
| `ConversationProofs` | theorems about `Rollup` and `ToolCalls` | with `Hooks`, `StallGuard`, `ResultBudget` |
| `ServerProofs` | theorems about `Models`, `Wire` and `Hub` | with `Knobs` |

`MC*` modules instantiate them. Actions named like functions of the code model
the whole of them; definitions commented "Mutant" are deliberate bugs, used by
`PROJECT.json` to show that each property can fail. The `TypeOK` of a module
says what its state looks like; those of `ChatLog`, `Rollup`, `Approvals`,
`TurnEngine`, `Scheduler`, `Graph` and `Models` are theorems for every value of
the constants, the others lemmas where a proof needs them.

## Runs

| Run | Bounds | Shows |
|---|---|---|
| `chatlog` | 2 turns, a batch is due at once, one turn is lost | disjoint episodes, no path that forgets its claim or what the model said, every claim settled (liveness), the log implements `ExclusiveClaim` |
| `rollup` | 2 overlapping turns, 4 exchanges before them, window of 3, forced window of 2, failing summariser, 1 failing query | see below |
| `turn` | 2 turns, one of them (`Busy`) held up by everything, 1 question, 2 model calls of up to 2 tools, 1 Stop, 2 rounds, 1 goal | consent, true audit, at most one call or tool begun after an interrupt, every turn ends unless a hook holds it or its goal is gone (liveness) |
| `scheduler` | 2 jobs, 5 minutes, 2 crashes, 1 failing statement | claims, repeats, recovery (liveness) |
| `jobs` | 2 app-servers and a REPL, one job each, 3 pids shared with other programs | one daemon, turned away only by a living pid, a true ledger |
| `jobs_ids` (violation) | 2 app-servers one after the other | ids collide across restarts |
| `graph` | both workflows, and 6 graphs that fan out, join, fail over, loop 1 to 3 times and may collide, 6 steps | bounds, joins, writes, the briefing speaks, runs end unless held by a node without a limit (liveness) |
| `mcp` | 2 callers, a breaker of 2, 8 kinds of entry, 1 cooldown, 1 line of the server's own, one app, one sign-in | answers reach their call, the breaker is earned, the store survives, calls return (liveness) |
| `ops` | 2 turns in 2 sessions with streams, or one beside a write and a read; 1 mishap; buffers of 2 and 1; 3 requests of 3 users on a pool of 2, 4 processes started | order of requests, streams, no answer lost, nobody waits for what will not come (liveness), eviction |
| `models` | 2 profiles, 5 kinds of save, 2 turns, 3 requests, 1 failing write or crash | answers outlive restarts, accepted settings boot unless the window has no room for them, a fresh cache, no deadlock (liveness) |
| `models_forget` (violation) | same | a remembered command is not written |
| `tools` | a turn of 1 call with 2 hooks per gate and 12 ways they end; one of 9 calls with 3 answers; two of 4 calls with results of 4 shapes over a roomy and a tight budget | gates hold, circles are noticed, requests fit, warnings are read |

Why the bounds are enough. Each hazard needs two actors and one or two
failures; a third actor adds repetitions of pairs.

* `Rollup` starts with four exchanges because the window of three then evicts
  one and the forced window of two another, so that first and repeated
  compaction, and overflow in mid-turn, all occur.
* The scheduler's five minutes and two crashes contain every order of {miss,
  claim, run, confirm} against {crash, restart}, including a crash during the
  recovery of a crash; the one statement that fails may be any of them. One of
  the two jobs is declared while the scheduler runs.
* The three pids of `jobs` are one for each process, and one more than are in
  use whenever one of them has died: its pid may pass to the other app-server,
  to another program, or to nobody.
* One turn of `turn` is interrupted, continued, asked and held up at will; the
  other only shares the bridge with it. Two tools of one response are what it
  takes for an interrupt to come between them.
* The graph `Probe` has two branches that meet, one of which fails over, and a
  loop whose visits end before, with and after what its router wants; six steps
  are one fewer than its longest path, so both guards bite.
* In `mcp` two callers and the task that connects are three futures on one
  session: one may be dropped in mid-line, the next read its late answer, the
  third wait in the queue. Two failures open the breaker, the cooldown half
  opens it. `ReverseIds` holds the ids of listing the tools and of the first
  call: the server may ask under the number the client is waiting for.
* `EventBuffer` is 2 instead of 256 and `TurnBuffer` 1 instead of 1024: the two
  or three notifications of each of two turns overrun the first, and those of
  one turn the second. `MaxMishaps` counts hang-ups, kills and closed tabs.
  `MaxSpawns` is the pool's limit and two more, so that new starts follow on
  eviction, idling and death.
* In `models` three requests give a save, a change of what was saved and a
  restart's worth of answers around two turns; `Saves` has one of each path
  through `model_save`; `Low` and `High` stand for a row of `BOUNDS`, and
  `Asked` lies in and out of it. `Window` lies between the longest answer the
  environment gives and the longest `BOUNDS` allows, so that only a start refuses
  what a request was granted. There is one fault, a failing write or a crash, each
  of which may leave the file it was in empty; a keychain that does not
  answer is no fault and may be silent at any call.
* In `tools` a turn of nine calls is one longer than the guard remembers (eight:
  two periods of four). Lengths are scaled down (stubs of 9 to 40, a note of 6
  or 10) with the order between them kept.

Where a property speaks of histories, the history variable is named as such
(`disturbed`, `raced`, `misjudged`, `visited`, `collided`, `rowless`, `troubled`,
`crossed`, `promised`, `overlapped`, `deaf`, `late`, `records`, ...).

`rollup` states what survives without serialization. `disturbed` records that a
refresh overlapped another, that an excerpt was taken, or that the text or the
watermark could not be read; what none of these has touched is never forgotten
(`CalmTurnsForgetNothing`) and its summary covers its watermark
(`CalmSummaryCoversWatermark`). Whatever races, the watermark stays short of the
newest exchange, unless it was itself what could not be read
(`WatermarkStaysBehind`): each refresh adds the length of a slice reckoned from
its second read of the rollup to the watermark of its first, and others may save
in between.

`MCOps` puts `Wire` and `Hub`, which share no variable, under one next-state
relation: a behaviour is about one of them.

Symmetry is used only in `jobs` and its variant, over the app-servers, where no
liveness is checked.

### Fairness

Liveness is checked under weak fairness of the program's own steps: a tokio
task that is runnable is polled, a timer that is due fires. Nothing that
people, crashes or other programs do is fair: answers, interrupts, goals,
process deaths, requests, closed tabs may never come.

| Property | Assumed | Why |
|---|---|---|
| `ClaimsAreSettled` | each turn's next step | model calls return or fail (the HTTP client has timeouts); SQLite answers |
| `TurnsEnd` | each turn's next step, but none where a hook does not read its payload | the same of tools; a pending question times out (`approval.rs`). The payload is written to a hook outside its timeout (`hooks.rs:350`), so a turn may be held there; and a goal cleared while a turn pursues it takes the limit of its rounds along (`Adrift`). The property names both |
| `InterruptedIsRunAgain`, `MissedIsMadeUp` | `Work` of the one process | the process is restarted by its supervisor; a run is a turn and ends. Excepted are jobs the table has failed, and for `MissedIsMadeUp` those whose last claim has no confirmation (last section) |
| `RunEnds` | the engine's next step, and the return of every node that has a limit (`Progress`) | `run_graph` is one loop; a node is a model call or a command with a timeout, but for `gh` (`cli/gather.rs:169-175` awaits it with none) and a whole turn (`full_agent`): the run may wait for those, and for nothing else |
| `CallsReturn` | connecting, the call's own steps, its timer, the app's steps of OAuth | the server owes nothing: timer and interrupt bring a call back. Only that discovery and token endpoints answer is assumed, for they have no timer |
| `NobodyWaitsForever` | reader and writer of both processes, the forwarder | a dead process closes its pipe. Neither a turn nor a browser owes a step: who waits for a turn that goes on, or forwards to a browser that no longer reads, may wait; nobody else may |
| `ChoosingEnds` | the loop and each turn | threads run; the keychain's commands and the classifier's call have a timeout |

Everything else is safety and needs no fairness.

## What is proved

Every safety property that a passing run checks, invariant or action property,
is stated by a theorem. Each theorem is about every value of the constants its
module's assumptions allow. Hardly any of the properties is inductive alone;
what follows says what its invariant adds. TLC checked the invariants on the
instances of the runs before they were proved.

`ChatLogProofs`, for every set of turns, every batch size and any number of
rows:

* `TypeCorrect`, `ExclusiveDistillation` (`ClaimsDisjoint`),
  `NoDuplicateEpisode` (`EpisodesDisjoint`), `NothingForgottenButLost`
  (`ConsolidatedAccountedFor`): a row that is marked is in a turn's hands, or went
  with a lost turn, or its distillation has ended and all that the answer carried,
  facts and episode, is stored. An answer that carries neither settles its rows
  (last section);
* `LogImplementsClaims`: `Spec => ImplementsClaims`, the log refines
  `ExclusiveClaim` with open items = rows not consolidated, work = `held`,
  kept = consolidated and held by nobody.

`IInv` adds that a turn holds rows only while it is past its claim
(`HeldByPosition`), that held rows are marked (`MarkedRows`: this is what makes
the next claim miss them), and that a turn that is through has released what it
did not keep (`FinishedIsReleased`). The refinement lemmas map every step to a
step of `ExclusiveClaim` or to a stutter.

`TurnEngineProofs` begins with the bridge alone, for every set of turns and every
number of questions: consent (`BridgeConsent`), a true audit (`BridgeAudit`), no
question left behind (`BridgeBuckets`) and types. `BridgeIInv` says that
questions are numbered by the counter and none beyond it has been asked
(`Numbered`), that no two turns have asked the same one (`OwnQuestions`: one
turn's timeout must not close another's channel), what a pending future knows
of its channel (`BridgeKnows`), and that a yes is sent and acknowledged
together (`Told`).

Of the engine that drives it, for every set of turns and every limit:

* `EngineDrivesBridge`: `Spec => DrivesBridge`, every step of the engine is a
  step of the bridge or leaves it alone; so `TurnsAskConsent`,
  `TurnsAuditTruly` and `TurnsLeaveNoQuestion` follow from the bridge's
  theorems;
* `EngineTypeCorrect`: a turn that goes on with an iteration has one left
  (`IterationIsLeft`), one that is at a tool has one that the response wants
  (`ToolsAreWanted`), and goals are numbered (`GoalNumbered`);
* `InterruptBites` (`OneStepAfterInterrupt`). The loop looks at the flag before a
  call and before a tool and then begins it, and the flag may go up in between:
  `OneLookAhead` says that a turn has begun nothing with the flag up as long as it
  may have looked before the flag went up, and at most one thing after that, over
  all the runs the Stop hook and the goal loop add;
* `GoalsAreLimited` (`ContinuationsBounded`), which counts the rounds of goals
  that are still there, for the limit does not bite once a goal is cleared (last
  section). The argument is an allowance: `MaxRounds - 1` for each goal
  set, less what the present goal has not been bumped through. A pursuer's
  continuations stay within it, one that a bump has just let through counted as
  owed (`WithinAllowance`). Setting another goal adds a whole allowance.

`SchedulerProofs`, for every set of jobs, every choice of minutes and any number
of crashes and of failing statements: `RunsAreClaimed` (`KnownRunsAreClaimed`),
`RunsAreNotRepeated` (`OnlyCrashesRepeatARun`), both of the jobs the table has not
failed (`troubled`), and `ScheduleTypeCorrect`.
`Claims` says where every job stands: of those with a row each is still to be
taken up by this boot, in hand, or settled, which means that memory and table
agree (`Handled`); nothing lies in the future and a claim lies after what was
fired before (`Past`); the run in hand is for a minute after the last one
(`InHand`). `History` counts: what was started lies no later than what the row
says (`Recorded`), so a minute that is newly claimed has not been run (`Fresh`),
and a claim whose run is not under way has been run only as often as crashes cut
it short (`Owed`). That the latest missed minute is one of those missed, `Max`
being a CHOOSE, is a lemma of its own by well-founded induction on the minutes
above.

`JobLedgerProofs`, for every set of processes and any number of jobs:
`OneDaemonPerHome` and `NobodyBowsToTheDead`, as long as no two app-servers are
started at the same instant and none that lives is taken for dead (`Orderly`), and
`LedgerIsTrue`. Pids are given out again, so that an app-server may be turned
away by a file whose writer is gone: `NotRefusedByTheDead` says that then somebody
else bears the pid in it. Of the lock, `Unraced` says
that one process acquires at a time, that the file is the acquirer's while it
writes its pid and a daemon's as long as that runs (`Held`), that who has read
it has read every daemon there is (`ReadIsTrue`), and that a second attempt
finds no file (`FirstTry`). Of the ledger: a process's jobs are numbered by its
counter, a row belongs to who inserted it, and only a job that has ended is
reported.

`GraphProofs`, for every graph that can be built, whatever nodes return and
routers say: `EveryGraphIsBounded` (`LoopsAreBounded`) and `GraphTypeCorrect`.
While a wave is planned each of its nodes has a visit left (`VisitsLeft`); once
it runs it fits into the steps that are left, and merging uses them up one by
one (`StepsLeft`). `JoinsWaitForAll` (`JoinsRunOnTheirInputs`): an edge into a
node has fired exactly when its source has passed control on (`FiredTruly`), a
node that nothing jumps to is planned on its inputs only and runs once
(`RunsOnce`), and planning passes over none that is due (`NoneLeftOut`).
`ParallelWritesAreKept` (`NoWriteLost`): while a wave is merged, what its nodes
so far wrote is on the board and among the keys a later one may not write
(`WritesKept`).

`BriefingsSpeak` (`BriefingSpeaks`) is about one graph of them, which the
hypothesis `GatherIsBound` says: `Gather` is among the graphs under its name,
its nodes return what `cli/gather.rs` lets them, and the steps allowed are no
fewer than its six nodes (`DEFAULT_MAX_STEPS` is 25). Who was started is merged
or still to be (`Accounts`), and only once where there is one visit each
(`NoneTwice`), so that the run fits its steps (`OneVisitFits`). A scan never
fails, and one that is through has left its count (`Briefed`); the draft was
asked for exactly when the synthesis is through and there is something to
propose (`Drafted`).

`McpProofs`, for any number of callers, any threshold and any server:
`NoAnswerGoesAstray` (`AnswersReachTheirCall`) and `BreakerOpensInTurn`
(`BreakerIsEarned`). Numbers are given out once (`Numbered`), and every line in
either pipe has the number of the task it is for, or of none that still waits
(`Owned`): a late answer can only be passed over. The breaker counts what was
recorded last (`BInv`). For any number of processes with one token store,
`StoredSignInSurvives` (`StoreSurvives`): the temporary file is never the file
itself (`Apart`: a rename moves the name, so the next save makes a new inode);
as long as no two saves have overlapped one save is under way (`OneSave`), and
what it holds is no less than what is owned, all of it in the temporary file by
the time that is renamed (`SaveKnows`).

`ConversationProofs`, for every number of turns, every window and sessions of
any length:

* `RollupTypeCorrect`;
* `WatermarkIsBehind` (`WatermarkStaysBehind`), however many refreshes race and
  whatever else fails. `Behind` follows a refresh through its steps: what it may
  save reaches no further than what had left its window when it read the log
  (`Reaches`);
* `NothingIsForgotten` (`CalmTurnsForgetNothing`) and `SummaryIsWhole`
  (`CalmSummaryCoversWatermark`). `Calm` says that as long as nothing is
  disturbed one turn is in flight (`Alone`), the summary speaks of every
  exchange up to the watermark (`Covered`), and what the turn has read of log
  and rollup is still so at each of its steps (`Current`).

and for every file of hooks, any number of commands per event, every way they
may end and turns of any length:

* `GatesHold` (`RunsAreCleared`). `Cleared` says what is known of a call at each
  stage; the heart is that a refusal is in the outcome of the firing under way,
  so that whatever is merged into it later leaves it there.
* `CirclesAreSeen` (`StallsAreNoticed`), where the threshold of equal calls is at
  most four (the code's is 3): a period of one and the same call, two of which are
  four calls at least, is left to the rule of equal calls, and with a higher
  threshold neither rule would see it (`ClassifyMeans`). `Watching` says that the
  guard keeps the end of all it has observed; `TrimmedIsEnough`, that what it has
  let go of makes no difference.
* `RequestsAreCut` (`RequestsFit`) and `WarningsSurvive` (`WarningsAreRead`).
  `Reckoned` says that while results are being cut those that still can be are
  to come, and `Kept` that a result that was cut fits the stub's budget and one
  that was not still ends with its warning. The lemmas say of the lengths that
  the cost of two texts together is the sum of theirs, that the head and tail a
  stub takes fit what it reserves for them, and that the order of trimming
  leaves no candidate out.

`ServerProofs`, for any sets of users, calls, profiles and turns:

* `Models`: `ModelsTypeCorrect`; `AnswersLast` (`AnswersOutliveRestarts`), for
  which `ModelsWritten` and `KnobsWritten` say when the files are what was
  promised, and when a step behind; `AcceptedStarts` (`AcceptedConfigBoots`): the
  only thing for which a start refuses what requests were granted is an answer
  longer than the window (last section), and then all else of it is good. It
  rests on what config/write and the remembered commands let through one by one
  adding up to a file that is good (`ValidPatchFits`), also where writes fail;
  `CacheIsFresh` (`CalmCacheIsFresh`): an entry that is not fresh was
  crossed, or is about to go with the whole cache (`CacheFresh`), and a turn that
  was not crossed has the profile as it is (`Uncrossed`). A profile is crossed
  when a turn resolved it while it was changed; all are when a write of profiles
  or keys failed.
* `Wire`: `RequestsAreAnswered` (`AnsweredUnlessKilled`): a call that reached the
  server is still to be read, a running turn, or its answer is on the way
  (`Accounted`), unless the server was killed or the client has stopped reading
  (`deaf`). `OrderIsKept` (`ReadsSeeEarlierWrites`): what is still to be
  read are the last requests sent (`InOrder`), and an answer that is on the way
  or there tells a read all that was acknowledged before it was sent
  (`Remembered`). `StreamsAreTrue` (`StreamsTellTheirTurn`), where no two turns
  are of one session (`OneTurnASession`): a stream knows its turn's first frame
  by the session alone (`api.rs:592-615`). `Line` follows the frames of a turn
  from the browser back to the server.
* `Hub`: `InUseIsNeverClosed` (`PoolSparesWhatIsUsed`), an action property: no
  entry in use is closed, and a pool over its limit keeps no idle one of those it
  had. `HubOrder` says that the pool is finite and `older` a strict total order
  on it; by it, where an idle entry is left, as many were evicted as had to be.

The assumptions are those named in the modules, on types and sizes of the
constants. Two are about the environment: `SaysAssumption` (what a hook's command
is recorded to have said is what it wrote) and `TextAssumption` (tools and hooks
give back text). Three theorems have a hypothesis of their own, told above:
`BriefingsSpeak`, `CirclesAreSeen` and `StreamsAreTrue`. The instances of the runs meet every one of them.

Facts about data are proved where they can be reached by a least counterexample
in a well-founded order, as a set (sums of lengths, the first step at which a
cut no longer fits, the latest missed minute, the least used entry); the
induction theorems that take an operator are out of the provers' reach.

Only model-checked: liveness, which needs fairness or `ENABLED`. These are
`ClaimsAreSettled`, `TurnsEnd`, `InterruptedIsRunAgain`, `MissedIsMadeUp`,
`RunEnds`, `CallsReturn`, `NobodyWaitsForever` and `ChoosingEnds`.

## Where code and documents disagree

Two findings of `PROJECT.json` have a run: job ids collide across restarts
(`jobs_ids`), and a table of remembered commands that is the only thing ever
saved is deleted instead of written (`models_forget`). The others below were met
while modelling and are told here; where a property would fail because of one,
it is stated with the exception named.

Turns, history and memory:

* Rows are marked as distilled before the model is called
  (`consolidation.rs:57`), where the module doc says that marking comes after
  success (lines 11-12): a process that dies in between strands them.
  `ConsolidatedAccountedFor` counts them as lost with their turn.
* An answer that parses and has neither facts nor an episode in it settles its
  rows all the same (`consolidation.rs:116`, `144-153`): nothing tells of them.
* A watermark that cannot be read counts as 0 (`compaction.rs:186-192`), while
  the text read before it may carry the true one: their sum runs ahead of what
  has left the window, and exchanges up to it are never summed up. A text that
  cannot be read (`compaction.rs:202`) is taken for none, and the new summary
  starts without it.
* An interrupt is looked at between steps of the agent loop only. The judge is
  asked about an interrupted turn (`turn.rs:303-304`), a run added by the Stop hook
  begins with its gate and summariser (limitations.md:333-337 calls that
  deliberate), and the turn may distil (`turn.rs:534`). `OneStepAfterInterrupt` is
  about the loop's own calls and tools.
* `refresh` reads the summary's text and its watermark in two queries
  (`compaction.rs:202`): a save in between pairs an old text with a new
  watermark, and exchanges are in neither window nor summary.
* When the summariser fails, the excerpt is the first 600 characters
  (`compaction.rs:93`) of the previous summary and the evicted turns together,
  so a long summary crowds out all that was just evicted, where
  limitations.md:323-324 says "rather than dropping the evicted turns".
* A turn that is continued by a Stop hook or a goal keeps only its last run's
  result (`turn.rs:270`): tool calls of the runs before are neither reported nor
  folded into the summary, which `turn.rs:412-413` promises.
* A goal cleared while a turn pursues it is bumped no more (`goal.rs:84`), so
  the limit of rounds (`goal.rs:8-9`) does not bite. A goal set while the judge
  is thinking is stamped with the verdict on the one before (`goal.rs:94`).
* `answer_approval` returns true for an answer whose question timed out between
  taking the sender and sending (`AcceptedWasHeard` of `Approvals` is false;
  the doc at `lib.rs:380` promises otherwise).

Scheduler, jobs and lock:

* A claim that cannot be written is passed over (`schedule.rs:387`, `404`) and the
  job runs unclaimed; so are confirmations, failed reads count as nothing found,
  and a job that cannot be registered at boot is not recovered. The properties
  leave out the jobs the table has failed.
* Who resumes an interrupted run confirms it as of now (`schedule.rs:330-357`) and
  looks no further: a minute missed between the claim and the restart is run by
  nobody, against `schedule.rs:32-34`. `MissedIsMadeUp` names the case.
* An app-server is turned away by the file of one that crashed, if its pid has
  since been given to another program, or to itself (in a container every start
  may have the same one): `kill -0` asks only whether there is such a process
  (`lock.rs:86-96`), where lock.rs:9-11 promises to clear a leftover away. And a
  `kill` that cannot be started counts as "dead": the file of one that runs is
  removed.
* A job declared while `joy schedule` runs gets its row at the next boot only:
  until then its claims update nothing (`schedule.rs:404`, against
  `schedules.rs:8`) and a crash repeats or swallows its run.
* `docs/internals/10-cli.md:124` describes `catch_up = false` as leaving missed
  runs alone; `schedule.rs:362-395` makes them up regardless and uses
  `catch_up` only for interrupted ones.
* Two app-servers started at once can both run: the file is created and filled
  in two calls, an empty file is taken for a leftover, and removal goes by name
  (`lock.rs:34-72`). `OneDaemon` is therefore stated for `~raced`.
* The REPL, `joy schedule` and `joy gather` reconcile the ledger without the
  lock, so they mark the jobs of a live app-server interrupted until those end.
* A job whose recording is interrupted leaves a row `running` until the next
  start although its child died with the future.

Graph and briefing:

* `GraphError::Collision` ends a run without the `Ended` event. The target of
  `on_error` is not validated when a graph is built.
* `gh` is awaited without a timeout (`cli/gather.rs:169-175`): one that hangs
  holds the whole briefing (`HeldUp`).
* The calendar's output is taken for "no events" when it begins with "("
  (`cli/gather.rs:44-50`), also when an event's title does.

MCP:

* A request of the server's own that bears the number the client is waiting for
  is taken for the answer (`transport.rs:117`), where limitations.md:104
  promises an explicit refusal; `AnswersReachTheirCall` names the exception.
* When the breaker is half open every waiting caller passes, not one probe. A
  request written after one that was dropped in mid-line is lost with it, and
  its caller times out. The reader's loop ends on a line that is not UTF-8.
* Two processes that save at once share one temporary file and can tear the
  token store (`StoreSurvives` is stated for saves that do not overlap).
* `SIGN_IN_TIMEOUT` is not looked at while a connection is being read
  (`oauth.rs:357-375`), and discovery and refresh at startup have no timeout
  (`joyczl-mcp/src/lib.rs:232`).

Server, client, dashboard:

* An app-server that died stays in the pool and answers its user's requests
  with errors until it is evicted or swept as idle (`hub.rs:216`). The comment
  in `client` that spawning happens outside the lock does not hold: the lock is
  held throughout, which is why `client` is one step of `Hub`.
* `api.rs:36-41` says that what waits for the browser is unbounded on purpose, lest
  the forwarder be stuck; the channel is bounded (`api.rs:521`), and the forwarder
  does wait on it for a browser that does not read (`api.rs:580`).
* When reading the server's output fails (`client.rs:172-174`) those who wait are
  told, but the server lives on and later calls wait for answers that nobody
  reads (`deaf`).
* Two turns in one session mix their streams, and a stream that lagged over the
  notification that starts or completes its turn does not end by it
  (`api.rs:538-590`). `/api/data` shows as of one instant what four requests
  fetched one after the other.

Configuration and models:

* Memory is changed before the save that may fail (`app-server/models.rs:262`):
  what was answered as failed is in force until the restart. `model_remove`
  ignores a failing save, and the vendor and key of a removed active profile
  stay in use until then.
* A profile resolved by a turn while it is changed is put into the cache that
  has just been cleared (`route.rs:154`), and stays there. `CalmCacheIsFresh`
  leaves those out (`crossed`).
* When the keychain is silent on a put, the key goes to the file and an older
  one in the keychain wins. An unknown vendor with a `base_url` is accepted and
  never resolves.
* `config/write` accepts a `max_tokens` of `JOY_CONTEXT_WINDOW` or more, which
  the next start refuses (`config/src/lib.rs:469`). The run has such a window,
  and `AcceptedConfigBoots` names it as the one thing a start may refuse.
  A torn `models.json` or `settings.json` reads as empty.
* `secrets.json` is rewritten in place (`config/src/models.rs:255`): a failing write
  may lose all keys in it, also those of other profiles. That a key could not be
  removed is told to nobody.

Tools and hooks:

* A `hooks.json` changed while Joy runs is not run any more, and neither is what
  it was before: its gates let everything pass, where rule 3 of the module doc
  (`hooks.rs:19-21`) would rather stop and be seen. The payload is written to a hook outside its timeout
  (`hooks.rs:350`): one that never reads can hold a turn.
* The check that the sandbox can be had comes after the question to the person;
  the command is refused all the same.
* Trimming cuts the largest result first, which does not always cut the fewest
  (`budget.rs:97`); with CRLF lines a stub's head and tail can overlap. The
  guard cannot see repeats of a `run_command` whose output is spilled, for the
  path of the spill file has the time in it. Its warning is cut off where the
  budget of one result leaves no room for it (`WarningsAreRead` is stated for
  stubs that have), and the count in it stops at 8.

## What is not modelled, and why

The components table of `PROJECT.json` lists every part with what is left out.
In short:

* Model providers, retrieval, skills, the memory gate, embeddings, the tools
  themselves: conversions and I/O, one step of the models that returns or fails.
* Subagents: a run of the same loop inside one tool call.
* The chat gateways and the SDKs: clients of the line protocol of `Wire`; what
  the platforms deliver, twice or out of order, is theirs.
* Rendering, prompts, logs, traces, generated types, the evaluation harness.
* SQLite: one statement is one atomic, durable step. The file system: one call
  is one step, a rename is atomic.
* Of modelled parts: the wake-up of `Interrupt` (one flag in the models, a flag
  and a `Notify` in the code), the ring of a job's output and its log, the
  texts of tool results beyond the lengths of their lines (line feeds only),
  eight of the ten fields of the settings, workspaces, probing an endpoint.
