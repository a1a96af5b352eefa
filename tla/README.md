# Verification of aidash

aidash measures language models on one Mac: it starts a model server (a Python child
process), runs a request against it, stops it, and compares the runs. A Rust core
(`src/core/aidash-core`) does the work, a bridge (`src/core/aidash-frb`) exposes it to a
Flutter app (`src/app`), a command line (`src/core/aidash-cli`) uses the core directly.
A model server takes most of the memory of the machine, which is why the promises that
matter here are about processes and their owners: there is one server at a time, none is
left behind, a run says truthfully how it went, and nothing waits for ever
(`src/docs/technical-spec.md`, section 3).

The modules of this directory model the parts of the system that keep those promises. Each
definition is translated from the source; `PROJECT.json` gives the lines ("map"), and lists
the hazards of the code with the properties that watch them.

    tlc -workers 2 -config LifecycleSafety.cfg MCLifecycle      model-check a run
    tlapm LifecycleProofs.tla                                   check the proofs

## 1. Inventory

### Components, their state, their operations

| component (source) | state | operations | what makes it correct |
|---|---|---|---|
| Lifecycle actor (`lifecycle.rs`) | `LifecycleState`, the active session, three deadlines, the command channel (32), watch channels for state and port | commands Start, Stop, Abort, BeginWork, EndWork; child exit; health poll; deadlines; Killing; cleanup | owns a child exactly while its state says so; abandons no process; no state without a way out; a session never sees the results of another |
| Child processes (`pyproc.rs`) | the process group | spawn, exit, SIGTERM with a grace period, SIGKILL, reaping | a process whose session is over has been killed |
| Watchdog (`watchdog.rs`) | one task per session | soft warning, hard kill through the command channel | a server over the hard limit dies, and only that one |
| Benchmark cycle (`bench.rs`: `execute_cycle`, `finalize_cycle`, `run_single_with_id`) | position of the run, what it saw, the outcome, the row | start, load wait, port wait, measure, stop, record, abort | ends; records what happened; leaves no server |
| Benchmark session (`api.rs`: `bench_*`, `state.rs`, `bench_screen.dart`) | `bench_task`, `bench_events_tx`, `ACTIVE_BENCH_ABORT_TX`, the screen | `bench_start`, `bench_events`, `bench_abort`; the task; a screen that comes and goes | one session at a time, always within reach of an abort; nothing stale keeps the next one out |
| Context limit search (`bench.rs`: `run_limit_search`) | the bracket | probe, narrow, stop | the answer has worked and is close; it ends |
| Sweep, A/B and quantisation plans (`bench.rs`) | a list of runs, their rows, a summary | next run, skip, failure, error, winner | a failure ends a sweep and nothing else; every step is accounted for; the winner was compared fairly |
| Resource monitor, watchdog, recorder (`monitor.rs`, `watchdog.rs`, `sys_memory.rs`, `SampleRecorder`) | the process tree, samples on the bus, limits, peak | sample, refresh, warn, kill, record, poll the server's figures | no server stays over its limit; a kill can be understood from what was recorded; no task is left |
| Model download (`api.rs`: `hf_download_*`, `hf_cache.rs`) | `download_task`, `download_cancel_tx`, the child | start, progress, cancel, end | one at a time; can be cancelled; a cancel holds |
| Model cache (`hf_cache.rs`, `python/tools/hf_cache.py`, `model_manage_screen.dart`) | the cache directory, the list on the screen, the free disk | scan, delete, look at the disk, fetch | a model in use is not deleted; the reserve of the disk is kept; the list is right |
| Serve session (`api.rs`: `serve_*`, `chat_send`, `chat_summarize`; `chat_screen.dart`) | `serve_handle`, `serve_profile_id`, what the screen shows | start, wait, stop, requests; the functions of the screen | one chat server; none lost; the screen tells the truth |
| Conversations (`chat.rs`, `chat_screen.dart`, the chat rows of `db.rs`) | rows, and the history on the screen | new, select, delete, question, answer, summary | an answer belongs to its conversation and follows its question; the screen does not wait for ever |
| Streaming client (`client.rs`, `chat_send`) | the stream of a server, the bus, the sink | read, time out, forward, end | what is stored is a prefix of what was produced; every question ends |
| Schema of the store (`db.rs`: `open`, `migrate_schema`) | tables, columns, `user_version` | four migrations, statement by statement | no row is lost by a kill; a store that was opened shows all of them |
| Run store (`db.rs`, `export.rs`) | models, runs, results, samples | the six statements of a run, delete, list, export | rows belong to whom they name; a verdict is final; what is announced is what is deleted |
| Evaluations (`eval.rs`, `eval_templates.rs`) | a server, marks, the table of results | load, ask, mark, store, group | a finished one has no server; a score is earned; a run is one entry of the history |
| Ranking (`stats.rs`, `tps_tier.rs`, `compare_models`) | derived | nearest context, representative run, order | the views agree |
| Profiles (`profile.rs`) | one file for each model | draft, link, retask, load | a setting is kept; a drafter stands alone; the draft is consistent |
| Authentication (`auth.rs`) | four sources of a token, the status | set, verify, import, clear, status | only confirmed tokens are kept; the status is about one token |
| Environment (`bootstrap.rs`, `env_detect.rs`, `tools.rs`) | uv, sources, virtual environment, version marker | the steps of a setup, single fixes | done means whole; a child's output is read to its end |
| Command line (`aidash-cli`) | the command under way | checks, runs, change, exit; `serve start` and `chat` with a server of their own | the exit code is right; a refusal leaves nothing; no server is left |
| Python model servers (`python/adapters`) | model loaded or not | load, fetch, `/health`, generate | honest `/health` |

Without state that a model checker would learn something of: the core facade, the generated
bridge, the screens that only show what they are given. `PROJECT.json` lists them with
the reason.

### How they interact

* A client (cycle, serve session, command line) holds a `LifecycleHandle`: an mpsc sender
  of commands, and receivers of three channels (a broadcast of events, a watch of
  the state, a watch of the port). Nothing orders what two of them say.
* Every cycle and every chat server has a lifecycle actor of its own; the actors do not know of
  each other.
* The watchdog and the detached task of a graceful stop outlive the state in which they
  were started: they talk to the actor by the command channel and to the child by signals.
* The bridge keeps everything in one `AppState` behind a mutex, which every call takes
  for a moment, drops across its awaits and takes again; the tasks it spawns take it once more
  when they end.
* The screens call the bridge from asynchronous functions that interleave at each await,
  and go on running after their screen was left.

### What is hard

Exit, poll answer, deadline, command and kill reach the actor in any order; two handlers
await in the middle (`poll_health`, `enter_cleanup`). State is read under a lock and used
after it (`bench_start`, `hf_download_start`, `serve_start`). A task is dropped at an
await and never gets to its end (`bench_abort`, `hf_download_cancel`). Timeouts race with the
answers they wait for. A command channel may be full when the watchdog needs it. A command
may overtake the Start it is about. Several programs share one SQLite file and one directory
of profiles, with statements and writes that a kill may cut anywhere. Tokens, samples and states
share bounded buses whose readers lose the oldest. All of these are listed in `PROJECT.json`
"hazards", at their lines.

## 2. Modules

| module | models | composed of | properties in |
|---|---|---|---|
| `ServerSlot` | abstract: what a handle promises its owner | implemented by `Lifecycle` | theorem `ImplementsSlot`, run `lifecycle_live` |
| `Lifecycle` | the actor, child, watchdog, grace task, any clients | implements `ServerSlot` | `LifecycleProofs`, runs `lifecycle_*` |
| `BenchCycle` | one benchmark run over the full actor | EXTENDS `Lifecycle` | `LifecycleProofs`, runs `cycle`, `cycle_port` |
| `BenchSession` | sessions, their tasks, the abort sender, the bench screen | begins and ends cycles | `BenchSessionProofs`, runs `session`, `session_two` |
| `ServeSession` | chat servers: bridge calls, handles, chat screen | each handle by what its clients see | `ServeSessionProofs`, run `serve` |
| `MemoryWatch` | monitor, bus, watchdog, recorder | one session of the actor | `KeptProofs`, run `flows` |
| `Download` | download calls, tasks, child processes | | `FlowsProofs`, runs `flows`, `download_orphan` |
| `LimitSearch` | the bisection | every probe is a cycle with any outcome | `PlanProofs`, run `flows` |
| `BenchPlan` | sweep, battle, comparison; the prompt of a context | runs by their outcomes | `PlanProofs`, run `flows` |
| `Conversations` | the chat screen's conversations and their rows | answers by their ends | `FlowsProofs`, run `flows` |
| `ChatStream` | one streamed answer | | `FlowsProofs`, run `flows` |
| `StoreSchema` | opening and migrating the store | | `StoreProofs`, run `flows` |
| `Setup`, `ChildOutput` | the environment; the pipes of a child | | `FlowsProofs`, run `flows` |
| `Cli` | the commands: checks, runs, change, exit code | runs by their outcomes | run `flows` |
| `CliServe` | the commands with a server of their own | the actor by what its handle shows | `FlowsProofs`, runs `flows`, `cli_orphan` |
| `RunStore` | the rows of measurements, deletion, export | | `StoreProofs`, run `store` |
| `EvalRun`, `EvalText` | evaluations; their prompts and marks | the actor by whether it answers | `MeasureProofs`, run `store` |
| `Ranking` | what is shown of the measurements | | `MeasureProofs`, run `store` |
| `ProfileFiles`, `ProfileDraft` | the files; what is in them | | `KeptProofs` (the files), `MeasureProofs` (the drafts), run `profiles` |
| `Auth` | sources of the token and the status | | `KeptProofs`, run `profiles` |
| `CacheUse` | who reads, fetches, deletes and lists models | | `KeptProofs`, run `profiles` |

`MC*` modules define the sets and symmetries the configurations use. Three of them put
modules together that share no state, so that one run of TLC answers for all: in every behaviour
of `MCFlows` (modules with liveness properties), `MCStore` and `MCProfiles` (safety only) one
module moves, chosen by `part`, and the others rest in an initial state. Fairness is asked of
the one that moves. Such a run checks exactly what a run per module would (for `MCStore` and `MCProfiles` this is proved: `EachIsItself`): `MCFlows`, 125,172
states, 2 programs on one store, 3 questions in 2 conversations, an answer of 3 tokens, plans of
2 steps, 2 setups, pipes of 2 lines, 2 downloads, contexts below 9; `MCStore`, 291,753 states;
`MCProfiles`, 3,408,782 states.

Each module ends with its properties, stated part by part, and with the conjunction of them
that the runs check:

| checked | module: parts |
|---|---|
| `StatesAreKept` | `Lifecycle`: `TypeOK`, `ActiveMatchesState`, `DeadlinesMatchState`, `ServingIsLoaded`, `PolledIsOwn`, `IdleIsReleased`, `KillingIsDoomed`, `GraceIsForStopped` |
| `ActorMovesOn` | `Lifecycle`: `StartConverges`, `WatchdogKills`, `CrashIsNoticed` |
| `OutcomeIsRight` | `BenchCycle`: `CycleTypeOK`, `OutcomeIsTrue` |
| `RegisterIsKept` | `BenchSession`: `TypeOK`, `NoStaleTask` |
| `PatientSeesOneServer` | `ServeSession`: `TypeOK`, `OneServer`, `ScreenIsRight`, `BusyIsAsked` |
| `StoreSurvives` | `StoreSchema`: `SchemaTypeOK`, `OldRowsExist`, `RowsAreSeen`, `VersionIsTrue` |
| `ConversationsAreOwn` | `Conversations`: `ChatTypeOK`, `HistoryIsOwn`, `AnswerFollowsQuestion`, `AnswersKeepQuestions` |
| `AnswerIsTrue` | `ChatStream`: `StreamTypeOK`, `StoredIsPrefix`, `OnlyCompleteIsStored` |
| `PlanIsTold` | `BenchPlan`: `PlanTypeOK`, `SummaryIsStored`, `OnlyLastIsLeft`, `SweepStopsAtFailure`, `EveryStepIsTold`, `WinnerIsFair`, `PromptFits` |
| `SetupIsTrue`, `OutputIsTrue` | `Setup`: `SetupTypeOK`, `UpToDateIsTrue`, `DoneIsWhole`; `ChildOutput`: `LinesAreAccounted`, `StatusIsLast`, `StuckIsFull` |
| `OwnServerIsClean` | `CliServe`: `CliServeTypeOK`, `OwnEndIsClean` |
| `SearchIsRight`, `DownloadIsHeld` | `LimitSearch`: `TypeOK`, `BracketParts`, `AnswerIsClose`; `Download`: `DownloadTypeOK`, `ActiveIsCancellable` |
| `KillIsExplained` | `MemoryWatch`: `WatchTypeOK`, `PeakExplainsKill` |
| `EverythingEnds` | the liveness of the modules of `MCFlows`, and `EveryProbeNarrows` of `LimitSearch` |
| `RowsAreRight` | `RunStore`: `StoreTypeOK`, `NoOrphans`, `RowsAreOwn`, `ModelIsOwn`, `CompletedIsMeasured`, `AnnouncedIsDeleted`, `ExportIsWhole`, `RunningIsAtWork` |
| `EvaluationIsTrue` | `EvalRun`: `EvalTypeOK`, `FinishedIsReleased`, `CompletedIsWhole`, `EntriesAreRuns`, `OneRunOneEntry` |
| `PromptIsRight` | `EvalText`: `TextTypeOK`, `NeedlesAreWhole`, `PromptIsAll`, `NeedlesAreDeep`, `PromptIsInContext`, `MarksAreEarned` |
| `RankingAgrees` | `Ranking`: `RankTypeOK`, `ViewsAgree`, `NearestIsShown`, `OverviewIsRanked`, `SpreadIsOrdered` |
| `MeasuresTakeEffect` | `RunStore`: `VerdictIsFinal`; `Ranking`: `NewMeasureShows` |
| `FilesAreRight` | `ProfileFiles`: `ProfilesTypeOK`, `DraftersStandAlone`, `BrokenHasCause`, `SettingsAreKept` |
| `DraftIsConsistent` | `ProfileDraft`: `DraftTypeOK`, `IoIsOfTask`, `BackendServesTask`, `BackendComesBack`, `ContextIsExtendedOnce`, `DefaultIsInContext`, `SweepReachesTheEnd` |
| `TokensAreConfirmed` | `Auth`: `AuthTypeOK`, `KeychainIsVerified`, `ShownIsOneToken`, `DoctorAgrees` |
| `CacheIsRight` | `CacheUse`: `CacheTypeOK`, `UsedIsCached`, `DiskKeepsReserve`, `ListIsCurrent` |
| `ChangesTakeEffect` | `ProfileFiles`: `OnlySettingsReplace`; `Auth`: `SetIsUsed` |

The others are checked under their own names. Among the definitions stand variants of an operation
(`EnterKillingNoKill`, `SeesCancelLate`, ...), each a slip one could make in that handler, with
which the checks are tested: every property that is checked fails with one of them.

### Conventions

A handler that does not await is one action. A variable has the name of the field it models,
in the case of the module. Boolean and log-only detail is left out. "History" variables are
read by no action; they record how the user behaved so that a property can be stated for a
patient user without forbidding the impatient one: `hurried` (acted again before the last
call returned), `hasty` (sent Start to a handle that was not idle), `user`, `overtaken` (a
Stop was sent before the Start of its handle), `unreaped` (cleanup gave up on a process),
`moved` (left a conversation during a question), `robbed` (deleted a row under a session),
`raced` (started a server into the deletion of its model), `byHand` and `edited` (wrote a
profile), `crowded` and `unfollowed` (others fetched beside a download, or unseen), `failed` and
`unended` (a request broke off), `mixed`, `collided`, `mishaps`, `foreign`, `lagged` (two programs,
tasks or streams in each other's way). What happens in those cases is in section 4.

A liveness property over states that are never left again is written `[]<>`, which for them
means the same as `~>` and is checked on one graph for all of them.

### Lifecycle

`state`, `active`, `armed`, `port` are the fields and watch channels of `LifecycleContext`;
`inbox` is the channel. `handle_command` is the operations `Start*`, `Stop*`, `Abort*`,
`BeginWork`, `EndWork`; the other branches of the `select!` are `ChildExited`, `PollAnswered` and
`PollHandled` (one per side of the await), `StartTimesOut`, `StopTimesOut`. `enter_cleanup` is
`BeginCleanup` (inside the action that calls it), the state "Cleanup", in which nothing
else of the actor runs, and `ReapConfirmed` or `ReapGivesUp`. A process is the session
that spawned it: `alive`, `phase` (spawned, responding, loaded), `killed` (its group got
SIGKILL; `Dies` follows). `WatchdogTrips`/`WatchdogSends` and `GraceOver` are the two
helper tasks. Clients send any command at any time (`Send`).

Abstracted: time (a deadline may fire at any moment while armed), process groups (one
process per session; the group signals reach all of it), the reason of an exit. Left out: log
events, the value of the memory limit, a foreign process on the port, reuse of a pid,
the instant in which a failed start is in Spawning.

Runs. `lifecycle_safety`: two sessions, three commands in the channel (622,387 states up
to symmetry). Two sessions are what a late signal, answer or Abort needs to hit the wrong
one; three commands let a Start stand behind a Stop and an Abort of the session before.
`lifecycle_live`: the same with a channel of one, so that the watchdog finds it full,
without symmetry, with fairness (40,014 states): a start ends in Ready or Idle, the watchdog
always kills, a crash is always noticed, and the actor implements `ServerSlot`: `slot` is the
state in four phases, `owner` the active or reaped session, `running` the processes without
a SIGKILL. The number of spawns is bounded by `Session`.

Fairness. tokio's `select!` polls its branches in random order, so a branch that is ready
again and again is taken (SF). The mpsc channel serves waiting senders in order (SF for the
watchdog's send). Deadlines and the grace timer fire, `enter_cleanup` counts its
attempts, the kernel ends a process that got SIGKILL (WF). Nothing is assumed of the server,
its `/health`, or the clients.

### BenchCycle

The run replaces the clients of `Lifecycle`; `HandleMoves` is a step of the actor, after which
the run may have an unread event (`events`) and an unseen state (`changed`). `pc` follows
`execute_cycle`: `Registers` (the abort sender), `Starts`, the load loop (`LoadEvent`,
`LoadState`, `LoadTimesOut`), the port loop, which ends in `Measures` or, without a client for the
request, in `ClientFails`, the measuring `select!`
(`MeasureEvent`, `MeasureEnds`, `MeasureTimesOut`), `EndsWork`, `finalize_cycle`
(`Finalizes`, `Stopped`), `Records`. `Answered` and `RequestFails` are the spawned request;
`UserAborts` is `bench_abort`, `Dropped` the end of the aborted task at its await.

Only the events the run acts upon are kept (the state changes to Ready and Idle, the kill
of the watchdog); the timeouts are untimed; the lag of the broadcast is left out (256 events;
the run reads them in a loop). One session: a run starts one server. `QueueCap = 6` is
more than the run, its abort and the watchdog ever send.

Run `cycle` (40,500 states): a run that ended leaves an idle handle with no server, or,
if it broke off for want of a client, one that an abort still reaches (`EndedIsClean`), judges
itself by what happened in every order of events, answers and timers (`OutcomeIsTrue`), leaves no server when aborted after its Start
(`LateAbortLeavesNoServer`), and ends (`RunEnds`), except in one wait. Run `cycle_port` shows that
wait: a server that dies after Ready and before the port is read. The error path "server
port unavailable" is written for it and can never be taken, because the actor keeps its own
command channel open and so never ends (`bench.rs:626-646`, `lifecycle.rs:79`).

Fairness: that of the handle, the runtime polls ready tasks (SF on the branches of its
`select!`), timers fire, a request ends by its own timeout if nothing else.

### BenchSession

Three registers (`benchTask`, `eventsTx`, `abortTx`) and, per call, the position of
`bench_start` (two critical sections), of its task, its row, and of the screen. `work` goes
through the cycles of the mode (single or sweep), in which it may be stranded (`Strands`: the wait of
`cycle_port`), to the `tail`, the last critical section, which has
no await before it: an aborted task that is past its last await still runs it.

Run `session` (two sessions, 238,649 states): a stale task never stays registered, every
registered session leaves the register unless it is stranded, and for a user who waits for `bench_start` and aborts
nothing, a session at work is the registered one, subscribed to, within reach of an abort.
Run `session_two` (three sessions) shows why "aborts nothing" is needed: the tail of an aborted
session clears the registration of its successor, and a third is then admitted beside it
(`api.rs:1041-1044`). Three is what that takes; two suffice for everything else.

Fairness: calls and tasks run (WF), a cycle ends or is stranded, which is what `RunEnds` says of
it, a sweep has finitely many steps (SF on its end), the app reads its events.

### ServeSession

`serve_start`, `serve_stop`, `serve_wait_ready`, `chat_send`, `chat_summarize` and the functions
of the chat screen, as the path of a press through them: `Ensure` is the test of
`_ensureServe`, `TakesHandle` to `StopOpens` the stop (`serve_stop` and what the screen
does after it), `StartRefused` to `Started` the start, `WaitTakes` to `ShowsError` the wait,
`AsksSummary` to `Ends` the requests, and `BreaksOff` their way out by `?` between BeginWork and
EndWork. Which functions a press runs, and in which order, follows the screen: the
start button, a message, the stop button, another model or context, a conversation. `Reopens`
is the tab that is left and comes back with a fresh screen while the functions of the old one
go on. A handle is what its clients see of a `Lifecycle`: new, loading, ready, busy,
closing, idle; its channel; whether the server has said loaded. It may fail at any time.

Run `serve` (385,686 states): two presses of any kind, on a fresh app or on one whose server
is ready (the early press), one reopening, two models. Two presses are the least that
overlap; their calls interleave with the actors of up to three handles. `NoServerLost`: a
server the bridge no longer holds is being stopped, whatever overlaps, unless its Stop
overtook its Start. `OneServer` and `ScreenIsRight` for a user who waits for the screen to
settle. `BusyIsAsked`: Busy never outlives its
requests, unless one broke off (`unended`: until the next EndWork). `PressesEnd`: every press ends, apart
from one that waits for the Idle of a handle whose Stop overtook its Start.

Fairness: one WF on all steps of calls, commands and cleanups together, which is the
weakest that lets the system go on at all; the server and the user owe nothing.

Bound: a load timeout is longer than a command waits in a channel, so it is not taken for a
handle that has not yet seen its Start.

### Download

`hf_download_start` has two critical sections with the size and disk checks between them; the
task polls its cancel channel and its child every 100 ms; `hf_download_cancel` sends true and
aborts the task in one critical section. Run `flows` (two calls): an active
download is registered with its own sender, so that it can be cancelled and keeps others out,
for a user who waits (`ActiveIsCancellable`); a cancel, however early, is never lost
(`CancelHolds`). Run `download_orphan`: the abort drops the task before it looks at the
channel, and its child goes on (`api.rs:1701-1706`).

### LimitSearch

`Chooses` and `Ends` are `next_probe`, `Completes`, `FailsProbe` and `Breaks` what
`apply_probe_result` does with a run. `opts.fits` is a property of the machine no code reads: above it nothing
completes, below it a probe may still fail. Run `flows`: every range and machine with
contexts below nine, granularity 0 to 3, min above max included. The bracket separates what
completed from what failed, the answer is within the granularity, every probe narrows, the
search ends if its probes do: nothing is assumed of a run, which may wait for its port for ever. Nine contexts allow four halvings and both parities at each.

### MemoryWatch

`use` is what the processes of the server use, `tree` the ones the monitor knows (collected
again when it is a second old, `Counted`), `watchBus` and `runBus` what the watchdog and the collector of
the run have not read: each is a receiver of one broadcast and loses its oldest event when it is
full (`Received`). Limits are any a user asks for, or the default from any memory used before
(`DefaultLimit`). `Samples`, `WatchdogReads`, `WatchdogKills`, `EndsSession`, `Polls`,
`CollectorReads`, `TakesRecorder` are the tasks' turns.

`NoneStaysOver`: a server whose processes stay and whose footprint stays at the limit is
killed or ends, though it grew in a process started later and samples are lost among other events.
`PeakExplainsKill`: the recorded peak reaches the limit when the watchdog has acted, although the two
read apart and most samples make no row. `PollerEnds`: the poller, which nobody aborts, ends. Two
processes, a bus of two and one other event are the least at which a tree is stale and a
sample is lost. Fairness: the tasks run, the ticker ticks and the tree grows old (WF).

### Conversations and ChatStream

`Conversations`: `rows` are `chat_sessions` with their messages, `history` is what the next
question is sent with, `asking` the function `_send` between its awaits; the user creates,
selects, deletes and leaves meanwhile. A message is its question's number, a summary the set of messages it
stands for, so that a message that is lost from a prompt is seen. `HistoryIsOwn`,
`AnswerFollowsQuestion` and `AnswersKeepQuestions` hold for a user who does not leave a conversation
during a question (`moved`), summaries and refusals included; `WaitingEnds` likewise, unless the answer
fails (`failed`), of which nothing tells the screen.

`ChatStream`: the client reads lines and broadcasts tokens, a task forwards them to the sink, the
call adds the end, if the answer came to one, and aborts the task; an error adds nothing. `StoredIsPrefix`
and `OnlyCompleteIsStored` say what of an answer is stored when the end overtakes
tokens, the channel overflows or the stream breaks; `TextCatchesUp`, `AnswerEnds`. The number of tokens
that the end reports, which is the server's figure if it gives one, is left out. Three
tokens through a channel of two are what a lag takes. Fairness: client and task run, the timeout fires.

### StoreSchema and RunStore

`StoreSchema`: each script of `migrate_schema` is a list of statements (`execute_batch`
commits each alone), executed by two programs that were both let in, with one kill. `OldRowsExist`: rows of
an old store exist in a table or its copy, always. `RowsAreSeen`, `VersionIsTrue`,
`ReopenSucceeds` hold unless the first migration was cut or shared (`mixed`).

`RunStore`: two sessions write the statements of a run one after the other while somebody
deletes (after an announcement) and exports (three queries). Ids are rowids without
AUTOINCREMENT, so the id of a deleted row is given out again: this is why `RowsAreOwn`,
`CompletedIsMeasured`, `VerdictIsFinal`, `RunningIsAtWork` except rows deleted under a
session (`robbed`), and `NoOrphans` does not. One sample and two starts are enough for two runs
to meet in one id. `StoreSchema` is fair to the programs (WF each), `RunStore` has no liveness.

### BenchPlan, EvalRun, EvalText, Ranking

`BenchPlan`: the steps of `run_context_sweep`, `run_ab_battle`, `run_quant_compare`, each run by
its outcome, with the rows it leaves (a plan ends if its runs do); `Fill` is `build_context_fill_prompt` in bytes
(`PromptFits`). `EvalRun`: two evaluations at once, the server of each, their rows in one table,
and the history that groups the rows again by time (`EntriesAreRuns`, `OneRunOneEntry`). A request that
fails is marked like an answer, by the text of its error, so it may have any mark; `BreaksOff` is an end by `?`.
`EvalText`: the needles at every pair of depths at and about the boundaries, texts as sequences of
pieces with lengths (`NeedlesAreWhole`, `NeedlesAreDeep`, `PromptIsInContext`), marks from weights; at most
two needles (`MaxNeedles`) and three keywords (`MaxKeywords`), which are two of each that may be in each other's way and one
more. The prompt fits into its context when question and needles leave more than the least filler of 64 tokens
and the context has room for the blank lines around each needle (163 tokens and 8 for each): below that it may be longer (section 4).
`Ranking`: speeds and contexts that are missing, tied or substituted; the four queries against each
other (`ViewsAgree`). Arithmetic is over whole numbers; the code rounds where the model divides.

### ProfileFiles, ProfileDraft, CacheUse

`ProfileFiles`: two tools, files that are cut to nothing and then filled, ids that share a file
name, one kill (`MaxProfileKills`), and a user who removes files and writes one (`MaxEdits`), broken or with a
profile (`HandWritten`: a drafter of a model whose file is another's too), under any name, also one that
no id gives (`HandName`); he does so while no tool is writing. A setting is read from any file of its id and written to the
file named for it, so `SettingsAreKept` is about that file, and `OnlySettingsReplace` names the one it was read from.

`ProfileDraft`: every configuration the inference tells apart (words of the
name, tasks, formats, context and its extension), then tasks, loads and edits.

`CacheUse`: three models, the chat server and the benchmark with its cycles, one deletion, one download, two loads of the
list. What is stopped, aborted or cancelled is forgotten at once and dies later: `strays` are the models it
may still fetch. The disk holds two of the models, but not with the reserve; of one the hub tells half
of the size (`Reported`), and another disk (`Elsewhere`) has room enough for the small one to be let in, so that
every exception of `DiskKeepsReserve` occurs, and is needed. `UsedIsCached` excepts a server that was started between the
question of a deletion and its end (`raced`); `ListIsCurrent` is for a user who waits for what is
pending (`hurried`), and about models that the screen has fetched. Three acts of the user (`MaxActs`) are a deletion, a
download and a start, or a download, its cancel and another.

### Auth, Setup, ChildOutput, Cli, CliServe

`Auth`: two operations under way of three (`MaxOps`), two tokens, at first any in each source but the
keychain, which only this program writes; the hub answers late, refuses or
not at all. `Setup`: two screens, an app that is closed in the middle and replaced by a later
version, and the doctor's fixes; `DoneIsWhole` says what a success means when nothing was cut,
overlapped or fixed singly (`mishaps`). `ChildOutput`: pipes of two lines and up to four written to
each, which is what it takes to fill the one that is not read. `Cli`: each command by its
checks, its work and its exit code; it ends if its runs do (`CommandEnds`). `CliServe`: `serve start` and `chat` over the actor by its
handle, with a bus that overflows and Ctrl-C at any point. Fairness everywhere: calls and tasks
run, children write and end; Ctrl-C, the server and the user owe nothing.

Run `cli_orphan` shows a server that `serve start` leaves behind (section 4).

## 3. Proofs

The runs show their properties on small instances; the theorems state them for every set of
sessions, calls, conversations, evaluations, profiles, tokens, every number of needles, keywords, questions and runs and every capacity of a
channel or bus, for every finite set of models and processes. Every invariant and every property of steps that a run checks is stated by a theorem. What they assume of the constants stands in the
modules, is evaluated by every run, and says what the words mean: "none" is no session, call, row or
model; a channel has room for one; contexts, sizes, weights, limits and bounds are natural numbers; a speed or a time is one or missing;
the models and the processes are finitely many (they are added up); a model is not empty; a context is at most the largest u32 and a factor
is not 0; filler overshoots by less than a paragraph; a token is neither blank nor one of the words the status uses in its place.

Each proof has the same course. The property is seldom inductive: what a step relies on is written
down as further parts of an invariant (the ...`Inv` of the module), each with what it says in
words; the parts were model-checked before they were proved; a lemma for each action shows that it keeps
them; the theorem follows.

**`LifecycleProofs`**, the actor and a run over it. The invariants of the actor are inductive only together: an exit is
harmless because its state has an owner (`ActiveMatchesState`), a timeout because its
deadline belongs to its state (`DeadlinesMatchState`), Idle may forget its child because cleanup
has killed it. `IInv` is their conjunction with three facts that no run states: a
session that has not been spawned has left no trace (`UnbornIsUnused`, without which a new
session could be born killed), only cleanup reaps and only an active session is watched
(`ReapingMatchesState`), and who may have a process (`AliveIsKnown`). `Inductive` has a step
per action. From it: `TypeCorrect`, `NeverAnOrphan`, `AtMostOneServer`, `DeadlinesRight`,
`ServingIsRight`, `KillingIsRight`, together `StatesHold`; and `ImplementsSlot`, that each step is a step of
`ServerSlot` or a stutter. `AbortsAreOwn` needs the order of the channel as well
(`InboxIsOrdered`): while a session is active, every watchdog's Abort in the channel is its
own, because a client that starts idle handles only puts Start behind all earlier ones.

A run stands on it, in the same module. `RunIsClient`: every behaviour of a run over its actor is a behaviour
of `Lifecycle` with a client that is not hasty, so what was proved of the actor is true
in a run (`RunsHandleIsKept`: its states, no orphan, its own Aborts). `CycleInv` adds to `IInv` that
nothing is heard before the Start is taken and that there is one Start (`StartPending`), where a measurement
can be (`MeasureKnown`), from where on the outcome is decided (`OutcomeIsKnown`), and that a run
which has ended stays idle (`EndedIsIdle`). From it `OutcomesAreRight`, and with the actor's
invariants `EndsAreClean`: an ended run leaves an idle handle and no server, one that broke off its sender.

**`BenchSessionProofs`**, for any set of sessions. `TaskNeverStale` follows from `TaskInv`: a task exists only once
`bench_start` has returned. `OneSessionAtATime` follows from `AloneInv`, which adds that a
patient user has one call under way and that its second lock finds what its first one left.
`RegisterKept` is what the run checks.

**`MeasureProofs`**, what is made of configurations, measurements and answers. Its four modules compute over data, by folds, sorts and recursive functions, and the library's induction cannot be used with the
installed provers. The proofs go by the least counterexample instead: a set of natural numbers that is not empty has a least
member (`LeastExists`), so if a claim about every place fails somewhere, it fails somewhere first. That such a function exists, and what it is
one place further, is shown once for each shape: `FoldExists` for the fold over a set, of which nothing is known but that it chooses its next
element from what is left; `FoldGoesOn` for one over a sequence; `TotalSums` for a sum; `RanksList` for a list that is
written down by how many come before each (`InOrder`, `DeepestFirst`).

* `DraftsFit` (`ProfileDraft`) from `DraftInv`: the lengths of a draft are those of its configuration, its backend and types are
  of its task, and a plain backend is of a plain model, whatever was retasked, edited and loaded again. `SweepReachesTheEnd` is about the doubling of
  `generate_sweep_steps` and the extension of what is in a file (`SweepIsGenerated`, `SweepIsExtended`).
* `ViewsOfRunsAgree` (`Ranking`) needs few facts of the state (`RankInv`: types, and what is running has not ended) and many of the operators: which
  run is nearest and which the latest, that the rows shown are one for each model that was measured, the order of two sorts one behind the other,
  and that a mean of whole numbers lies between the least and the greatest. `NewRunsAreShown`, a property of steps, has one more: what ended
  after all others is the latest (`NewMeasureShows`).
* `EvaluationsAreTrue` (`EvalRun`) from `EvalInv`: at each stage of an evaluation, what is known of its server, row and marks (`Stage`); that its
  rows are those of its marks, the newest first (`Shelves`), whatever others write between; and that the shelf is in
  the order of time (`ShelfIsTimed`). From the last follows what the grouping makes of it: each group is a stretch of the shelf,
  of one context and no longer than the gap, and two neighbours could not be one (`HistoryIsTidy`, `JoinsGather`).
* `PromptsAreRight` (`EvalText`) from `TextInv` (`TextInvHolds`): the room for the filler (`AskedInv`), the order of the needles still to come (`LeftInv`), the length at each
  insertion (`LengthInv`), and the shape of the text (`ShapeInv`): it begins with a piece of filler, the next needle falls into that piece, and the
  ones already in stand behind it, whole and as deep as was asked. Needles that are wanted in one place are excepted, as in the property (`Separate`).

**`ServeSessionProofs`**, for any number of presses and models. `ServersAreNotLost` needs to know which handle a call holds
(`CallsHoldHandles`), that a handle is started once, by its own press (`StartedOnce`), and that
a Stop stands behind its Start in the channel unless it overtook it (`StopsAreLate`): otherwise an actor could take
its Stop while idle, drop it, and start the server nobody holds. `WorkIsAsked` (every BeginWork is
followed by its EndWork, unless its request broke off) gives Busy its end. For the patient user, `PatientHasOneServer` and
`PatientIsServed` add that one press is under way (`OneUnderWay`), whose server a start or a stop has in
hand (`PatientStop`, `PatientStart`), and what the screen will show (`ScreenFollows`).

**`PlanProofs`**. `BracketIsRight`, `AnswerIsRight`, `ProbesNarrow`, `SearchRight` from `SearchInv`:
the probe lies strictly inside the bracket, which is where the arithmetic is. `PlansAreTold` from
`PlanInv`, for plans of any length: every item is measured, skipped, still to run or left out after a failure
(`StepsAreCounted`), the rows are those of the summary with one more for the run under way
(`RowsFollow`), a sweep has nothing left after a failure (`FailureIsLast`); and that the
prompt ends at a boundary of characters at most two bytes short (`FillFits`).

**`FlowsProofs`**, six small components.
`OwnServersAreClean` (`CliServe`): Idle in the watch channel means no server (`IdleIsServerless`), and the command
ends by itself only after it has seen it. `OutputIsWhole` (`ChildOutput`): no line is lost, the
status is last, and child and reader stop before the end only with the pipe full that nobody reads (`EndsInOrder`, `ChildStuckIsFull`), for pipes of any size.
That they stop is said by the guards of their steps (`ChildMoves`), because the prover knows nothing of ENABLED; that `ChildMoves` is
ENABLED ChildStep is part of `OutputEnds`, which TLC checks. `SetupsAreTrue` (`Setup`): what a setup has behind it at each stage
(`StagesHold`), one at a time unless two overlapped, and a marker that is wrong while copies are made (`CopyFollows`).
`AnswersAreTrue` (`ChatStream`): the wire, the channel, the sink and the text are one sequence of
tokens, cut in four, until the streams of two questions mix (`WireFollows`, `TextFollows`), with an end
somewhere in it that is told once (`EndIsOnce`), and only of an answer that was read to its end. `ConversationsStayOwn` (`Conversations`): for a user who
does not move away the history is that of the conversation on the screen and the question under way belongs
to it (`ChatOwned`), whatever summaries replaced. `DownloadHolds` and `DownloadsAreHeld` (`Download`): of a user who waits at most
one call is under way or downloads (`OneActive`), one that was admitted finds the registers
as it left them (`AdmittedIsCancellable`), one that returned is registered with its own sender
(`ReturnedIsCancellable`), and no task exists before the second lock (`TaskIsSpawned`).

**`KeptProofs`**, what is kept for the user and what it takes. `AuthInv` is the types of the sources and of the operations, the two
invariants of the run, and `AskedIsToken`: what an operation asked the hub about was a token
when it began. Without the last a late answer could confirm a blank. From it: `AuthHolds`,
`KeychainHoldsConfirmed` (the keychain holds only what the hub confirmed), `StatusIsOneToken`
(the status describes one token, not parts of two), `DoctorIsRight`, together `TokensConfirmed`; and `SetDecides`,
a property of steps: a token that was set is the one in use, whatever the other sources hold.

`FilesAreKept` and `SettingsReplaceOnly` (`ProfileFiles`), for any names and contents of files that the user writes, from `FilesInv`: what is on its way into a file is as sound as what is in one
(`FilesAreSound`, `WritesAreSound`), a torn file is being written or its writer was killed (`TornHasCause`),
a tool has its file to itself or the name was still free (`WritersAreApart`, `TargetIsKnown`), and
it carries the setting it does not change from the file it read (`OtherSettingIsKept`).

Disk and memory are added up over a finite set. The sum is a fold; what the proofs
need of it (`TotalExists`, `TotalChanges`: that there is one, and what it becomes when one value changes) is proved on a smallest set that would
violate it. `CacheStaysRight` from `CacheInv`: nobody deletes the model of a server that did not start into its deletion, and what
it reads is whole (`ServersAreSupplied`), what is still to come of a download fits beside the
reserve (`RestFits`), the list of a patient user is behind by one thing at most (`OneIsPending`, `ListFollows`, `ScanIsRight`); and
the disk is never overdrawn. `KillsAreExplained` from `WatchInv`: a sample the watchdog has still to read the
collector has counted or has still to read (`SampleIsShared`), and so has the one that made it act (`TripIsShared`),
unless one of them lost events.

`EachIsItself`: a module that rests stutters (`RestsAside`), so each of the modules that run `profiles` puts beside each
other behaves as its own specification says. `ChangesCount` is `OnlySettingsReplace` and `SetIsUsed` in those behaviours.

**`StoreProofs`**. `RowsStayRight` and `VerdictsAreFinal` (`RunStore`) from `StoreInv` (`StoreHolds`), for any number of sessions and samples.
Ids are given out again, so "its row" is said by the session's number, which is never used
twice (`WhoIsOnce`); that the next id is one there is room for takes the sessions that have not inserted yet into account (`RunsAreFew`);
`WriterOwns` and `RowIsWritten` say what a session has written of its row at each statement, `RemovalIsKnown` and
`ExportIsKnown` what a removal and an export have read. All of it is unless a row was removed under a
session at work, except the types and `NoOrphans`, which hold always.

`StoreIsKept` (`StoreSchema`) from `SchemaInv` (`SchemaHolds`), for any number of programs and kills. What holds always,
whoever comes into a migration: an opener has the rest of a known script (`TodoIsKnown`); a table `*_new` belongs to the
one opener that has created it and not yet renamed it, because a second CREATE of it is an error (`CopiesAreOwned`); and once
its owner has filled it, it keeps the rows until they have their name again (`CopiesAreFilled`), which is why DROP is harmless.
What holds as long as nobody was killed in the first migration or opened the store during it: an opener of it is alone
(`EarlyIsAlone`), the store is as after exactly the first k statements of one of the two scripts
(`FirstIsWhole`; so none of them fails), after it the tables stay with what they held (`MeasuredStay`), and
what a later script adds is there or still to be done (`LaterIsDone`), however the later scripts interleave. The scripts are
sequences; what is left of one after k statements, and which statement stands at which place, is proved from their definition
(`CopyAllIs`, `RestOfCopy`, `RestsDiffer`).

`EachIsItself` says of run `store` what the theorem of that name in `KeptProofs` says of `profiles`; with it
`MeasuresCount` puts together `VerdictsAreFinal` and, from `MeasureProofs`, `NewRunsAreShown`.

Model-checked only:

* Liveness, which this prover does not do: the properties written with `~>` or `[]<>`
  (`ActorMovesOn`, `SessionEnds`, `PressesEnd`, `LateAbortLeavesNoServer`, `RunEnds`, `CancelHolds`, `NoneStaysOver`, `EverythingEnds`), and the
  fairness of `SlotSpec`. They are about a fair scheduler, and small instances have all of its choices.
* What is said with ENABLED: the conjunct of `OutputEnds` above.

## 4. What the code does that its documents do not say

Four disagreements are runs of their own (`cycle_port`, `session_two`, `download_orphan`,
`cli_orphan`). The models show more, which the properties above therefore except.

Sessions and servers:

* A cycle whose server the watchdog shot may be recorded as failed: the failure of the request
  and the event reach one `select!` from two channels (`bench.rs:714-743`). `OutcomeIsTrue`
  says "as shot if it noticed".
* An abort before Start was sent is dropped by the idle actor, and the task may still send Start:
  a server nobody stops (`api.rs:1079`, `bench.rs:497,527`). Hence *late* abort.
* The row of an aborted or refused session, and of every sweep, stays "running" (`api.rs:981`).
* The abort sender outlives its cycle on a load timeout, an error and an abort (`bench.rs:580,801`).
* A run for whose request no client can be built ends by `?` with its server up, its row "running" and
  its abort sender registered (`bench.rs:646-649`); so does an evaluation (`eval.rs:163-166`,
  `eval_templates.rs:522-525`).
* A session in the wait of `cycle_port` stays registered, and every later one is refused, until it is aborted.
* A chat request or summary that leaves by `?` after BeginWork (no client, no state:
  `api.rs:1310-1313,1393-1398`) leaves its server Busy until the next request ends: `unended`.
* The screen never learns of the end of a sweep or of an error, since only single runs
  send RunFinished (`api.rs:1027-1033`, `bench_screen.dart:319-323`); it may also subscribe when
  the session has ended already (`api.rs:1056`).
* Cleanup goes on to Idle after its attempts, whether or not the process is gone
  (`lifecycle.rs:479`): `OneServer` excepts those in `unreaped`.
* The samples of the monitor count as progress (`bench.rs:730`): the abort after 300 s without
  progress does not come while the monitor runs.
* A Stop that overtakes Start loses a chat server, and `serve_stop` waits for its Idle for ever
  (`api.rs:1180`): `overtaken`.
* A chat server that crashes after Ready is still shown as ready (`chat_screen.dart:135`), and
  one that is loaded but not yet Ready in the actor refuses the first message (`api.rs:1345`).
* A start that fails in the spawn leaves `serve start` waiting for Ctrl-C; `chat` waits for ever for
  a server that is never Ready, or dies before its port is read.
* An evaluation that ends by `?` leaves its server and its row (`eval.rs`); one whose server died
  completes with a low score.

Memory:

* The default hard limit is what is used plus 85 % of what is available
  (`sys_memory.rs:187-191`), the specification says 85 % of the memory (`technical-spec.md:160`).
* Samples are stored every 500 ms, and the collector is aborted with events it has not read: the
  last sample before a kill may have no row (`technical-spec.md:90,167`). The peak has it.
* A server whose processes come and go with every sample is not seen to stay over its limit:
  `NoneStaysOver` is about processes that stay.

Models and profiles:

* A download that ends before it is registered stays registered, and every later one is refused
  (`api.rs:1689`). The child of a cancelled one goes on fetching, unseen. Leaving the screen during a download loses its end; a cancel does not
  load the list again.
* The disk check takes the largest free space of all disks (`hf_cache.rs:165-172`), and
  `hf_model_size` counts a file without a size as 0 (`hf_cache.rs:298-305`): either lets in a download
  that leaves less than the reserve. `DiskKeepsReserve` excepts both by their sizes.
* A start between the question of a deletion and its end is not refused, and its server reads files that go
  (`api.rs:1596-1606`): `raced`. A deletion of what is not there, or of files that cannot be
  removed, is shown as done (`hf_cache.rs:136-139`, `api.rs:1603-1606`, `model_manage_screen.dart:211-216`).
* Only the models of the chat server and of the benchmark are kept from deletion: not their drafter
  or base model, not one being fetched, not those of an evaluation (`api.rs:1794`).
  `serve_stop` and `bench_abort` forget the model before its server is gone, and a server
  still loading fetches a deleted model again. Servers that fetch do not look at the disk.
* The documents invite the user to edit profiles and add his own (`technical-spec.md:209`,
  `service-design-decisions.md:139-140`). A setting of one in a file of another name is written to the file
  named for its id (`profile.rs:1137-1140,1174-1177`): a second one of the same id, or over another model's whose
  name is the same, and which of the two is loaded next depends on the order of the directory
  (`profile.rs:212-222`). Ids that differ in case or in "/" and "-" share a
  file; a broken or torn file can fail every load (`collided`). A drafter that gets
  another task leaves its links; a context below 512 makes an invalid profile.

Storage and results:

* A program killed in the first migration can leave a store that never opens, or whose rows stay
  in tables nobody reads; a second program that opens it meanwhile can lose rows
  (`db.rs:1222`): `mixed`. Two programs may race to add a column, and one fails.
* The id of a deleted run is given out again, and a session that is still writing then writes to a
  stranger (`robbed`).
* The limit search answers the lower end of the range although nothing was run there, if every
  probe fails (`bench.rs:1058`). "All commands tell success from failure by their exit code"
  (`technical-spec.md:366`); sweep and search return 0 whatever failed (`main.rs:678,731`).
* A request of an evaluation that fails is scored by the text `[error: ...]`, which may contain a keyword or
  the expected answer (`eval.rs:195-197`, `eval_templates.rs:557-564`).
* Two runs of an evaluation within 30 s are one entry of the history, and slow questions make
  one run several. A prompt has at least 64 tokens of filler (`eval_templates.rs:271`), so one whose question and
  needles nearly fill its context is longer than that. Needles at one depth nest; weights of 200 and more round to 100.
* Contexts in which no run has a speed have infinite extremes; models without a speed are listed
  as the slowest. A card shows the raw speed of a diffusion model (`export.rs:104-187`), the
  tables its effective one (`tps_tier.rs:94`).

Chat, tokens and environment:

* To select, create or delete a conversation during an answer stores the answer elsewhere
  (`chat_screen.dart:400`), and `_messages.last` of an empty list throws, after which the
  screen waits for ever: `moved`. A summary may cut a question from its answer (`chat.rs:3`).
* The error of a chat request reaches no screen: the call returns it (`api.rs:1424`), the generated binding
  drops the future and hands out the stream only, so `onError` never runs (`chat_screen.dart:433`) and the screen waits on: `failed`.
* A stream that ends without `[DONE]` is a complete answer (`client.rs:246`); a character
  that is split between two chunks is replaced (`client.rs:233`).
* A `set` under way stores its token after a `clear`; a late status may replace a newer one.
* `can_import` is true for tokens of the environment, which the import does not read.
* A virtual environment counts as whole if it has a `python` (`bootstrap.rs:182`), so the
  doctor's fix may repair nothing (`env_detect.rs:367-368`); `uv sync --extra X`
  removes other extras (`env_detect.rs:370`, `bootstrap.rs:223`). Copies keep files that a
  release has removed, and two setups at once spoil the marker (`mishaps`).

## 5. Not modelled

* The core facade (`lib.rs`, the read-only HTTP routes) and the generated bridge: no state
  that changes. Layout, wording and formatting of screens, tables, cards and exports, except where two
  views must agree (`Ranking`).
* Search on the hub, the choice of a free port, and the probing of the machine for tools and
  chips: single questions to the outside, without a state of the program.
* The syntax of YAML and JSON, the rounding of floating point, and the bytes of UTF-8: the models
  take parsed values, whole numbers and whole characters. The one hazard without a
  property, a character split between chunks, is of this kind: it has no state to relate to.
* What the Python servers do between a request and its answer. They appear by what the actor
  and the clients see of them, and by the models they fetch.
* Two lifecycle actors side by side, as when the server of an aborted cycle still dies
  while the next one starts. Each module with several handles (`ServeSession`, `EvalRun`)
  takes the actor by what its owner sees; `ServerSlot` is what justifies that.

## 6. Plan

All modules of the plan are written: first `Lifecycle` with `ServerSlot`, on which the rest
stands, then its clients (`BenchCycle`, `BenchSession`, `ServeSession`, `EvalRun`, `CliServe`), the
helpers of a session (`MemoryWatch`, `ChatStream`), what is kept (`StoreSchema`, `RunStore`,
`Conversations`, `ProfileFiles`, `CacheUse`), then the pure parts (`LimitSearch`, `BenchPlan`,
`EvalText`, `Ranking`, `ProfileDraft`) and the environment (`Setup`, `ChildOutput`, `Auth`, `Cli`).

To come, the most valuable first:

1. Two `Lifecycle` instances under two cycles in a row.
2. `ModelServer`: the adapters' background load, `/health` and 503, below `Lifecycle`.
