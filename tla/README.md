# A formal model of the LXE agent's orchestration

The LXE agent is a desktop application. Its gateway (in the Electron main
process) takes messages from the desktop, chat channels, automations and a
heartbeat, turns them into *jobs* of *sessions*, and runs each job as one *turn*
of an agent that lives in a child process (`agent-cli`). The agent asks a model
provider, runs tools, writes the transcript, and streams its answer back through
the gateway to the window. This directory holds TLA+ modules of the parts where
the order of events decides whether the program is right, TLC configurations that
check them on small instances, and machine-checked proofs, for every instance, of the
scheduler and of nine more parts.

Paths below are relative to the repository; `scheduler.ts`, `process-runtime.ts`,
`router.ts` and the like are in `src/apps/gateway/src/orchestration/`.

| Module | Models | Checked by |
| --- | --- | --- |
| `SerialTurns` | what callers may rely on: turns of a session run one at a time | `sessions`, `Refinement` |
| `SessionScheduler` | `scheduler.ts` without the heartbeat queue | `one_session`, `sessions`, proofs |
| `AgentRuns` | requests, answers, stops and steering between the gateway and the agent | `execution`, `liveness`, `agent_steering_lost`, proofs |
| `AgentProcess` | start, stop, restart, termination and recovery of the child | `execution`, `agent_recovery_lost`, proofs |
| `TurnExecution` | the steps of a turn: requests, tool rounds, steering, cancellation, repair, compaction | `execution` |
| `CodingProcesses` | commands of a session: starting, waiting, ending, output, closing | `execution` |
| `WorkspaceInstances` | cached instructions and skills of worktrees: leases, reloads, eviction | `execution`, proofs |
| `TranscriptStore` | the transcript file, its index row and its replay cache | `services` |
| `SessionStatus` | the state of a turn on its way to the database and the window | `execution` |
| `Approvals` | single-operation approvals and their audit records | `services` |
| `UpdateInstall` | check, download and installation of an update behind the scheduler's fence | `services`, `update_steering`, proofs |
| `LiveAnswer` | a streamed answer from the agent to the window | `services` |
| `SessionRouting` | messages and commands of a chat against deletions of its session | `services`, `routing_clear` |
| `Automations` | plans, their dispatch as turns, edits, recovery after a crash | `sessions`, `liveness`, `automations_stale`, `automations_refused` |
| `LocalConversation` | the messages of the window and the automations' runs of one session, against stops and a deletion | `sessions` |
| `CardDelivery` | Feishu answers on their way to their cards | `services`, `card_frame_lost` |
| `GatewayLifecycle` | start and stop of the gateway, and of the Feishu connection | `services`, proofs |
| `DesktopGateway` | the gateways the desktop application makes and gives up | `services`, proofs |
| `CloudEnrollment` | the company device the machine is enrolled as, and its permissions | `services` |
| `McpServers` | the connection to an MCP server and its tools, in the agent | `execution`, proofs |
| `WarehouseExports` | the exports of the Yacang warehouse, by processes that may be killed | `execution` |
| `ShangmanLogin` | captchas and the token of the Shangman ERP, shared by processes through files | `execution` |
| `MabangLogin` | the browser login of the Mabang ERP that the commands share | `execution`, proofs |
| `TurnReports` | what the upload of usage promises: in order, without a gap | `liveness` |
| `TurnUsageSync` | the upload of turn usage, which implements it | `liveness`, proofs |
| `MC...` | instances of these modules for TLC | |
| `..._proofs` | theorems: `Gateway_proofs` about `SessionScheduler` and `TurnUsageSync`, `Outside_proofs` about `McpServers` and `MabangLogin`, `Services_proofs` about `DesktopGateway`, `GatewayLifecycle`, `UpdateInstall`, `Approvals` and `SessionRouting`, one module each for `AgentRuns`, `AgentProcess` and `WorkspaceInstances`, and those about the instances of them in `MCExecution` and `MCServices` | tlapm |

To repeat: `tlc -config MCOneSession.cfg MCSessionScheduler.tla` and likewise for
the other configurations (the run table in section 4 names module and
configuration), `tlapm Gateway_proofs.tla` and likewise for the other modules of
proofs.

`MCSessions`, `MCServices`, `MCExecution` and `MCLiveness` put several parts that share no
variable into one run. A variable `scenario`, chosen at the start, says which of them moves;
the others stay as they began. The states of such a run are therefore the sum, not
the product, of its parts, and each of its properties speaks of the scenarios of one
part.

Operators whose comment begins with `Fault:` are not part of the specification.
Each is a definition as a plausible mistake in the code would have made it; every
checked property is violated when one of them takes the place of the definition
it stands next to, so no property holds by the shape of the model alone.

## 1. Inventory

### The parts that are modelled

**Session scheduler** (`scheduler.ts:95-450`). State: a queue, a run and an
admission counter per session, the list of sessions that are ready to start, run
handles with the two cancellation flags, the runtime's readiness, an update
fence, and deletion fences on sessions and session keys. Operations: `enqueue`
(with an awaited `beforeAccept`), `clearPending*`, `requestStop`,
`handleRuntimeEvent`, `setRuntimeReady`, `beginUpdate`, `cancelForUpdate`,
`beginSessionDeletion`, the release closures, and `drain`, which ends most of
them. It is called by the router, the local conversations, the automations and
the heartbeat; it calls the runtime (`startTurn`, `cancelTurn`, `steerTurn`) and
is called back when a run settles. Hard: each await in an operation lets all the
others in, answers to cancellations arrive after their run is over, and four
kinds of fences meet. Right means: one run per session, no waiting job is
forgotten, what observers were told is true and final, a stop or an update holds
once it is acknowledged, and a deletion has its session to itself.

**Agent process runtime** (`process-runtime.ts`). State: the owned child and its
generation, a map of pending requests, the flags of stop and protocol mismatch,
the recovery timer, and the termination in progress. Operations: `start`,
`stop`, `restart`, requests with and without a timer, line handling, child exit,
`failConnection`, recovery. Hard: all of these are asynchronous, overlap, and
share the one child. Right means: nobody waits for ever, no second agent is
started beside a living one, no living child is let go, an agent that went down
by itself is brought back.

**Gateway composition** (`composition.ts:130-240`) joins the two: it hands the
scheduler's runs to the runtime, turns answers into completions and decides what
a rejected request means to the run, the stop or the message behind it.

**Agent protocol server** (`src/apps/agent-cli/src/server.ts`, `run-handle.ts`).
State: a handle per active run with an abort controller and an inbox of steering
messages. Hard: `cancel_turn` and `steer_turn` race the end of the turn.

**Turn engine** (`src/packages/agent/runtime/src/engine/runtime.ts`, `context.ts`).
State: the messages in memory beside the transcript in storage, the step, the
attempts of a request, the calls of the current answer. Operations: `runTurn` with
its preparation, requests and retries, the reaction to an overflow, waves of tool
calls, `drainSteering` and `appendSteering`, cancellation, repair, compaction. Hard:
every write is awaited, and an error, a cancel, steering or a crash ends a round
anywhere. Right means: the provider is asked with what the transcript says, every
call has one answer, nothing that was written is forgotten.

**Background processes of tools** (`process-manager.ts` and its neighbours in
`src/packages/agent/runtime/src/tooling/coding/`). State: the records of a session's commands, the
tail of admissions, a lock with a queue per command, output buffers, the throttle of
window updates. Operations: `execute`, `wait`, `terminateSession`, `stop`, and what
the shell calls back. Hard: a new command waits for an old one to be evicted while
its session is closed; several waits race the end. Right means: no command runs
unrecorded or in a closed session, its end is told once and with all its output.

**Workspace instances** (`instance-manager.ts` in `src/packages/agent/runtime/src/workspace/`). State: cached views
of worktrees with leases, dirtiness, and the reload in progress. Hard: a turn joins
a reload that began before the last change. Right means: a turn gets what was known
when it asked.

**Agent storage** (`src/packages/agent/runtime/src/state/storage.ts`). State: a transcript file per
session, its row and index in SQLite, a cache of replays, a chain of writes.
Operations: append, replacement of the context, titles, model selection, load,
deletion. Hard: file and row are written one after the other with crashes in
between, and a load awaits between reading and caching. Right means: what was
acknowledged stays, the cache is the file, no transcript outlives its session.

**Session status outbox** (`session-status.ts`, `session-status-store.ts`, the cache
of the window). State: pending changes, one flight, a revision; rows with versions;
the summaries shown. Hard: batches fail after they took effect, the agent and the
gateway crash, `ack` races a flush. Right means: the store ends with what the
scheduler knows, the window with what the store has, a result is announced once.

**Approvals** (`src/packages/agent/runtime/src/permissions/approvals.ts`). State: open requests, first
decisions, audit writes. Hard: the decision waits for its record while the turn is
aborted or the session closed. Right means: what is granted is allowed, on the
record and still wanted; nobody waits for ever.

**Application update** (`src/apps/desktop/src/main/update-*.ts`) with the part of the
**Desktop gateway** it uses. State: phase, release, file, the single operation, the
fence of the scheduler, the snapshot the user confirmed. Hard: tasks are admitted,
steered and requeued between the confirmation and the stop. Right means: the
installer starts at rest, the fence comes down on every other path, only work
the user has seen is stopped.

**Desktop gateway** (`src/apps/desktop/src/main/desktop-gateway.ts`). State: the composition
with its runtime and store, the automations, the state windows are shown, the flag of an
update. Operations: `start`, `stop`, `restart`, `restartAgent`, permissions for the agent,
`beginUpdate`, `recoverAfterUpdate`, called by windows, the cloud, an update and the end of
the application. Hard: none of them waits for another, each reads and clears the same
fields across awaits. Right means: nothing goes on running of a gateway nobody owns, and
what windows are told is there.

**Desktop cloud and configuration** (`src/apps/desktop/src/main/desktop-cloud.ts`,
`config-store/cloud.ts`, `native-cloud-access.ts`). State: two files that are replaced one
after the other, the tunnel of the system, permissions in memory, the check, confirmation
and activation that run. Operations: `activate`, `check`, `confirmDevice`,
`clearModelCache`, `retry`, `stop`, `start`. Hard: an enrolment that replaces another
undoes and redoes five things, each of which may fail, with a crash between any two, while
checks come back late. Right means: no half of two devices is left, and the agent may do
what the device may.

**Message router** (`router.ts`) and **gateway session state**
(`src/apps/gateway/src/state/`), with the deletion of a session in the desktop gateway.
State: bindings of session keys, two tables of sessions, switches, fences. Hard: a
message reads its binding and the fences once and then awaits the agent several
times. Right means: a binding leads to a session that exists, a deletion that fails
undoes what it did, a key is not taken from a session at work.

**Final answer streamer** (`engine/final-answer-streamer.ts`), the live turn of the
**local conversations** (`local-conversation.ts`) and the query cache of the
**dashboard** (`use-conversation-events.ts` and what it calls). State: parts, queued
changes, numbered batches; the gateway's copy; the window's. Hard: batches are applied
once per frame beside pushed activities and the window's own reads; a batch fails.
Right means: the window ends with the answer, goes only forward, and shows nothing
the agent did not have.

**Local conversations** (`local-conversation.ts`), from the submission of a message on.
State: the turns of a session with their states, which is active, which wait, which was the
last. Operations: `send`, `stop`, `forgetSession`, the events of the scheduler. Hard:
`send()` awaits the session, its route and its first record, and `stop()` the agent, while
the run ends, the next one starts, and an update or a deletion begins. Right means: after
every step the conversation agrees with the scheduler, nothing is left of a message that
was refused, and no answer touches a turn it is not about.

**Automations** (`automations.ts`, its clock and time arithmetic, and the desktop's
`automations.ts` and `automation-store.ts` in `src/apps/desktop/src/main/`). State: a
table of plans with version, status and next time; a table of dispatch records; in
memory the sets of dispatches and the tick in progress. Operations: `save`,
`setStatus`, `delete`, `pauseSession`, `runNow`, the tick with its recovery, `start`
and `stop`, background naming. Hard: every operation awaits between reading a plan
and writing it, two writes of a dispatch have a crash between them, a tick works
through a list made before its awaits. Right means: an occurrence runs at most
once and is not lost without a turn, nothing runs that was edited, paused or deleted
before it entered the queue, records say what happened.

**Channels** (`emitter.ts`, `registry.ts`, and `cardkit.ts`, `adapter.ts`, `restart.ts`
in `src/apps/gateway/src/channels/feishu/`). State: a stream with a one-frame slot per
answer, the last stream of a session, a writer per session, the card in the response
route; what is started, the connection, its renewal timer. Hard: a frame waits for
frames of other answers, each call that makes a card fails by itself, a renewal meets a
stop. Right means: an answer ends on its own card, whole and closed, and a failure stays
with the answer it hit.

**Gateway lifecycle** (`lifecycle.ts`, with the runtime's part in `composition.ts`).
State: what was attempted, the generation of the start, the steps of a teardown. Hard:
`stop()` comes anywhere in `start()`, and what a step called goes on behind its deadline.
Right means: after a stop nothing is up, or it is known what is.

**Turn usage upload** (`operations/turn-usage-sync.ts`). State: recorded turns and a
cursor in SQLite, two timers, one flight with one rerun. Hard: answers are lost
after the server took a batch, or come late. Right means: the server gets every
turn, in order and without a gap.

**MCP servers** (`tooling/mcp.ts`). State: the connection of a server, its registered
tools, the attempt under way. Hard: an attempt may be aborted, time out, and still come
about; the server is switched on again before the aborted attempt has ended. Right means:
the model sees tools of an open connection, and no connection is left behind.

**The skills' command line** (`src/python/lxeskill_cli`) keeps nothing in memory between two
commands; what its processes share are files and a database, under locks of the file system
that die with their holder. The **warehouse exports** (`services/yacang`) keep a row per
request that may have reached the platform, and a cooldown of the account. The **Shangman
login** (`services/shangman`) keeps captchas, an epoch and a token, the **Mabang login**
(`browser_auth_service`, `services/mabang`) the state of a browser. Hard: processes are
killed anywhere and the platforms cannot be asked what has reached them. Right means: what
may still come is not asked for twice, a captcha or a password is not submitted oftener than
it has to be, and nobody gives up a newer login for an older one.

### The parts that are not modelled

| Component | State and operations | What is hard in it | Why not (yet) |
| --- | --- | --- | --- |
| Heartbeat (`heartbeat-bridge.ts`, `scheduler.ts:501-633`) | pending wake-ups per session, timer, retry | suspension is tested before awaits and used after them | no source of wake-ups (`agent.wake`) exists at this commit |
| User questions (`tooling/user-questions.ts`) | open questions | an answer against a cancellation | the shape of `Approvals` without records |
| Conversation display (`src/apps/dashboard`) | selected conversation, pages of history | reads that answer out of order | next in the plan |

The other tools, model providers, the rest of the configuration, user
interface and protocol types are I/O, formatting or wiring; `PROJECT.json` gives the
reason for each. Code under `tests`, vendored binaries and the separate office tool
are not part of the running system's control.

### Hazards

`PROJECT.json` lists the hazards, each at the line where it bites, with the properties
that cover it. Two things that could
go wrong are assumptions of the models:

* `process-runtime.ts:180`: `launch()` does not look again at what it owns after it
  waited for a termination; two restarts that wait for the same one both spawn.
  Only the dashboard's disabled button (`src/apps/dashboard/src/desktop/shell.tsx:524`)
  rules the case out.
* `process-runtime.ts:267`: the runtime stays ready while `restart()` waits for the
  answer to `shutdown`, so a run can be handed to a child that is about to go. Its
  request is then rejected like any other whose child exits.

## 2. Plan

The order follows what everything else relies on.

1. `SessionScheduler` with `SerialTurns` and its proofs: done.
2. `AgentRuns`, the protocol of runs across the process boundary: done.
3. `AgentProcess`, the life of the child: done.
4. `Automations`: done. An abstract specification (an occurrence is open, taken, or
   given back) and its refinement are left.
5. `UpdateInstall`, `SessionRouting`, `SessionStatus`, `LiveAnswer`: done.
6. Inside the agent: `Approvals`, `TurnExecution`, `TranscriptStore`,
   `TurnUsageSync` with `TurnReports`, `WorkspaceInstances`, `CodingProcesses`: done.
7. Around them: `GatewayLifecycle`, `CardDelivery`, `DesktopGateway`, `CloudEnrollment`,
   `LocalConversation`, and what tools share: `McpServers`, `WarehouseExports`,
   `ShangmanLogin`, `MabangLogin`: done. Left to model: `ConversationDisplay`; user questions. Wake-ups
   are dropped from the plan: nothing in the repository sends `agent.wake`.
8. Left to compose: `AgentProcess`'s readiness and termination with the queues of
   `SessionScheduler`, and `AgentRuns`' turns as an implementation of `SerialTurns`;
   `TurnExecution`'s writes as those of `TranscriptStore`.
9. Proofs: the scheduler, `AgentRuns` with its steering, `AgentProcess`, `McpServers`,
   `MabangLogin`, the refinement of `TurnReports`, `WorkspaceInstances`, `DesktopGateway`,
   `GatewayLifecycle`, `UpdateInstall`, `Approvals`, `SessionRouting`: done. Left, in this
   order: `AutomationsInv`, `RecordsAreTruthful` and `TurnsAreWanted`.

Every module that is left to prove about is written for it: no recursive operator,
constants as parameters, and its assumptions a definition that the `MC` module assumes.

## 3. The modules and the code

All of the code runs on JavaScript event loops. What lies between two awaits is
atomic, so each synchronous stretch is one action, and an await splits an
operation in two. A call the code refuses without changing anything is an action
that is not enabled.

### SessionScheduler

| Variable | Code |
| --- | --- |
| `pending`, `rank`, `front`, `back` | `pending` queues: the set of waiting jobs and the order they were pushed, unshifted or shifted in |
| `ready` | `ready` and `readySet` |
| `activeBySession`, `activeByRun` | the two indexes of run handles |
| `admissions` | `admissions`, enqueue calls inside `beforeAccept` |
| `jobState` | where the enqueue call is, and from acceptance on the last state published |
| `options` | the options of an enqueue call inside `beforeAccept` |
| `cancelInFlight`, `cancelRequested` | `cancelRequest` and `cancelRequested` of a handle |
| `updateFenced`, `discardSteering`, `quiesced` | the update fence, `discardSteeringAfterUpdate`, and (bookkeeping) whether `cancelForUpdate()` ran behind the present fence |
| `sessionDeletionFences`, `sessionKeyDeletionFences`, `deleting` | the fences and what each release closure holds |

`Drain` is the loop at the end of most operations and part of each of them.
`Accept` is the second half of `enqueue()`; `EnqueuePersisting`,
`PersistSucceeded` and `PersistFailed` are its two halves around `beforeAccept`.
`HandleRuntimeEvent` takes the job made of the run's unconsumed steering from
the unused jobs.

Abstractions. A job is submitted once. `cancelTurn` and its answer are
`RequestStop`, `CancelSucceeded` and `CancelFailed`; the microtasks between an
answer and its effect are not separate steps. Only callers that ask for
`onlyIfIdle` pass an `assertCurrent`, which may throw. The release of an update
is called once per fence (`desktop-gateway.ts` does so), and an update begins
only while the runtime is ready (`desktop-gateway.ts:385`). `steerActive()` is in
`AgentRuns`.

### SerialTurns

A turn is absent, waits, runs, has ended. A step may move several turns, never
back; a turn starts only if the run before it has ended or ends in that step.
The refinement mapping `TurnPhase` reads the phase off `jobState`.

### AgentRuns

The gateway keeps `turn`, `stop`, `steering` (what each caller knows) and
`calls` (the map of pending requests); the pipes are `toAgent`, a sequence, and
`toGateway`, a set, because answers are written when their call is done and may
overtake each other; the agent keeps `handle`, `aborted`, `inbox`, `batch` (drained
and not yet written) and `transcript`. `StartTurn`, `RequestStop` and
`SteerActive` send a request; `TimeOut` is the timer of `cancel_turn` and
`steer_turn` (`run_turn` has none); `FailConnection` and `Exit` reject all
pending calls; `ReceiveRun`, `ReceiveCancel` and `ReceiveSteer` are `dispatch()`;
`DrainSteering`, `AppendSteering`, `AppendFails` and `TurnEnds` are the turn;
`TurnReturns` and `TurnThrows` the end of `run_turn`; the parts of `Respond` what a
caller does with its answer.

Abstractions. Of the scheduler its promise is kept (`StartTurn` needs a free
session, which is what `RunsAreSerial` proves), of the child's life whether it is
there. A rejected request takes effect on its caller in the same step. An active
run implies a ready runtime or a rejection, so `cancelRun()`'s return for a runtime
that is not ready does not occur. Blank steering is ignored by the code and not a
message. Steering an update discards is the scheduler's part.

### AgentProcess

Every asynchronous call is an *operation* (`Boot`, `Stoppers`, `Restarters`,
`Recoveries`, `Failures`) that stands at one of its awaits: `at[o]` names the
await, `woken[o]` whether and how it settled. JavaScript runs what was woken
before it takes the next event, so events need `Quiet`. Where one event wakes
several operations the order is left open, which allows more than the
microtask queue does. `process` is what the operating system knows; `child`,
`generation`, `state`, the flags, `restartAttempt`, `restartTimer` and
`treeTermination` are the object's fields; `termination`, `target` and
`treeKilled` are the call of `terminateChildOnce()` in progress.

`killsTrees` is chosen at the start: on Windows `terminateProcessTree` is given
and runs taskkill, elsewhere the child gets SIGTERM and SIGKILL. `Launch`,
`LaunchTerminated`, `Initialized`, `InitializeFails` and `CleanedUp` are `launch()`;
`StopCalled` to `StopTerminated` are `stop()`; a restart goes on with
`RestartStarts`; `ChildExits` is `handleExit()`; the `Termination...` actions
and `TreeKilled` are `terminateChildOnce()`; `FailConnection` and
`ConnectionFailed` are `failConnection()`; `TimerFires` is the recovery timer.

Abstractions and assumptions. `start()` is called once, by the lifecycle, and a
restart only after it returned, as the window with the button is created later
(`src/apps/desktop/src/main.ts:685`). Two stops may overlap because the lifecycle
tears down twice and goes on after a step that timed out. A failed spawn is a
child that exits at once. The 250 ms of grace after `shutdown` are the await
`grace`. A signal that cannot be sent is considered during a termination by
signals only. Requests of turns are in `AgentRuns`.

### Automations

`tasks` and `runs` are the two tables and survive a crash; `service` is what the
desktop has done with the service (`down`, `running`, `stopping`); `ticking`,
`recovered`, `unconfirmed` and `due` are where the one tick is and the list it works
through; `dispatching[t]` is the `dispatch()` of a task with what it read before its
last await; `edits[c]` is a `save()` or a resume of caller c; `naming` the tasks that
wait for a generated name. `now` is the clock, in minutes.

`BeginSave` and `EndSave`, `BeginResume` and `EndResume` are an edit around its await;
what the code checks before the first await (`validate`) it checks again after it,
so call and first await are one step. `FailEdit` is every way an edit throws.
`BeginDispatch`, `PassBlockReason`, `ClockAnswers`, `Claim`, `Admit`, `Accept` are
`dispatch()` in its order, `DispatchThrows` its errors before the claim, with what
`tickOnce()` does about them; `Refuse`, `UpdateRefuses` and `SubmitFails` its errors
after it. `Tick`, `LookUp`, `Reconcile`, `ListDue` and `StartNext` are `tickOnce()`.

Abstractions. The agent's readiness and the update's fence change at any moment and
have no variable: a step that asks for them may get either answer. The presence of
an editor is one more reason for `DispatchThrows` and `Refuse`. A plan is a kind, a
target and a set of nominal times; the calendar arithmetic of rules and time zones is
that set, the hashed offset a fixed `jitter`. A new name is a new version. Each plan
that continues a conversation has one of its own. The row that a refusal restores
and the record it settles are one step, as no await lies between them; a crash of the
process exactly there is not considered. The turn's field in `runs` is bookkeeping:
whether the agent was given the turn, and whether it wrote it down before a crash.

### TurnExecution

| Variable | Code |
| --- | --- |
| `transcript`, `messages` | what a load of the session returns, and what the running turn keeps in memory |
| `at`, `step`, `attempt`, `forced` | where `runTurn` stands, its step and attempt, whether an overflow was answered in this step |
| `answer`, `waiting`, `running`, `done` | the stop reason of the answer, and its calls: not dispatched, in the current wave, with a result |
| `inbox`, `cancelled` | the handle of the run |
| `outcome` | of the last turn |

`Begin` is the start of a turn up to its first step; `StepStarts` the checks of a step;
`Prepared` what `prepareContext` makes of the messages (repair, environment, compaction);
`Ask`, `AskFails`, `AskCancelled`, `Overflows` and `Compact` the request and its retries;
`Answered`, `FinalAnswer`, `Deliver`, `Dispatch`, `CallEnds`, `CallsEnd`,
`SkipForSteering` and `SkipForCancel` the answer and its rounds of calls. A message is
known by what it is about: the number of an input, or the numbers of calls.
`excused` is bookkeeping: the calls whose result a crash, a failed write or a cut
answer has lost. An answer that has calls and another stop reason leaves them
unanswered, and the repair behind the turn closes them. The code behind the step loop
(`runtime.ts:961-971`) is unreachable and not modelled. Left out: the heartbeat turn, the
stream, usage, attachments, estimates of tokens.

### CodingProcesses

`exec`, `admission` and `victim` are the calls of `execute()` and the tail they wait on;
`child`, `cause` and `output` a command, its `terminalCause` and its buffers; `entries` the
records; `wait`, `lock` and `told` the calls of `wait()`, `observationLocked` with its
queue, and `finalObserved`; `update` the throttle of window updates; `closing`
`terminateSession()` or `stop()`. Output is counted in chunks. A command that was told to
terminate dies in the end, as the shell goes from signals to kills.
`docs/harness/runtime/tools/tool_execution.md:31` says the terminal result is returned
once; a call that terminates a command is answered even after an ordinary one, as the
test `coding-tools.test.ts:697` expects, and `EndsAreToldOnce` says so. How the
retained output is cut (`process-output.ts`) is not modelled; `onComplete` has no
producer.

### WorkspaceInstances

`map` and `inst` are the cached instances and their views, `older` the order of the map
(`instanceFor()` puts what it finds at its end, and evictions begin at its front), `turn` the calls of `acquire()`
with the snapshot each got, `noticed` the watch events that did not arrive yet, `timer`
the debounce, `skills` the catalog's revision. `Acquire`, `Check`, `ReloadAgain`, `Lease`
are `acquire()` around its awaits, `CheckFails` a catalog of skills that cannot be read
(`instance-manager.ts:252-263`); `Read`, `Resumed`, `ReloadEnds` and `ReloadFails` the
shared reload; `SweepIdle` and `Evicted` the two evictions. An instance is not held while
`acquire()` awaits (`instance-manager.ts:252`), so that an eviction detaches it and later changes pass it by;
`KnownChangesAreUsed` makes that exception, and one for turns whose check or reload failed. Watch events arrive in the end;
each worktree has one directory. Explicit reload and disposal, and watchers that fail to
open, are left out.

### TranscriptStore

| Variable | Code |
| --- | --- |
| `file`, `tail`, `synced` | the terminated lines, what follows the last newline, and how many lines an fsync covers |
| `row`, `indexed` | the session's columns, and how many lines `transcript_file_state` has |
| `cache` | its entry of `replayCache` |
| `queue`, `phase`, `read` | the chain of writes, where its head stands and what it has read |
| `turn`, `title` | the turn and the title service that write |
| `acked` | the last selection a client got an answer for |

Each `Begin...` action is the head of the chain up to its append; `AppendEvent`,
`AppendFallbackTitle`, `SyncSelection` and `FinishWrite` the rest of a write, with
`CacheAfter` what it does to the cache; `LoadFromCache`, `ReadTranscript` and
`InstallCache` are a load around its awaits. `Crash` may leave half a line, `LosePower`
also takes back lines that were never synced; the database survives both. Schema and
migrations, search, attachments, images and pages are left out. No crash is considered between
the rename of a deletion and its transaction: it leaves a session whose transcript is
renamed away. `appendApprovalEvent`
(`storage.ts:743`) removes a cache entry without its bytes from the cache's sum, which
the model does not count.

### SessionStatus

`actual` is what the scheduler knows, `pending`, `sequence`, `reconcile`, `ready`, `work`,
`unpublished`, `reading` and `revision` the coordinator's fields; `wire` and `answers` the
requests of each gateway that has lived; `rows`, `version` and `dbOwner` the store;
`shown` the cache of the window. `Flush`, `FlushFails`, `FlushAnswered` are `flush()`,
`Call`, `CallSends`, `CallAnswered` are `list()` and `ack()`, `Handle` the store's side,
`Crash` the agent's and `NewGateway` the gateway's crash. A request of a gateway
that crashed is handled before its successor's, or lost; handled after a later one it
would take the database back (`session-status-store.ts:57`). `ack()` takes its revision
before its request, so a result that was read may go on looking unread
(`session-status.ts:94`): `WindowAgrees` allows exactly that. The deletion of sessions is
left out; a batch that is sent again after one makes its rows again.

### Approvals

`call` is where each `request()` stands, `decision` the first answer, `audits` the writes
under way in the order of the session's chain, `recorded` what is written, `closed` and
`forgetting` what `forgetSession()` and `stop()` closed and the set of writes they still
await. `AfterDecision`
is the second half of `decide()`, which looks again whether the request is pending. A
session whose deletion fails after `forgetSession()` stays closed
(`approvals.ts:124`), which the model takes over.

### UpdateInstall

`phase`, `release`, `file`, `op` and `installing` are `DesktopUpdateService`; `approved` the
snapshot of `prepareUpdate()`; `task`, `steered` and `discard` the scheduler's jobs as the
update sees them, `origin` the job whose steering a requeued one carries on. `Settled` is
where a new snapshot is compared with the confirmed one, `Reauthorized` where work is
cancelled, `GatewayStops` and `Launched` the rest, `Recovers` the way back. Steering that is
requeued after the last snapshot is cancelled unseen; `OnlyKnownWorkIsStopped` allows it, as
what it carries on was confirmed, and the run `update_steering` shows it. Files, signatures
and the journal of attempts are left out.

### LiveAnswer

| Variable | Code |
| --- | --- |
| `parts`, `active`, `generation`, `detached`, `queued`, `pending`, `sequence`, `stage` | the streamer |
| `wire`, `ipc` | events to the gateway, and from it to the window with the answers to its reads |
| `known`, `stream`, `completed` | the gateway's copy of the turn and `backgroundCompletions` |
| `data`, `inbox`, `read` | the window's query cache, the batches that wait for its frame, its read |
| `cut` | bookkeeping: the parts when each number was cut |

`Cut`, `CutNothing` and `Written` are the scheduled batch, `Close`, `CloseBatch` and
`CloseFrame` the end, `LateFrame` what a detached command sends after it;
`HandleBatch`, `HandleFrame`, `HandleCompletion`, `TurnSettles` and `TurnForgotten` the
gateway; `Receive`, `Flush`, `Ask` and `Answer` the window. Text is counted in tokens,
thinking is text, and there is one turn and one window. Left out: the throttled frames
of the other channels, presentation, a final frame that cannot be written, and
`acknowledgeConversationSend`.

### SessionRouting

`bindings` is `sessions.json`, `rows` the two tables, `switches` the sets of steering and
suspended sessions, `work` the scheduler as far as the router sees it, `msg` the handler
of each message and `del` each deletion, both with where they stand. `ReceiveText`,
`Loaded`, `Ensured` and `Admit` are `routeContext()`; `ReceiveCommand` and, in one step
once the agent has answered, `Stop`, `ToggleSteering` and `Clear` the commands, `Stopped`
and `Cleared` their ends; `BeginDeletion`, `Detach`, `AgentDeletes`, `DeletionEnds` and
`PutBack` are `sessions.delete`. A text that read its binding before a deletion makes
the deleted session again, without a binding; `DeletedStaysAway` allows this and
nothing else. `/clear` looks at no fence. `docs/desktop/gateway/session_routing.md:32`
lets a session that is missing be replaced; the code makes one of the same id,
as `router.test.ts:279` expects. Workspaces, sources, contents, response
routes and feedback are left out.

### LocalConversation

| Variable | Code |
| --- | --- |
| `send` | where `send()` is for each turn, and whether the session it read was blank |
| `conv` | `turns` and the entry of `sessions` (active, queued, latest), `autonomySuspended`; `heard` is bookkeeping |
| `queue`, `run`, `update`, `ready` | of the scheduler: the jobs that wait, the run and what its handle says of a stop, the fence, the readiness |
| `asks`, `waits` | the calls of `cancelTurn()` under way, and who awaits them |
| `session`, `deletion` | the row of the session, and where `sessions.delete` stands with its fence |

`Send`, `Reads`, `Registers` and `Admitted` are `send()` between its awaits, the last two
with `enqueue()`; `Starts`, `Says` and `Settles` `handleSchedulerEvent()`; `Stop` and
`Answer` `stop()` around its await, the latter for the other callers of `requestStop()` as
well; `ChannelStop` is the `/stop` of a chat, `CancelForUpdate` and `RunEnds` the
scheduler's; `BeginDeletion` to `DeletionFails` `sessions.delete`. `Drains` is part of every
step that may start a run. A message without a session makes one that nobody else knows
yet and is left out, with attachments, previews and texts.

What the code does and the properties allow for: a message that is submitted while a stop
awaits the agent resumes the session and is suspended again by the answer
(`local-conversation.ts:301`), so `MessagesResume` speaks of messages that overtake no stop.
A turn that is being admitted when `stop()` comes is queued all the same, as the scheduler
does not have it yet. Steering that is put back and the jobs of channels have turn ids the
conversation does not know, so `stop()` of the window leaves them alone
(`OthersAreSpared`). A message that read a blank session before its deletion and is
registered after it makes the session again; one of a session that was used is accepted and
fails in the agent. A deletion that fails after the agent took the row leaves the turns in
memory (`desktop-gateway.ts:530`).

### CardDelivery

| Variable | Code |
| --- | --- |
| `turn`, `sent`, `said` | turns with a streamer, the number of their frames, and whose last frame was emitted |
| `chain`, `head`, `resolving` | `notifications` of the agent's runtime, the one it waits for, frames between emitter and CardKit |
| `stream`, `pump`, `tail`, `completed` | `streams` with their slot, where each pump stands, `sessionTails`, the tombstones |
| `unsettled` | frames whose promise is open |
| `writer`, `route`, `cards` | `writers`, the card in the response route, the cards of Feishu (external) |
| `faults`, `hurt` | bookkeeping: what failed, and whose delivery it hit |

`Handle` is `handle()` with `enqueue()`, `Take` and `FrameEnds` the pump, and each of
`Create`, `RecordCard`, `SendReference`, `RecordMessage`, `Update`, `Close`, `Finish`,
`ClearRoute` one awaited call with both its answers; `EnsureFails` and `CallFails` are the
two error paths. `emit()` of the agent is a notification (`server.ts:268`), so a streamer
never learns that a delivery failed, and the plain message that
`docs/desktop/gateway/channel_adapter_boundary.md:71` promises in that case is never sent.
When the route cannot be cleared after the last frame (`cardkit.ts:490`) the writer stays
`finalized` and takes no later answer of the session: `FailuresStayLocal` is checked
without that fault and without lost frames (`card_frame_lost`). The tombstones are not
limited, contents and CardKit's own sequence numbers left out.

### GatewayLifecycle

`start` and `stop` are where `startOnce()` and `stopOnce()` stand, `teardown`, `waits` and
`stopping` the steps of each teardown and what they called; `agent`, `run`, `dispatch`,
`hung` the runtime and the scheduler as the lifecycle sees them; `registry`, `adapter`,
`restart` and `conn` the channel. `StepEnds` is `runStopStep()`: what was called has ended,
or its deadline passes and it goes on. `runtimeLifecycle.stop()` waits for the active runs
before it tells the agent to stop, so a run that does not end keeps the agent up behind a
recorded error; `StopsInTheEnd` names this and a process that could not be killed as the
only exceptions. Of the SDK it is assumed that closing a connection ends an open that is
pending, and that a forced close succeeds. `start()` is tried once, and one channel stands
for all; the wait for heartbeat wakes and `forceActiveRuns()` are part of the steps before
and after them.

### DesktopGateway

`own`, `tools`, `health` and `preparing` are the fields `composition` (with `runtime` and
`store`, which are set and cleared with it), `automations`, `gatewayState` and
`updatePreparing`; `gateway` the gateways made, each with where its composition stands, its
child, its timer and its store; `call` where each call stands and the gateway it works on.
The awaits of a stretch that reads nothing in between are one. The composition does what
`GatewayLifecycle` says: it comes up, fails, notices a stop, goes down with or without an
error. `crossed` and `stray` are history variables. `crossed`: two calls ran beside each
other, other than restarts of the agent, permissions for it, and what the fence of an update
refuses. `stray`: the gateways that such calls have lost, and there are two ways to lose one.

* `LetGo`: the end of a stop, of a start that failed or of a recovery clears the fields
  (`desktop-gateway.ts:367`, `:402`, `:417`) whatever gateway they hold by then. A restart
  that waits in `stop()` while a first `start()` makes a gateway clears that gateway's fields
  at its end without having stopped it; a recovery does so to any gateway without a process.
* `Revived`: after a gateway was stopped its agent is started again by a `restartAgent()`
  that was under way, or its automations by a `start()` (`:359`), while another call is about
  to give it up or has done so.

The properties hold of all other gateways whatever calls overlap, and `NoStrays` says that
none is lost as long as `crossed` is false. Only that "ready" tells of a gateway that serves is
claimed of calls that did not cross at all: overlapping calls write `gatewayState` in any
order. Two more exceptions are named by the properties: when `start()` fails it gives up a
child whose exit is not confirmed (`:366-371`), where `stop()` refuses to (`:398`); and after a
failed stop of an update `gatewayState` stays `ready` (`gateway[g].trouble`).

### CloudEnrollment

`disk` is what `settings.json` (`dev`, `sw`) and `secrets.bin` (the rest) say; permissions,
credential, models and tunnel are named by the device they belong to. `perm` is
`permissionSnapshot`, `pending` `pendingDevice`, `act` where `activateOnce()` stands,
`sync` a check for each of its callers, `live` whether its generation is current and
`fresh` whether what it asks about models is. `agent` is the runtime of the gateway:
`allowed` is its `allowedSkillTypes`, `has` what the child was told. `commit()` is one step
but for a crash, which may find the new secrets beside the old settings (`Halves`). What
the server, the provisioner and the gateway answer is any answer (external); a tunnel is
replaced or not when a crash comes. It is assumed that a script of the provisioner has
ended when it is reported as failed (its 120 seconds of `wireguard-provisioner.ts` end the
wait, not an elevated script). Three histories name what the code does not keep, and
`BindingIsWhole` and `AgentFollows` are claimed without them:

* `torn`: an import with a tunnel of its own over another enrolment commits without the flag
  of a switch (`desktop-cloud.ts:618`). After a crash between the two files the credential
  of one device stands beside the settings of another, until the file is imported again.
* `crossed`: `activate()` does not wait for a reconnection that runs (`:285`), which then
  puts the old tunnel up again; and when a switch could not be undone, the next one does not
  know whether its tunnel was removed, and restores an enrolment without one.
* `missed`: `updateSkillPermissions()` remembers permissions and returns while the child is
  not ready (`process-runtime.ts:341`), also when `initialize` has been sent with the old
  ones, which the child then keeps, although
  `docs/desktop/gateway/gateway_lifecycle.md:35` has them passed at initialisation and
  updated in place. An import with a tunnel of its own does not tell the agent before it
  restarts the gateway, which it does not come to when the service was stopped or telling
  of a denial fails.

### TurnUsageSync and TurnReports

`recorded`, `old` and `cursor` are the tables, `flight`, `rerun`, `backlogTimer` and
`service` the object; `stored` and `late` are the server, which takes a turn once however
often it is sent (external). A batch goes on to the next after `stop()`; a request that
comes during the rerun is forgotten (`turn-usage-sync.ts:347`). A record that fits into no
batch stops the upload at it, those after it included, and `TurnsReachTheServer` exempts
them. That the local store fails before anything was exported is left out: the request ends
then as with an upload that fails. `TurnReports` is what `docs/harness/runtime/native-statistics-upload.md` promises: reports begin at some turn, are in
order and without a gap, and the cursor is what the server confirmed; the mapping is the
identity on its four variables.

### McpServers

`registry` is whether `McpManager.registry` is set, `connecting` the entry of the map of
attempts, `attempt` an attempt's promise with its signal and `link` the client and transport
behind it, which may open after the attempt was given up. Closing a connection is assumed to
succeed: when it fails (`mcp.ts:410`) the connection is off the record by then and the call
ends with the error, and whether the other side is gone is not known to the code. A step runs from one await to the
next; `Quiet` lets what is queued behind a promise run before timers and the other side. One
server stands for all, which share nothing. Names, filters and calls of tools are left out,
and so is the prefix of a long name (`mcp.ts:89`) by which tools are removed: what a server
registered is removed together. That a connection broke is not noticed by the code.

### WarehouseExports

`record` is the table `yacang_submissions`, `cooling` `yacang_cooldown`, `client` the runs,
and `submissions` the platform (external), where a request may arrive long after its answer
was given up. `Inside` is the lock of the account. A row is written before the request and
deleted by an explicit rejection or a file that is ready (`workflow.py:63`, `:70`). Two
limits are the code's: a person who exports with the same filters while a request of ours is
not listed yet has the export taken for ours (`NothingIsForgotten` is claimed without such a
person), and a request that never arrived keeps its row, so that its task waits in vain until
somebody removes it (`docs/acceptance/yacang-export-validation.md`).

### ShangmanLogin

`challenges` and `images` are the two files of a captcha, `epoch` and `saved` `epoch.json`
and `state.json`, `revision` the settings the desktop writes; a call carries those it was
started with, which also stand for the fingerprint in the files. A section under `auth.lock`
is one step but where a process that dies in it leaves something half done (`json`, `wipe`).
`status()` of a process with older settings removes captchas of newer ones before it asks
whether it is current (`state.py:134`); `CaptchasAreKept` names that case.

### MabangLogin

`file` is the number of the route that wrote `state.json`, `complete` what
`_require_complete_auth_material()` says of it, `lock` `auth_refresh.lock`. A route is two
steps: the removal of the old state with the submission of the password, and the write of the
new one. `seen` (bookkeeping) is the number of losses when a caller was told of a login.

## 4. The runs

| Run | Module, configuration | Instance | States |
| --- | --- | --- | --- |
| `one_session` | `MCSessionScheduler`, `MCOneSession.cfg` | one session, three jobs | 295 744 |
| `sessions` | `MCSessions`, `MCSessions.cfg` | sessions with two jobs and one job, one key; five more scenarios, below | 1 677 411 |
| `services` | `MCServices`, `MCServices.cfg` | thirteen scenarios, below | 3 189 704 |
| `execution` | `MCExecution`, `MCExecution.cfg` | seventeen scenarios, below | 2 752 143 |
| `liveness` | `MCLiveness`, `MCLiveness.cfg` | three scenarios, below | 36 696 |
| `agent_steering_lost` | `MCAgentRuns`, `MCAgentSteeringLost.cfg` | one run, two messages, two stops | violation |
| `agent_recovery_lost` | `MCAgentProcess`, `MCAgentRecoveryLost.cfg` | a restart, a recovery, a failed connection | violation |
| `update_steering` | `UpdateInstall`, `MCUpdateSteering.cfg` | tasks with steering, one release | violation |
| `card_frame_lost` | `MCCardDelivery`, `MCCardFrameLost.cfg` | two answers of one chat, one frame lost | violation |
| `routing_clear` | `MCSessionRouting`, `MCRoutingClear.cfg` | two clears and a text of one chat | violation |
| `automations_stale` | `MCAutomations`, `MCAutomationsStale.cfg` | two one-shots, two versions, two dispatches | violation |
| `automations_refused` | `MCAutomations`, `MCAutomationsRefused.cfg` | a one-shot | violation |

**`one_session`**: `NoSessionStalls`, the ready list is exactly the set of
sessions that wait without a run, and empty whenever `drain()` may work;
`PublishedStatesAgree`; `NoOvertaking`, requeued steering does not disturb the
order of what waits; `OutcomesAreFinal`, a late answer to a cancellation revives
nothing; `AcknowledgedStopHolds`, an acknowledged stop ends as cancelled and leaves
no job behind; under fairness `AcceptedJobsEnd` and `AdmissionsEnd`, no job and no
reserved admission is forgotten. Three jobs are the least with which a run, a job that waits and
steering put in front of it exist at once. Deadlock is checked.

**`sessions`**: `SchedulerInv`, the inductive invariant of the proofs with the type
invariant in it; `OneRunPerSession`; `DeletionIsExclusive`; `KeyFencesHeldOnce`, one
deletion's end never lifts a fence of another; `UpdateStaysQuiet`, behind the fence of an
update that cancelled all work nothing is taken in and no run can requeue its steering;
`ImplementsSerialTurns`, the refinement. Two sessions and one key suffice for two
deletions to compete. Deadlock of the scheduler is checked; the other scenarios may rest
(`Rest`), as their calls are bounded:

| Scenario | Instance | States | Property |
| --- | --- | --- | --- |
| `scheduler` | the two sessions, jobs of the same session exchanged | 305 468 | the six above |
| `plan` | a calendar rule, edited once, two dispatches, up to the first time | 627 638 | `PlansHold` |
| `recurring` | an interval or a one-shot, not edited, two dispatches, up to the second time | 200 066 | `PlansHold` |
| `messages` | two messages of the window, a job of a channel | 237 902 | `ConversationsHold` |
| `planned` | a message, the run of an automation, a job of a channel | 212 534 | `ConversationsHold` |
| `failing` | a message and the run of an automation, one failure | 93 803 | `ConversationsHold` |

`PlansHold` is the conjunction of `AutomationsInv`; of `NoDoubleStart`, a calendar time of
one version starts one turn, although plans may fall due before their nominal time, refused
ones are given back and the process may die in between; and of `StartsAreSpaced`,
`RecordsAreTruthful`, `OpportunityKept` and `TurnsAreWanted`: no turn is handed over of a
plan that was paused, deleted or edited after it was claimed.
`ConversationsHold`: the turns a conversation keeps are the active one, those that wait and
the last one, as the scheduler has them (`TurnsFollowTheRun`); an automation's run waits
behind nothing; a deletion overlaps no work; a message lifts a suspension; results stay,
work is forgotten only when it was refused or cleared, and a stop spares other jobs.

Two dispatches are what a repetition needs, two versions what an edit between two awaits
needs, two times what two repetitions need; the last two are in a scenario each. In
`plan` it is a calendar rule on an existing conversation whose times 1 and 2 fall due one
minute early; in `recurring` an interval, or a one-shot at 1, with a new conversation.
`NoDoubleStart` does not speak of different versions: an edit between the early due time and the nominal time computes that nominal time again.
It has no statement on manual starts either: one that is refused after its claim leaves a
one-shot finished (`automations.ts:245` restores scheduled starts only).

**`services`**, by scenario:

| Scenario | Instance | States | Property |
| --- | --- | --- | --- |
| `transcript` | two messages and two of: a replaced context, a selection, a rename, a crash | 196 639 | `TranscriptHolds` |
| `troubled` | one message and three of them | 75 567 | `TranscriptHolds` |
| `approvals` | two calls of one session, one record that fails | 12 147 | `ApprovalsHold` |
| `update` | two tasks, requeued ones among them, two releases | 32 673 | `UpdateHolds` |
| `answer` | one part of one token, one change of metrics, two batches, the agent one event ahead of the gateway and that two ahead of the window | 652 553 | `AnswerHolds` |
| `routing` | two texts and a command of one chat, a deletion, one failing call | 123 393 | `RoutingHolds` |
| `cards` | two turns of one session, two calls to Feishu that fail | 569 913 | `CardsHold` |
| `delivery` | three turns of two sessions behind one chain; frames, the child and the window's clear fail as well, two of them | 471 685 | `CardsHold` |
| `lifecycle` | two runs, three of: failures, deadlines that pass, an agent or a connection that goes down | 137 946 | `LifecycleHolds` |
| `gateways` | a start, a restart, an update and the end of the application; three gateways, one failure | 256 371 | `GatewaysHold` |
| `agent` | a start, a restart of the agent, a change of its permissions and an update; two failures | 68 033 | `GatewaysHold` |
| `switching` | an enrolled device that is replaced by another, two failures or crashes | 405 542 | `EnrollmentHolds` |
| `discovery` | a machine without an enrolment that finds out its device, then a file with a tunnel and one without, one failure or crash | 299 847 | `EnrollmentHolds` |

`TranscriptHolds`: no transcript outlives its session, no acknowledged selection is taken
back, a valid cache and the context of a turn are what the file replays to, nothing a
load could show is withdrawn, a title keeps its place. `ApprovalsHold`: a grant is
allowed on the record and still wanted when it is given; no call waits for ever.
`UpdateHolds`: the fence comes down, the installer runs at rest, only what the user
confirmed is stopped. `AnswerHolds`: the window ends with the answer, shows under a number what
was cut under it, and goes only forward. `RoutingHolds`: bindings lead to sessions that
exist, a deletion that fails puts back what it took, no key leaves a session at work.
`CardsHold`: a call to Feishu that fails hurts the answer of its own turn only, no promise
is left without a pump that settles it, the turns of a session write one after the other,
and a card goes only forward and stays as it was closed. That a failure stays local is
claimed where frames fail and not where they are lost (the run `card_frame_lost`).
`LifecycleHolds`: a stop that reports no error has left nothing up, wherever the start was;
and one that reports errors has left up only an agent whose run does not end or whose
process could not be killed. `GatewaysHold`: however calls overlap, whatever
lives belongs to the gateway the application knows, an installer finds nothing running, and
windows are told "stopped" when nothing is, but for what was lost in the two ways `stray`
names; none is lost, and "ready" is told of a gateway that serves, as long as no calls but
those about the agent ran beside each other (`crossed`).
`EnrollmentHolds`: credential, permissions, models and tunnel are those of one device,
wherever an enrolment was broken off; nobody has permissions while the tunnel is replaced;
at rest the agent has those of the device; a cleared cache stays empty until a check asks;
and without an enrolment a device becomes another one by the user's confirmation only.

Two messages are what a cache that misses one and a title from the wrong prompt need; one incident more than a scenario has actors is what
a failure of a repair needs. A second part of an answer adds no interaction that a
delta after an update of the same part does not have.

**`execution`**, by scenario:

| Scenario | Instance | States | Property |
| --- | --- | --- | --- |
| `process` | two stops, a restart, a recovery, a failed connection, two children, one attempt, with and without process trees | 64 383 | `AgentIsOwned` |
| `recovery` | two restarts, a recovery, a failed connection, two children, two attempts | 21 286 | `RecoveryHolds` |
| `runs` | two runs of one session, one message, one stop, two children | 475 651 | `RunsHold`, `SteeringHolds` |
| `steering` | one run, two messages, two stops, one child | 141 138 | `SteeringHolds` |
| `turn` | two turns of three steps, two attempts, answers of two calls, three incidents | 114 001 | `TurnsAreRecorded` |
| `results` | two turns of one session; two incidents with the first of them, one with both | 1 129 325 | `ResultsHold` |
| `command` | one command that writes twice, two waits, a window | 24 367 | `CommandsHold` |
| `eviction` | two commands of which one is kept, two waits | 163 854 | `CommandsHold` |
| `capacity` | three commands of which two are kept and the last is protected | 134 468 | `CommandsHold` |
| `worktree` | two turns of a worktree whose instructions change twice | 124 664 | `WorkspacesAreCurrent` |
| `worktrees` | three turns of two worktrees of which one is kept, a change of the skills | 117 256 | `WorkspacesAreCurrent` |
| `server` | a start, two calls that switch the server on, one that switches it off, a stop; three attempts | 82 191 | `ServersHold` |
| `exports` | three runs, one of two reports; two of: kills, requests that fail | 31 938 | `ExportsHold` |
| `foreign` | two runs, an export by a person, one kill or failure | 22 140 | `ExportsHold` |
| `cleared` | a captcha, two submissions, a clear, a status; a change of the settings, a kill | 47 506 | `LoginsHold` |
| `refused` | two captchas, two submissions, an export; a change of the settings, a kill | 100 313 | `LoginsHold` |
| `browser` | two exports and a refresh by hand, three losses | 34 999 | `BrowserLoginsHold` |

`AgentIsOwned`: a child that lives is owned and every request that waits belongs to it;
after `stop()` none is left that did not outlive its signals; a child is spawned only
when none lives and no killed tree is unconfirmed. `RecoveryHolds`: an agent that is down by itself has a
timer while attempts are left, where children are ended by signals. `AgentIsOwned` is not
claimed of two overlapping restarts (the hazard at `process-runtime.ts:180`).
`RunsHold`: callers and pending requests agree, so no caller waits for a call that is
forgotten, an acknowledged stop has reached its run, and the agent never
holds two runs of a session, although the gateway gives runs up while the child lives
on; two children let a run outlive the connection of the one before it.
`SteeringHolds`: a message is consumed or put back into the queue or
queued by its sender, never two of them, and a run that completed has written all it
accepted or handed it back; two messages are what a batch of steering with a rest needs.
`TurnsAreRecorded`: a request is what the transcript replays to, with every call answered;
answers are made up only where a crash, a failed write or a cut answer lost them; no tool
runs off the record; what was written is told on or covered by a summary, and
steering that is taken is written. `ResultsHold`: at
rest the store says what the scheduler knows and the window what the store has; a result
stays what it is, and only what was shown becomes read. `CommandsHold`: what runs is on record, nothing
runs after its session was closed; an end is told once, with all the
output or the word that some is missing, and a window at rest has the last revision.
`WorkspacesAreCurrent`: a turn uses what was known when it asked, a stale view is dirty
or its event is to come, and a worktree has one instance.
`ServersHold`: registered tools call an open connection, none is left open, and the last word
on a server comes true. `ExportsHold`: a request of which something may come is on record, a
file is delivered once and is the one that was asked for, and nothing is submitted while the
account was told to wait. `LoginsHold`: a captcha is posted once, a cleared login does not
come back, and a newer login or captcha is not removed for an older process.
`BrowserLoginsHold`: the password is submitted once for all who wait, no slower route writes
over a newer login, a retry is not made with what was rejected.

Three incidents let a failure meet a cancel and a crash in the same turn; a second
turn shows what the first has left.

**`liveness`**: `CallsSettle`, every request ends by its answer, its timer or the end of
the connection (one run, one message, two stops, one child); `PlansSettle`, no dispatch
stays prepared and `stop()` ends (an interval or a one-shot, one start);
`ImplementsTurnReports` and `TurnsReachTheServer`, the refinement of the promise of the
upload and that it is kept in the end (three turns in batches of two, the last one too
large, two ends of the process).

Symmetry is used on jobs of a session, which the definitions treat alike, and in runs
without liveness properties only. The other runs of sums do not check for deadlock: when
the bounded calls are used up nothing is left to do.

The bounds in guards are `MaxStops` and `MaxLaunches` (`AgentRuns`, and `MaxStops` in
`TurnUsageSync`), `MaxChildren` and `MaxAttempts` (`AgentProcess`), `MaxTime`, `MaxVersion`
and `MaxRuns` (`Automations`), `MaxMessages`, `MaxOfAKind` and `MaxIncidents`
(`TranscriptStore`), `MaxTurns` and `MaxIncidents` (`SessionStatus`), `MaxFailures`
(`Approvals`, `SessionRouting`), `MaxTasks` and `MaxReleases` (`UpdateInstall`), `MaxParts`,
`MaxText`, `MaxMetrics`, `MaxBatches`, `MaxWire` and `MaxIpc` (`LiveAnswer`), `MaxSessions`
(`SessionRouting`), `MaxCalls`, `MaxTurns`, `MaxNumbers` and `MaxIncidents`
(`TurnExecution`; `MaxSteps` and `MaxAttempts` are the code's own limits), `MaxChunks`
(`CodingProcesses`), `MaxChanges`, `MaxRevisions` and `MaxObjects` (`WorkspaceInstances`),
`MaxEmits`, `MaxDeltas`, `MaxFaults` and `MaxCards` (`CardDelivery`), `MaxRuns` and
`MaxFaults` (`GatewayLifecycle`), `MaxGateways` and `MaxFaults` (`DesktopGateway`),
`MaxFaults` (`CloudEnrollment`, `LocalConversation`), `MaxAttempts` (`McpServers`), `MaxForeign` and
`MaxFaults` (`WarehouseExports`), `MaxRevisions` and `MaxFaults` (`ShangmanLogin`),
`MaxLosses` (`MabangLogin`), `MaxTurns` (`TurnUsageSync`; `MaxBatches` and `BatchLimit`
are the code's). The scheduler
is bounded by the number of jobs alone.

### Fairness

For the scheduler: the runtime settles every run it was handed, comes back when
it is not ready and answers every cancellation (each request is rejected at the
latest when the child exits, which `CallsSettle` checks); storage answers
`beforeAccept`; an update that does not end the application lifts its fence
(`desktop-gateway.ts` releases it in every outcome, `UpdatesInstallAtRest`). For
`CallsSettle`: a live child reads its input and answers, a batch is written or fails, a
turn ends, the gateway reads the answers. That a turn ends is an assumption about model
and tools: `run_turn` has no timer. For the automations: each await of a dispatch, of the
recovery and of `stop()` settles (requests have timers, the clock's worker is terminated
after a second and when the service stops), and the interval timer ticks. For the upload:
the process is started again after it ended, its timers fire, its steps are taken, a
request is answered or fails at the latest by its timer, and a server that is asked
again and again takes a request and confirms it at some time (strong fairness, as each
attempt may fail). Nothing is assumed of stops, submissions, launches, exits and faults.

### What the violated properties show

* `ErroredRunsKeepSteering`. `docs/desktop/gateway/session_scheduler_cancellation.md:97`
  says that steering must not be lost, and line 73 lets only cancelled runs drop it.
  `appendSteering()` (`engine/runtime.ts:539`) has taken the whole batch when loading
  a skill or writing a message throws; the turn ends as an error and what is left
  of the batch is neither in the transcript nor in `remaining_steering`.
* `FailedConnectionsRecover`. `docs/desktop/gateway/agent-protocol.md:101` says that a
  damaged answer ends the connection and that recovery uses the configured back-off.
  `failConnection()` (`process-runtime.ts:529`) compares a generation that every
  termination of a child increments, so its own call of `scheduleRecovery()` is never
  reached. Where signals end the child, `handleExit()` has scheduled the recovery by
  then; where process trees are killed, that call returned early (line 585), and
  the agent stays in state `error`.
* `ScheduledWhenDue`. `docs/desktop/automations.md:3` says that a prompt is submitted
  when its time has come. `tickOnce()` lists the due plans once and awaits their
  dispatches in turn; `dispatch()` reads a plan again and checks that it is active
  (`automations.ts:207`), not that it is due. A plan that is moved to a later time
  while another one of the list is dispatched starts at once, and a one-shot is over.
* `RefusalKeepsThePlan`. The comment at `automations.ts:243` says that a failed admission
  consumed no turn and that its opportunity is retained. `enqueue()` throws a plain
  error for an update's fence in its first line (`scheduler.ts:180`), before the
  `SchedulerBusyError` of line 200 that `dispatch()` would recognise; the run becomes
  `unknown` and the plan is not restored.
* `KeepsSteering`. `docs/desktop/gateway/session_scheduler_cancellation.md:97` says that
  steering must not be lost, and line 73 lets only cancelled runs drop it.
  `cancelForUpdate()` marks every run so that its steering is dropped; when a stop fails the
  update is given up and the fence lifted, but nothing takes the mark away, and a run that
  then completes by itself drops what it did not consume (`scheduler.ts:353`), also what it
  was given after the update had failed.
* `ClearsSpareWork`. `docs/desktop/gateway/session_routing.md:65` refuses `/clear` while the
  session has work. `clear` asks about the session it read before it awaited the agent and
  then replaces whatever binding the key has (`router.ts:293`): a second clear that looked
  at the same time takes the key from the session the first one made, in which a text waits
  or runs.
* `FailuresStayLocal`. `docs/desktop/gateway/emitter_heartbeat_wake.md:48-53` says that a
  delivery that fails is recorded as the failure of that delivery alone (只记录当前 delivery
  failure). A frame whose answer never comes is waited for without a timer
  (`cardkit.ts:343`) by the chain of its session, which the next turn's frames join
  (`adapter.ts:128`, `process-runtime.ts:505`), so that one lost frame keeps the answers of
  every later turn of the session from their cards.

## 5. What is proved

Each part is proved for every value of its constants, from the assumptions its module
states of them; what else a theorem assumes is named below. The modules of proofs are
checked with `tlapm`.

### The scheduler

`Gateway_proofs` proves, for any sessions, keys and finite set of jobs
(`SchedulerAssumption`: jobs are finitely many, `NoJob` is none of them, each has a
session), with bounds on nothing:

| Theorem | Statement |
| --- | --- |
| `SchedulerInvariant` | `Spec => []SchedulerInv` |
| `TypeCorrect` | `Spec => []TypeOK` |
| `RunsAreSerial` | `Spec => []OneRunPerSession` |
| `WakeupsAreKept` | `Spec => []NoSessionStalls` |
| `DeletionExcludes` | `Spec => []DeletionIsExclusive` |
| `UpdateQuiesces` | `Spec => []UpdateStaysQuiet` |
| `PublishedStatesHold` | `Spec => []PublishedStatesAgree` |
| `FinalOutcomes` | `Spec => OutcomesAreFinal` |
| `StopsHold` | `Spec => AcknowledgedStopHolds` |
| `Refinement` | `Spec => ImplementsSerialTurns` |
| `QueuesKeepOrder` | `Spec => []NoOvertaking` |
| `KeysAreFencedOnce` | `Spec => []KeyFencesHeldOnce` |

The argument. None of the invariants is inductive alone: that two runs of a
session do not meet needs that both indexes of handles agree (`RunIndexesAgree`);
that the ready list is complete needs that a started session leaves it; that an
ended job is not revived needs that a cancellation exists only for a job that has
started (`CancelsFollowStart`), and that a job is taken from the right queue
needs the published states; that `drain()` finds a first job in every queue needs
that ranks stay above the least one handed out (`RanksBounded`) and, for the type
of the admission counter, that it counts the calls inside `beforeAccept`
(`AdmissionsCounted`), which is where jobs must be finite. `SchedulerInv` is their
conjunction. `FirstIsLeast` shows that a queue has a first job, `DrainKeeps` and
`DrainStep` what one drain does to any operation's intermediate state; there is one lemma
`...KeepsInv` per action, and `NextKeepsInv` joins them. The action properties and
the refinement follow from the invariant: `PhasesOfStates` relates states to phases,
`PhasesAreSerial` gives the abstract invariant, and `StepRefines` maps each step to
one of `SerialTurns` or a stutter.

Two more invariants stand beside it. `QueueOrderInv` relates the ranks of a queue to the
order of acceptance: what is put at the front was started before, so its rank is below all
that waits and its acceptance too, and what is put at the back is above and later.
`KeyFencesInv` says that a key's fence is held by a deletion that has begun and has not been
released, which is why a release closure that is called twice lifts nothing.

### The runs of the agent

| Theorem | Statement |
| --- | --- |
| `AgentRuns_proofs!CallersAndCallsAgree` | `Spec => []AgentRunsInv` |
| `OneRunOfEachSession` | `Spec => []SessionRunsAlone` |
| `StopsAreReal` | `Spec => []AcknowledgedStopAborts` |
| `MessagesAreHandledOnce` | `Spec => []SteeringHandledOnce` |
| `CompletedRunsLoseNothing` | `Spec => []CompletedRunsKeepSteering` |

From `AgentRunsAssumption` alone. `RunsInv` follows a run from the line that takes it to the
agent (`RunsEnterOnce`) through its handle (`ActiveWhileHeld`) to its answer, which is written
when the agent has the run no more (`AnswersComeLast`). That the agent never has two runs of a
session is not the scheduler's doing alone: after a lost connection the gateway gives its runs
up while the agent may still be at work, and what keeps the next one away is that nothing is
started before the child is gone. `SteeringInv` follows a message: it goes to one run
(`Destined`), is in one place from the line that brings it to the history or back into the
queue (`OnePlace`, `NothingTwice`), its run is answered once (`OneAnswer`), and it is lost only
with a run that cannot complete any more (`NothingLost`, `Spoilt`).

### The process of the agent

| Theorem | Assumes | Statement |
| --- | --- | --- |
| `AgentProcess_proofs!ChildrenAreOwned` | `OneRestarter` | `Spec => [](AgentProcessInv /\ NoOrphans /\ StoppedMeansGone)` |
| `SpawnsAreAlone` | `OneRestarter` | `Spec => [][AloneWhenSpawned]_vars` |
| `AgentsComeBack` | `RestartsOnly` | `Spec => []RecoveryScheduled` |

`OneRestarter`: no two calls of `restart()` overlap. The code does not see to it by itself
(the hazard at `process-runtime.ts:180`): `launch()` does not look again at what it owns after
it waited. The application's buttons and the gateway's queue of calls do. With two restarters and
four children TLC finds a child that nobody owns, so the assumption is needed.
`RestartsOnly`: `stop()` is called inside `restart()` only. When the gateway's own `stop()`
overlaps a restart, the restart may bring back an agent and the stop may take it away
with nobody to try again; the gateway is going down then, and recovery is not
promised. `OwnedInv` relates the owned child to the termination under way (`TargetIsOwned`),
says that a restart inside its `stop()` has the flag of a manual stop (`RestartsComeAlone`), so
that the timer is off and no other launch begins, and that whoever was woken with success
reports it over no child (`StopsAreEarned`, `StopsAreHonest`). `RecoveryInv` says that without
a child, and unless it was stopped or given up, the timer runs or a launch is on its way
(`ChildComesBack`), and that what is terminated is replaced by whoever terminates it
(`TargetIsReplaced`).

### The connection to an MCP server

`Outside_proofs!ServersAreConnected`: `Spec => []ServersInv`, assuming `OneStart`: the
runtime starts its services once, as it does. A start that followed a stop that still drains
would register a connection the stop does not take away. `ConnectedInv`: one attempt is under
way, and somebody waits for it (`OneAtATime`); it is begun only while there is no
connection (`AttemptsEnd`), so that `connections.set()` replaces nothing; a connection
follows the attempt that opens it (`LinksFollow`) and is there because it is wanted
(`ToolsFollow`). The last word is the hard part: an attempt that nobody wants was aborted, and
who wants the server again waits behind it (`GivenUp`); what the callers of an older attempt
have to note is noted before the next can fail (`WaitsEnd`), because promises run before
timers and the other side; so a server that is on has its connection, will be tried, or has
failed to get it (`WordsCount`). One lemma per action says that the step preserves all of it;
the three steps that call `connect()` share `ConnectKeeps`.

### The login of the browser

`Outside_proofs!LoginsHold`: `Browser!Spec => []Browser!MabangInv`, of any instance of
`MabangLogin`, from `MabangLoginAssumption`.
`LoginsInv` adds to it that the lock names the route under way, that while it is there is no
login and a complete one is the last (`FileIsTheLast`), that a command which was rejected only
reads what was made since (`RoutesSinceRejection`), and that what a command was promised is
there or was lost since (`PromiseStands`).

### The upload of usage

`Gateway_proofs!UsageInvariant`: `Usage!Spec => []UsageInv`, and `UsageIsReported`:
`Usage!Spec => Usage!ImplementsTurnReports`, of any instance of `TurnUsageSync`, from `TurnUsageSyncAssumption`. `UsageInv` says that the
server has what was confirmed (`CursorIsConfirmed`), that the request in flight begins behind the
cursor and is stored once it was taken (`FlightFollowsCursor`), and that one that was given up
begins no later than behind what the server has (`LateLeavesNoGap`): a late request therefore
never leaves a gap, and every step maps to one of `TurnReports` or a stutter.

### The workspaces of turns

`WorkspaceInstances_proofs!WorkspacesAreKept`: `Spec => []WorkspacesInv`, for any finite set
of turns, any worktrees and any bounds (`WorkspaceInstancesAssumption`).
A turn may be handed a reload that others began before the last change. That it gets what was
known when it asked rests on three things `WorkspaceInv` keeps. Whatever becomes known marks
every view it is about and increments its revision, so a view that is not dirty, and a reload
whose revision is still the view's, have read all of it (`Current`). A reload reads nothing newer
than what there is and, as long as it is under way, its revision is not ahead (`Grows`). And
who finds the view dirty when the shared reload ends begins another one, which reads after
the turn has asked (`Served`). Instances that were evicted are told of nothing any more; that
is why `Served` and `KnownChangesAreUsed` speak of those in the map. Apart from this
`LeasesCounted` says that `activeLeases` is the number of turns that hold one, so that a
release never takes the number below zero and nothing that is held is evicted; it is where
turns must be finite. `TouchKeeps` is the lemma about every operation that marks views,
`OneChanges` about those that work on one instance.

### The gateways of the application

`Services_proofs!GatewaysAreKept`:
`Spec => [](TypeOK /\ NoStrays /\ InstallsAtRest /\ HealthTells)`, for any calls of any
kinds and any number of gateways and failures (`DesktopGatewayAssumption`), and however the
calls overlap. The invariant has three parts.

`LossInv` holds of all calls, crossed or not: gateways are numbered as they are made, and no
call works on one that was not made (`Numbered`); every gateway that is neither owned nor
`stray` was stopped and is at rest, and the one that is owned is what each call that works on
it takes it for (`NoneLost`, `Fits`); one call at most starts a gateway (`OneStarts`); and one
update at a time has the fence up, all the way to its installer (`FenceHolds`). Each action has a lemma
(`...Loses`): what it gives up has been stopped by the call that does, or goes into `stray`;
`EasySteps` covers those that touch no gateway, `StartFromLoses` the start that several
actions share, `AliveLoses` and `TickingLoses` those that set an agent or automations going,
which is where `Revived` is needed.

`Unlost`, that no gateway is `stray` before calls crossed, needs to know what a single call
does: `GatewayInv` with `Uncrossed`. Of the calls that do more than look after the agent one
is under way (`Alone`), it works on the gateway that is owned (`Works`), and where it stands
says how far that gateway is up or down (`OwnAt`); a gateway no call works on serves, or is
what a failed stop has left (`Settled`); every other one is gone but for a child whose exit
nobody confirmed (`Gone`); and what windows are told follows the call (`Tells`). What the
fields say of one another (`FieldsAgree`) holds of crossed calls, too. `MainSteps`,
`LoneSteps` and `TypedSteps` say once what a step of a single call has to show, so that each
action's own lemma (`...Keeps`) shows only what it does to its gateway; `CompositionKeeps`
covers the composition's own steps, which happen under any call; and `ProceedsSpares` shows
that an uncrossed step loses nothing.

### The start and the stop of a gateway

`Services_proofs!StopsLeaveNothing`:
`Life!Spec => [](TypeOK /\ CleanEndsAreDown /\ StopsInTheEnd)`, the three of
`GatewayLifecycle`, for any number of runs, failures and deadlines that pass
(`GatewayLifecycleAssumption`). Neither property is inductive: both speak of the end, and
what start() brings up between the two teardowns of a stop() breaks anything simple that one
says about the time between. `LifecycleInv` follows each thing that can be up by itself.
`StopsInOrder` and `StartsSettle` say how far stop() and start() are when the other has come
somewhere: a start() that was met has settled before the second teardown begins, or the wait
for it is on record as an error, and a failed one cleans up only where no stop() had begun. `TeardownsFollow` says of each teardown
that what it passed is down (`FieldsCleared`) and that without an error the runtime has
answered (`RuntimeAsked`); `AgentFollows` that an agent that was told to stop stays down.
The channel needs most: the registry has it as started exactly while the adapter wants its
connection, and an adapter that was stopped leaves none open (`AdapterFollows`,
`RegistryFollows`); a teardown that has passed the channels has asked for their stop, and
without an error seen its end (`ChannelsAsked`); and where no field says that they were tried
they are still, unless the teardown that forgets them is under way (`ChannelsRemembered`),
which is why the second teardown finds what start() opened after the first. Each action has
a lemma of its own (`Keeps...`); `CleanStops`, `CleanFailures` and `StopsEnd` draw the
properties from the invariant.

### The update of the application

`Services_proofs!UpdatesInstallAtRest`: `Update!Spec =>` both
`[](TypeOK /\ FenceIsLifted /\ InstallsAtRest)` and `[][OnlyKnownWorkIsStopped]_vars`, those
of `UpdateInstall`, for any number of tasks and at least one release (`UpdateAssumption`).
The fence follows the operation by itself; the other two need what holds on the way to the
installer. `ReleaseStays`: from the authorization on the file is that of the release to be
installed, since only checks and downloads change either and one operation is under way.
`JobsSettle`: once admissions have settled none is under way behind the fence; once the jobs
are being cancelled nothing waits, and every running job is one whose steering is dropped
(`discard`), so that its end brings nothing back for the scheduler to lose. `JobsAreKnown`:
between the last snapshot and the cancellation what can appear is steering that comes back,
and it carries on a job the user has confirmed; no other step begins to cancel
(`OnlyOneCancels`). Each action has a lemma (`After...`), which says first how the operation
goes on or ends (`OpGoesOn`, `OpIsOver`).

### The approvals

`Services_proofs!ApprovalsSettle`: `Grants!Spec =>` both `[](TypeOK /\ RequestsSettle)` and
`[][GrantsAreLive]_vars`, those of `Approvals`, for any finite set of requests of any sessions
and any number of writes that fail (`ApprovalsAssumption`; requests are finitely many because
what a closing cancels is put into a sequence). Neither follows from itself: which answer a
write may give depends on the order of everything noted of the request before. `NotedAs` says
of each request what is on record or about to be: its first event is being written exactly as
long as it asks, nothing is decided before that, and while it is pending the only answer noted
is the one decided. So the event whose write ends either opens the request to an answer or
settles it (`WritesSettle`), and what it grants was pending in a turn and a session that go on
(`GrantsByWrites`). `ClosesAll` says that who closes something waits for an event of each of
its requests that is not settled, and that no later request gets in, so that none is left when
the waiting has ended. No event is written twice (`Once`), which is why a write is over when
its event has gone; `AppendAdds`, `ConcatAdds`, `RemoveAtRemoves` and `SetToSeqHas` are the
lemmas about sequences without repetition that the audit queue needs, `Cancelling` the one
about both ways to cancel.

### The routing of messages

`Services_proofs!RoutesLeadHome`: `Routing!Spec =>` both `[]RoutingInv` and
`[][KeysLeaveIdleSessions]_vars`, those of `SessionRouting`, for any messages and commands of
any chats, any deletions, and any numbers of sessions and failures (`RoutingAssumption`).
`RoutesInv` follows what a deletion may still meet. While it is under way its session has no
work and no other deletion is of it or of its keys (`OnItsOwn`), since a text is queued only
where the fence of its session is not seen; from the moment it takes the bindings away
none leads to its session, and what is back of its rows was brought by a text that had been led
there (`HasText`). It may have to put back keys that were bound again meanwhile: a text cannot
have bound them, because of the fence on the key, so a `/clear` has, to a session no text was
led to, no other key leads to and no deletion is about (`ReboundAfresh`); that session has no
work, and neither has the deletion's, when the key is moved back. A `/clear` that still waits
for the agent makes its session alone (`MakesAlone`), so that what it adds late is of no deleted
one. `MessageSteps` and `FreshSteps` say once what a step of a message that makes no session,
or one, has to show, `DeletionSteps` what one of a deletion leaves to the others;
each action has a lemma (`After...`). `StepsLeaveIdle` goes through the steps that change a
binding: `ClearsLookAround` is the one that may take it from a session with work, and only
when its `/clear` had looked up another, as the finding `ClearsSpareWork` shows it does.

### The instances of the runs

`MCExecution_proofs` and `MCServices_proofs` carry these theorems to the properties the runs
check: `ProcessStands` (`Spec => AgentIsOwned`), `RecoveryStands` (`Spec => []RecoveryHolds`),
`RunsStand` (`Spec => []RunsHold`), `SteeringStands` (`Spec => []SteeringHolds`),
`WorkspacesStand` (`Spec => []WorkspacesAreCurrent`), `ServersStand`
(`Spec => []ServersHold`), `LoginsStand` (`Spec => []BrowserLoginsHold`), `GatewaysStand`
(`Spec => []GatewaysHold`), `LifecycleStands` (`Spec => []LifecycleHolds`), `UpdateStands`
(`Spec => UpdateHolds`), `ApprovalsStand` (`Spec => ApprovalsHold`) and `RoutingStands`
(`Spec => RoutingHolds`). A part whose variables no other scenario uses behaves as its own
specification there (`ServerRuns`, `BrowserRuns`, `LifecycleRuns`, `UpdateRuns`,
`ApprovalsRun`, `RoutingRuns`), so its theorem applies as a whole. The
process, the runs, the workspaces and the gateways share their variables with a second
instance of themselves, under other constants; there the inductive invariant is shown to hold
in the scenario whose steps are the part's own (`ProcessMoves`, `RecoveryMoves`,
`ConnectionMoves`, `SteeringMoves`, `WorktreeMoves`, `WorktreesMove`, `DesktopMoves`,
`AgentCallsMove`), from the lemmas that each step preserves it. The upload's refinement
is stated by `UsageIsReported` for any instance and not carried to `MCLiveness`.

## 6. What is only model-checked, and what is left out

* Liveness (`AcceptedJobsEnd`, `AdmissionsEnd`, `CallsSettle`, `PlansSettle`,
  `TurnsReachTheServer`) stays with TLC: the proof system has no ENABLED and no fairness.
* Everything about the modules section 5 does not name is checked on the instances above
  and not proved.
* Within the modelled files these are left out: `HeartbeatWakeQueue`, delivery of
  notifications, the health snapshot and credential updates of `ProcessAgentRuntime`; the
  wiring and stop of the composition; dashboard calls of the protocol server; preview,
  listing, the MCP pipe and the arithmetic of calendar rules of the automations; and what
  section 3 names for each module.
* The models are not composed, but share their promises. `AgentRuns` takes from the
  scheduler that runs of a session are serial (proved as `RunsAreSerial`); the scheduler
  takes from the runtime that every run settles; `AgentProcess` takes the calls of the
  lifecycle as they come; `TurnExecution` takes from `TranscriptStore` that a write is
  there or not and that a load is what was written; `UpdateInstall`, `SessionStatus` and
  `SessionRouting` see the scheduler as jobs that are admitted, run and end; `SessionStatus`
  takes the order of requests of one owner from the connection.
* The map of `PROJECT.json` covers a small share of the repository's lines by design: most
  of them are user interface, tools, formats and I/O.
